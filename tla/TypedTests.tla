------------------------------ MODULE TypedTests -----------------------------
(***************************************************************************)
(* Typed and type-parameterized tests (gtest-typed-test.cc and .h,         *)
(* gtest-internal.h, gtest-type-util.h): the macros of a translation unit, *)
(* in its order, each with what it does to the state of the test suite and *)
(* to the list of registered tests.  The tests of a suite are known twice: *)
(* as a list of class templates and as the text of the macro's arguments,  *)
(* which are taken apart side by side.  A text is a sequence of characters.*)
(***************************************************************************)
EXTENDS Integers, Sequences, SequencesExt, FiniteSetsExt, TLC

kMaxTypes == 50
NoType == "None"

(* The null pointer, which no text is; and NoneT, which no test is called. *)
NullText == <<"\\0">>

-----------------------------------------------------------------------------
(* Texts. *)
IsBlank(c) == c = " "

SkipSpaces(str) ==
  LET Others == {i \in DOMAIN str : ~IsBlank(str[i])}
  IN  IF Others = {} THEN << >> ELSE SubSeq(str, Min(Others), Len(str))

StripTrailingSpaces(str) ==
  LET Others == {i \in DOMAIN str : ~IsBlank(str[i])}
  IN  IF Others = {} THEN << >> ELSE SubSeq(str, 1, Max(Others))

Commas(str) == {i \in DOMAIN str : str[i] = ","}

SkipComma(str) ==
  IF Commas(str) = {} THEN NullText
  ELSE SkipSpaces(SubSeq(str, Min(Commas(str)) + 1, Len(str)))

GetPrefixUntilComma(str) ==
  IF Commas(str) = {} THEN str ELSE SubSeq(str, 1, Min(Commas(str)) - 1)

RECURSIVE NamesFrom(_)
NamesFrom(src) ==
  IF src = NullText THEN << >>
  ELSE <<StripTrailingSpaces(GetPrefixUntilComma(src))>> \o NamesFrom(SkipComma(src))

SplitIntoTestNames(src) == NamesFrom(SkipSpaces(src))

-----------------------------------------------------------------------------
(* Lists of types, and of templates: fifty arguments, of which those that  *)
(* are not given are None, and NoneT.                                      *)
Filled(given, none) == [i \in 1 .. kMaxTypes |-> IF i <= Len(given) THEN given[i] ELSE none]

UpToNone(args, none) ==
  LET Missing == {i \in DOMAIN args : args[i] = none}
  IN  IF Missing = {} THEN args ELSE SubSeq(args, 1, Min(Missing) - 1)

Types(args) == UpToNone(args, NoType)
Templates(args) == UpToNone(args, NullText)

(* A single type stands for the list of it. *)
TypeList(T) == IF T.single THEN T.types ELSE Types(Filled(T.types, NoType))

DefaultName(i) == ToString(i)
GetName(generator, T, i) ==
  CASE generator = "default" -> DefaultName(i) [] generator = "by type" -> T
GenerateNames(generator, types) ==
  [i \in DOMAIN types |-> GetName(generator, types[i], i - 1)]

-----------------------------------------------------------------------------
(* What the macros of a suite leave: whether it is registered, where each  *)
(* of its tests is defined, the tests it is registered with, as text and as*)
(* templates, and the tests that Google Test has been given.               *)
NewTypedSuite ==
  [registered |-> FALSE, locations |-> << >>, test_names |-> << >>, templates |-> << >>,
   infos |-> << >>, aborted |-> FALSE, errors |-> << >>]

Aborted(state, errors) == [state EXCEPT !.aborted = TRUE, !.errors = errors]

TestExists(state, name) == name \in DOMAIN state.locations

(* TYPED_TEST_P: a test that the map holds keeps its location. *)
AddTestName(state, name, line) ==
  IF state.registered THEN Aborted(state, <<"defined too late">>)
  ELSE IF TestExists(state, name) THEN state
  ELSE [state EXCEPT !.locations =
          [n \in DOMAIN @ \cup {name} |-> IF n = name THEN line ELSE @[n]]]

VerifyRegisteredTestNames(state, registered_tests) ==
  LET Read(s, name) ==
        IF name \in s.tests THEN [s EXCEPT !.errors = Append(@, <<"more than once", name>>)]
        ELSE IF TestExists(state, name) THEN [s EXCEPT !.tests = @ \cup {name}]
        ELSE [s EXCEPT !.errors = Append(@, <<"no test", name>>)]
      read == FoldLeft(Read, [tests |-> {}, errors |-> << >>],
                       SplitIntoTestNames(registered_tests))
      forgotten == SetToSeq({<<"forgotten", name>> : name \in DOMAIN state.locations \ read.tests})
      errors == read.errors \o forgotten
      after == [state EXCEPT !.registered = TRUE]
  IN  IF errors # << >> THEN Aborted(after, errors)
      ELSE [after EXCEPT !.test_names = registered_tests]

(* TypeParameterizedTest::Register: a test for each type, in the suite of  *)
(* that type, under the first name of the text.                            *)
RegisterTest(infos, prefix, line, template, test_names, types, type_names) ==
  infos \o [i \in DOMAIN types |->
    [suite |-> <<prefix, type_names[i]>>,
     name |-> StripTrailingSpaces(GetPrefixUntilComma(test_names)),
     class |-> <<template, types[i]>>, fixture |-> types[i], line |-> line]]

(* TypeParameterizedTestSuite::Register, along the templates and the text. *)
RECURSIVE RegisterSuite(_, _, _, _, _, _)
RegisterSuite(state, prefix, templates, test_names, types, type_names) ==
  IF templates = << >> THEN state
  ELSE LET test_name == StripTrailingSpaces(GetPrefixUntilComma(test_names))
       IN  IF ~TestExists(state, test_name) THEN Aborted(state, <<"no code location">>)
           ELSE RegisterSuite(
                  [state EXCEPT !.infos = RegisterTest(@, prefix, state.locations[test_name],
                      Head(templates), test_names, types, type_names)],
                  prefix, Tail(templates), SkipComma(test_names), types, type_names)

TypedTest(state, m) ==
  LET types == TypeList(m.types)
  IN  [state EXCEPT !.infos = RegisterTest(@, "", m.line, m.name, m.name, types,
                                           GenerateNames(m.generator, types))]

RegisterTypedTestSuite(state, m) ==
  VerifyRegisteredTestNames(
    [state EXCEPT !.templates = Templates(Filled(m.templates, NullText))], m.text)

InstantiateTypedTestSuite(state, m) ==
  LET types == TypeList(m.types)
  IN  RegisterSuite(state, m.prefix, state.templates, state.test_names, types,
                    GenerateNames(m.generator, types))

Expand(state, m) ==
  IF state.aborted THEN state
  ELSE CASE m.macro = "TYPED_TEST" -> TypedTest(state, m)
         [] m.macro = "TYPED_TEST_P" -> AddTestName(state, m.name, m.line)
         [] m.macro = "REGISTER_TYPED_TEST_SUITE_P" -> RegisterTypedTestSuite(state, m)
         [] m.macro = "INSTANTIATE_TYPED_TEST_SUITE_P" -> InstantiateTypedTestSuite(state, m)

ExpandAll(macros) == FoldLeft(Expand, NewTypedSuite, macros)
=============================================================================
