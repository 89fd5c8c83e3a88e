------------------------------ MODULE ParamTests ------------------------------
(***************************************************************************)
(* Value-parameterized tests (gtest-param-util.h): the generators of       *)
(* Range, ValuesIn and Combine as the iterators that the registration      *)
(* walks through, and the tests it registers with the parameters.          *)
(* The declarations of TEST_P and INSTANTIATE_TEST_SUITE_P come in any     *)
(* order, from several files.                                              *)
(*                                                                         *)
(* A generator of Combine is a sequence of component generators, each a    *)
(* sequence of values; an iterator is the indices of its components, from  *)
(* 0, the index of the end being the length.                               *)
(***************************************************************************)
EXTENDS Integers, Sequences, SequencesExt, FiniteSets

(* RangeGenerator: end_index_, and the values up to it.                    *)
CalculateEndIndex(begin, end, step) ==
  Cardinality({k \in 0 .. end - begin : begin + k * step < end})

RangeValues(begin, end, step) ==
  [k \in 1 .. CalculateEndIndex(begin, end, step) |-> begin + (k - 1) * step]

Begin(generators) == FoldLeft(LAMBDA indices, values : Append(indices, 0), << >>, generators)

AtEnd(generators, current) ==
  \E c \in DOMAIN generators : current[c] = Len(generators[c])

Current(generators, current) ==
  [c \in DOMAIN generators |-> generators[c][current[c] + 1]]

RECURSIVE AdvanceIfEnd(_, _, _)

(* Component c went on; at its end it starts again and the one before it   *)
(* goes on, unless it is the first.                                        *)
AdvanceIfEnd(generators, current, c) ==
  IF current[c] # Len(generators[c]) \/ c = 1 THEN current
  ELSE AdvanceIfEnd(generators, [current EXCEPT ![c] = 0, ![c - 1] = @ + 1], c - 1)

(* Mutant: the end of the last component is not passed up. *)
AdvanceLast(generators, current) == [current EXCEPT ![Len(generators)] = @ + 1]

Advance(generators, current) ==
  LET last == Len(generators)
  IN  AdvanceIfEnd(generators, [current EXCEPT ![last] = @ + 1], last)

-----------------------------------------------------------------------------
(* Names: a function of the parameter and its index, a member of Names.    *)
(* "by index" is DefaultParamName; an empty or "a-b" name is invalid.      *)
NameOf(name_func, param, index) ==
  CASE name_func = "by index" -> <<"index", index>>
    [] name_func = "by first value" -> <<"value", param[1]>>
    [] name_func = "invalid for 2" ->
         IF param[1] = 2 THEN <<"a-b">> ELSE <<"index", index>>

IsValidParamName(name) == name # <<"a-b">>

RECURSIVE RegisterParams(_, _, _, _)

(* The innermost loop of RegisterTests: for each parameter, in order. The  *)
(* state: where the iterator is, what is registered, the names so far; a   *)
(* GTEST_CHECK_ that fails ends the program.                               *)
RegisterParams(state, test, instantiation, index) ==
  LET generators == instantiation.generators
      param == Current(generators, state.current)
      name == NameOf(instantiation.name_func, param, index)
  IN  IF AtEnd(generators, state.current) THEN state
      ELSE IF ~IsValidParamName(name) \/ name \in state.test_param_names
        THEN [state EXCEPT !.aborted = TRUE]
      ELSE RegisterParams(
             [state EXCEPT
                !.current = Advance(generators, @),
                !.test_param_names = @ \cup {name},
                !.registered = Append(@, [suite |-> instantiation.name,
                                          test |-> test, name |-> name,
                                          param |-> param])],
             test, instantiation, index + 1)

(* For each pattern, for each instantiation: AddTestPattern and            *)
(* AddTestSuiteInstantiation made the two sequences.                       *)
RegisterTests(tests, instantiations) ==
  LET step(state, pair) ==
        IF state.aborted THEN state
        ELSE LET i == instantiations[pair[2]]
             IN  RegisterParams([state EXCEPT !.current = Begin(i.generators),
                                              !.test_param_names = {}],
                                tests[pair[1]], i, 0)
      n == Len(instantiations)
      pairs == [k \in 1 .. Len(tests) * n |-> <<((k - 1) \div n) + 1, ((k - 1) % n) + 1>>]
  IN  FoldLeft(step, [current |-> << >>, test_param_names |-> {},
                      registered |-> << >>, aborted |-> FALSE], pairs)

-----------------------------------------------------------------------------
(* Iterators as their holders see them (ParamIterator): Range counts its   *)
(* index and adds the step to its value, ValuesIn has a place and the copy *)
(* of the value there, once someone has looked at it, and Combine the      *)
(* places of its components and the tuple that it made of their values.    *)
(* A value is a sequence, empty for none.                                  *)
ComputeCurrentValue(g, it) ==
  IF AtEnd(g.generators, it.current) THEN it
  ELSE [it EXCEPT !.value = <<Current(g.generators, it.current)>>]

BeginOf(g) ==
  CASE g.kind = "range" -> [index |-> 0, value |-> <<g.begin>>]
    [] g.kind = "values" -> [index |-> 0, value |-> << >>]
    [] g.kind = "combine" ->
         ComputeCurrentValue(g, [current |-> Begin(g.generators), value |-> << >>])

EndOf(g) ==
  CASE g.kind = "range" ->
         [index |-> CalculateEndIndex(g.begin, g.end, g.step), value |-> <<g.end>>]
    [] g.kind = "values" -> [index |-> Len(g.container), value |-> << >>]
    [] g.kind = "combine" ->
         [current |-> [c \in DOMAIN g.generators |-> Len(g.generators[c])], value |-> << >>]

AdvanceIterator(g, it) ==
  CASE g.kind = "range" -> [index |-> it.index + 1, value |-> <<it.value[1] + g.step>>]
    [] g.kind = "values" -> [index |-> it.index + 1, value |-> << >>]
    [] g.kind = "combine" ->
         ComputeCurrentValue(g, [it EXCEPT !.current = Advance(g.generators, it.current)])

Clone(g, it) == IF g.kind = "values" THEN [it EXCEPT !.value = << >>] ELSE it

(* What Current does to the iterator; the value is then in it. *)
Look(g, it) ==
  IF g.kind = "values" /\ it.value = << >>
  THEN [it EXCEPT !.value = <<g.container[it.index + 1]>>] ELSE it

IteratorsEqual(g, x, y) ==
  IF g.kind = "combine"
  THEN \/ AtEnd(g.generators, x.current) /\ AtEnd(g.generators, y.current)
       \/ x.current = y.current
  ELSE x.index = y.index

(* Two variables a and b of a program that walks through a generator.      *)
Walk(g, w, op) ==
  CASE op = "++a" -> [w EXCEPT !.a = AdvanceIterator(g, w.a)]
    [] op = "b = a++" -> [w EXCEPT !.a = AdvanceIterator(g, w.a), !.b = Clone(g, Clone(g, w.a))]
    [] op = "b = a" -> [w EXCEPT !.b = Clone(g, w.a)]
    [] op \in {"*a", "*b"} ->
         LET x == IF op = "*a" THEN "a" ELSE "b"
             it == Look(g, w[x])
         IN  [w EXCEPT ![x] = it, !.seen = Append(@, it.value[1])]

WalkAll(g, ops) ==
  FoldLeft(LAMBDA w, op : Walk(g, w, op),
           [a |-> BeginOf(g), b |-> BeginOf(g), seen |-> << >>], ops)

-----------------------------------------------------------------------------
(* The registry of parameterized suites. *)
NewRegistry ==
  [infos |-> << >>, aborted |-> FALSE, parameterized_tests_registered |-> FALSE,
   registered |-> << >>]

(* The suite of that name, a new one if there is none; two fixtures of one *)
(* name end the program.                                                   *)
GetTestSuitePatternHolder(r, d) ==
  LET found == SelectInSeq(r.infos, LAMBDA info : info.name = d.suite)
  IN  IF found = 0
      THEN [r EXCEPT !.infos = Append(@, [name |-> d.suite, type |-> d.type,
                                          tests |-> << >>, instantiations |-> << >>])]
      ELSE [r EXCEPT !.aborted = r.infos[found].type # d.type]

AddTestPattern(info, d) == [info EXCEPT !.tests = Append(@, d.test)]

AddTestSuiteInstantiation(info, d) ==
  [info EXCEPT !.instantiations =
     Append(@, [name |-> d.prefix, generators |-> d.generators, name_func |-> "by index"])]

Declare(r, d) ==
  LET holder == GetTestSuitePatternHolder(r, d)
      Added(info) == IF info.name # d.suite THEN info
                     ELSE IF d.macro = "TEST_P" THEN AddTestPattern(info, d)
                     ELSE AddTestSuiteInstantiation(info, d)
  IN  IF holder.aborted THEN holder
      ELSE [holder EXCEPT !.infos = [i \in DOMAIN @ |-> Added(@[i])]]

RegisterSuites(r) ==
  [r EXCEPT !.registered = @ \o FlattenSeq([i \in DOMAIN r.infos |->
     LET tests == RegisterTests(r.infos[i].tests, r.infos[i].instantiations).registered
     IN  [k \in DOMAIN tests |-> [base |-> r.infos[i].name, type |-> r.infos[i].type,
                                  suite |-> tests[k].suite, test |-> tests[k].test,
                                  param |-> tests[k].param]]])]

RegisterParameterizedTests(r) ==
  IF r.parameterized_tests_registered THEN r
  ELSE [RegisterSuites(r) EXCEPT !.parameterized_tests_registered = TRUE]

(* The static variables of a program, and its calls of InitGoogleTest and  *)
(* RUN_ALL_TESTS.                                                          *)
DeclareAll(declarations) ==
  LET step(r, d) == IF r.aborted THEN r
                    ELSE IF d.macro = "init" THEN RegisterParameterizedTests(r) ELSE Declare(r, d)
  IN  FoldLeft(step, NewRegistry, declarations)

(* CreateTest leaves the parameter where GetParam of any test with a       *)
(* parameter of this type finds it, before the fixture is made.  A TEST_F  *)
(* of such a fixture has none of its own.                                  *)
CreateTest(parameter, test) == IF test.macro = "TEST_P" THEN <<test.param>> ELSE parameter

RunInOrder(tests) ==
  LET step(s, test) ==
        LET parameter == CreateTest(s.parameter, test)
        IN  IF s.aborted THEN s
            ELSE IF parameter = << >> THEN [s EXCEPT !.aborted = TRUE]
            ELSE [s EXCEPT !.parameter = parameter, !.saw = Append(@, parameter[1])]
  IN  FoldLeft(step, [parameter |-> << >>, saw |-> << >>, aborted |-> FALSE], tests)

-----------------------------------------------------------------------------
(* The tuples of values, one of each component, in lexicographic order.    *)
Product(generators) ==
  FoldLeft(LAMBDA tuples, values :
             FlattenSeq([i \in DOMAIN tuples |->
               [j \in DOMAIN values |-> Append(tuples[i], values[j])]]),
           << << >> >>, generators)

(* What a generator generates.                                             *)
Generated(g) ==
  CASE g.kind = "range" -> RangeValues(g.begin, g.end, g.step)
    [] g.kind = "values" -> g.container
    [] g.kind = "combine" -> Product(g.generators)
=============================================================================
