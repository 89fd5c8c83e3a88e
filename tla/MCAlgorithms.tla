---------------------------- MODULE MCAlgorithms -----------------------------
(***************************************************************************)
(* The pure algorithms of Google Test and Google Mock on every input up to *)
(* a size: each behaviour takes one input, and one step runs the algorithm.*)
(* The reporting of failures, the registry of mocks, and the searches with *)
(* filters and expressions, which are machines, run beside them in         *)
(* behaviours of their own; one of a search ends with its first answer.    *)
(***************************************************************************)
EXTENDS Searches, Diffs, Matchings, Encodings,
        CommandLines, ParamTests, MCInputs, FilePaths,
        ResultReporting, Assertions, TypedTests, Listeners

CONSTANTS
  FilterLength, NameLength,     \* bound a filter and a name
  PathLength,                   \* bounds the path of a report
  TextLength,                   \* bounds the lines of a text
  Elements,                     \* bounds the elements and the matchers
  RegexLength, StringLength,    \* bound an expression and what it searches
  ClauseCount, StatementCount,  \* bound an EXPECT_CALL, and a test of them
  CourseLength                  \* bounds what a test does with an action

VARIABLES task, input, result

vars == <<task, input, result, reporting_vars, registry_vars, search_vars>>

MCCharacter == AsciiPunct \cup {"a", "b"}
MCFilterTexts == UpTo(FilterLength, {"a", "*", "?", ":", "-"})
MCFullNames == UpTo(NameLength, {"a", "b"}) \ {<< >>}
MCExpressions == UpTo(RegexLength, {"a", ".", "^", "$", "*", "+", "\\"})
MCSearchedTexts == UpTo(StringLength, {"a", "b", "$"})

(* Short texts with one line of context; long ones, with lines replaced or *)
(* missing at any places, with two.                                        *)
Long == <<"a", "b", "c", "d", "e", "f", "g">>
Replaced(S) == [i \in DOMAIN Long |-> IF i \in S THEN "x" ELSE Long[i]]
Without(S) == SelectSeq(Long, LAMBDA line : line \notin {Long[i] : i \in S})

DiffInputs ==
  (UpTo(TextLength, {"a", "b", "c"}) \X UpTo(TextLength, {"a", "b", "c"}) \X {1})
    \cup ({Long} \X ({Replaced(S) : S \in SUBSET DOMAIN Long}
                        \cup {Without(S) : S \in SUBSET DOMAIN Long}) \X {2})

MatchInputs ==
  UNION {(SUBSET ((1 .. m) \X (1 .. n))) \X {m} \X {n}
           \X {{"Superset"}, {"Subset"}, {"Superset", "Subset"}} :
           m \in 0 .. Elements, n \in 0 .. Elements}

(* Codes at the borders of what each encoding treats alike.                *)
WideUnits == {0, 65, 127, 128, 2047, 2048, 55295, 55296, 56319, 56320, 57343,
              57344, 65535}
Utf8Bytes == {65, 128, 143, 144, 159, 160, 191, 193, 194, 223, 224, 237, 239,
              240, 244, 245}
Chars == {0, 1, 9, 10, 31, 34, 38, 39, 47, 49, 60, 62, 92, 97, 103, 127, 169, 195}

EncodingInputs ==
  ({"wide"} \X UpTo(3, WideUnits)) \cup ({"utf8"} \X UpTo(4, Utf8Bytes))
    \cup ({"chars"} \X UpTo(3, Chars)) \cup ({"cdata"} \X UpTo(7, {62, 93, 97}))

Arg(sign, prefix, name, value) ==
  [sign |-> sign, prefix |-> prefix, name |-> name, value |-> value]
Flag(name, value) == Arg("--", "gtest_", name, value)

Args ==
  {Flag("shuffle", NoValue), Flag("shuffle", "false"), Flag("repeat", "2"),
   Flag("repeat", ""), Flag("repeat", "3000000000"), Flag("repeat", "2x"),
   Flag("filter", "a"), Flag("filter", NoValue), Flag("flagfile", "good"),
   Flag("flagfile", "bad"), Flag("flagfile", "missing"),
   Arg("-", "gtest_", "shuffle", NoValue), Arg("--", "gtest_internal_", "x", NoValue),
   Arg("--", "", "help", NoValue), Arg("", "", "input.txt", NoValue)}

Files == [good |-> <<Flag("repeat", "-1"), Flag("filter", "b")>>,
          bad |-> <<Flag("flagfile", "good"), Flag("repeat", "2x"), Flag("shuffle", NoValue)>>]

Program == Arg("", "", "DriverApp.exe", NoValue)
Envs == [shuffle : {NoValue, "0", "false"}, repeat : {NoValue, "2", "2147483647"},
         filter : {NoValue, "c"}]

FlagInputs ==
  ({<<Program>> \o args : args \in UpTo(3, Args)} \X
      {[shuffle |-> "false", repeat |-> "2", filter |-> NoValue]})
    \cup ({<<Program>> \o args : args \in UpTo(1, Args)} \X Envs)

MockFlag(name, value) == Arg("--", "gmock_", name, value)
MockArgs ==
  {MockFlag("catch_leaked_mocks", NoValue), MockFlag("catch_leaked_mocks", "0"),
   MockFlag("verbose", "info"), MockFlag("verbose", NoValue),
   MockFlag("default_mock_behavior", "2"), MockFlag("default_mock_behavior", NoValue),
   MockFlag("default_mock_behavior", "2x"), MockFlag("nonsense", "2"),
   Flag("filter", "a"), Flag("flagfile", "bad"), Arg("", "", "input.txt", NoValue)}
MockFlagInputs == {<<Program>> \o args : args \in UpTo(CourseLength, MockArgs)}

(* What a program does with its streams, asking only for what it captured. *)
StreamSteps == {"write", "flush", "capture", "get"} \X Streams
CaptureInputs ==
  {ops \in UpTo(CourseLength + 1, StreamSteps) :
     \A k \in DOMAIN ops : ops[k][1] = "get" =>
       \E j \in 1 .. k - 1 : /\ ops[j] = <<"capture", ops[k][2]>>
                            /\ \A i \in j .. k - 1 : ops[i] # ops[k]}

(* Flags that are set to numbers, in tests and between them. *)
FlagCourses ==
  {kinds \in UpTo(CourseLength + 2, {"new Test", "delete Test"} \cup AllFlags) :
     LET tests == SelectSeq(kinds, LAMBDA kind : kind \notin AllFlags)
     IN  \A i \in DOMAIN tests : tests[i] = IF i % 2 = 1 THEN "new Test" ELSE "delete Test"}
StepsOf(kinds) ==
  [i \in DOMAIN kinds |-> IF kinds[i] \in AllFlags THEN <<"set", kinds[i], i>> ELSE <<kinds[i]>>]

(* Values of --gtest_output, and what is there before: nothing, a directory*)
(* or a file of that name, or a directory with the reports of two runs.    *)
Drive == <<<<"c", ":">>>>
Here == Append(Drive, <<"w">>)
Sub == Append(Here, <<"a">>)
FileSystem(dirs, files) == [cwd |-> Here, dirs |-> dirs \cup {Drive, Here}, files |-> files]
FileSystems ==
  {FileSystem({}, {}), FileSystem({Sub}, {}), FileSystem({}, {Sub}),
   FileSystem({Sub}, {Append(Sub, <<"T", ".", "xml">>), Append(Sub, <<"T", "_", "1", ".", "xml">>),
                      Append(Here, <<"T", ".", "xml">>)})}
OutputValues ==
  {NoColon} \cup {drive \o path : path \in UpTo(PathLength, {"\\", "/", "a"}),
                                  drive \in {<< >>, <<"c", ":", "\\">>, <<"d", ":", "/">>}}
OutputInputs ==
  FileSystems \X OutputValues
    \X {<<"T", ".exe">>, <<"c", ":", "/", "b", "\\", "T", ".EXE">>}

(* Texts with line breaks and what looks like one; and texts of both cases,*)
(* no text, and the text that stands for it in a message.                  *)
LineTexts == UpTo(3, {97, 10, 92, 110}) \cup {NullPointer}
CaseTexts == UpTo(2, {65, 97, 98}) \cup {NullPointer, StreamedNull}
StringAssertions == {"STREQ", "STRNE", "STRCASEEQ", "STRCASENE", "IsSubstring",
                     "IsNotSubstring"}
AssertionInputs ==
  ({"STREQ"} \X LineTexts \X LineTexts) \cup (StringAssertions \X CaseTexts \X CaseTexts)

Doubles == {NaN, Infinity, <<-1, 0>>} \cup {<<0, n>> : n \in -3 .. 3}

(* Values 0..2 as a component, none, or Range(0, 3, 2).                    *)
Components == {<< >>, <<1>>, <<2, 1>>, <<0, 1, 2>>, RangeValues(0, 3, 2)}
Instantiations ==
  [name : {"I"}, generators : UpTo(3, Components) \ {<< >>},
   name_func : {"by index", "by first value", "invalid for 2"}]

(* Two tests of a suite, in the order of their definition, and the names   *)
(* that it is registered with: another may be a template from outside.  A  *)
(* third test may be defined too late, before or after the instantiations. *)
TestNames == {<<"a">>, <<"a", "b">>}
Listings == UpTo(2, TestNames \cup {<<"c">>}) \cup {<<<<"a">>, <<"a", "b">>, <<"a">>>>}
TypeArguments ==
  {[single |-> TRUE, types |-> <<"int">>], [single |-> FALSE, types |-> << >>],
   [single |-> FALSE, types |-> <<"int", "char">>]}
TypeChoices == TypeArguments \X {"default", "by type"}
TypedInputs ==
  {defs \in UpTo(2, TestNames) : Cardinality(Range(defs)) = Len(defs)} \X Listings
    \X {<<",">>, <<",", " ">>, <<" ", ",", " ">>} \X {"never", "before", "after"}
    \X UpTo(2, TypeChoices)

TypedPrefixes == <<"X", "Y">>
MacrosOf(defs, listed, separator, late, choices) ==
  LET Defined == [t \in DOMAIN defs |-> [macro |-> "TYPED_TEST_P", name |-> defs[t], line |-> t]]
      Late(when) == IF late = when
                    THEN <<[macro |-> "TYPED_TEST_P", name |-> <<"b">>, line |-> 9]>> ELSE << >>
  IN  Defined
      \o <<[macro |-> "REGISTER_TYPED_TEST_SUITE_P", templates |-> listed,
            text |-> IF listed = << >> THEN << >>
                     ELSE FoldLeft(LAMBDA text, name : text \o separator \o name,
                                   Head(listed), Tail(listed))]>>
      \o Late("before")
      \o [k \in DOMAIN choices |->
            [macro |-> "INSTANTIATE_TYPED_TEST_SUITE_P", prefix |-> TypedPrefixes[k],
             types |-> choices[k][1], generator |-> choices[k][2]]]
      \o Late("after")

(* What a test program does to its list of listeners, in which its console *)
(* listener 3 is from the start: no listener is handed over that the list  *)
(* has, or that was deleted.  In the end something starts and ends.        *)
ListenerSteps ==
  ({"append"} \X {1, 2}) \cup ({"release"} \X {1, 3, 4}) \cup ({"printer"} \X {0, 3, 5})
    \cup ({"generator"} \X {0, 4}) \cup {<<"suppress", 0>>}
AtStart == SetDefaultResultPrinter(NoListeners, 3)
ListenersAfterEach(steps) ==
  FoldLeft(LAMBDA course, step : Append(course, ListStep(Last(course), step)), <<AtStart>>, steps)
HandsOver(w, step) ==
  \/ step[1] = "append"
  \/ step[1] = "printer" /\ step[2] \notin {0, w.printer}
  \/ step[1] = "generator" /\ step[2] \notin {0, w.xml}
ListenerInputs ==
  {steps \in UpTo(CourseLength, ListenerSteps) :
     LET course == ListenersAfterEach(steps)
     IN  \A i \in DOMAIN steps :
           HandsOver(course[i], steps[i]) =>
             ~Holds(course[i], steps[i][2]) /\ steps[i][2] \notin Range(course[i].deleted)}

(* The events of a program with one test and one failure, or none; and the *)
(* addresses of the host it streams to.                                    *)
StreamInputs ==
  (UpTo(3, {"no socket", "refused", "ok"}) \X {<< >>} \X {<<"a">>} \X BOOLEAN)
    \cup ({<<"ok">>} \X {<< >>, <<"/", "=", "a">>}
            \X UpTo(3, {"a", "%", "=", "&", "\n", "3", "D"}) \X {TRUE})
EventsOf(file, message, passed) ==
  LET Event(name) == [name |-> name, subject |-> <<"T">>, passed |-> passed,
                      elapsed_time |-> <<"7">>, iteration |-> <<"0">>, file |-> file,
                      line |-> <<"1">>, message |-> message]
  IN  [i \in 1 .. 10 |-> Event(<<"TestProgramStart", "TestIterationStart",
         "EnvironmentsSetUpStart", "TestCaseStart", "TestStart", "TestPartResult", "TestEnd",
         "TestCaseEnd", "TestIterationEnd", "TestProgramEnd">>[i])]

(* Iterations of up to three tests in two suites: each test leaves its     *)
(* parts, is filtered out, or is disabled.                                 *)
ConsoleTests ==
  {[parts |-> << >>, matches_filter |-> FALSE, is_disabled |-> FALSE]}
    \cup {[parts |-> parts, matches_filter |-> TRUE, is_disabled |-> FALSE] :
            parts \in {<< >>, <<"success">>, <<"skip">>, <<"nonfatal", "success">>,
                      <<"fatal", "skip">>}}
    \cup {[parts |-> <<"nonfatal">>, matches_filter |-> TRUE, is_disabled |-> TRUE]}
ConsoleInputs ==
  {suites \in UpTo(2, UpTo(2, ConsoleTests) \ {<< >>}) : Len(FlattenSeq(suites)) <= 3}
    \X {<< >>, <<"nonfatal">>, <<"fatal">>} \X BOOLEAN
IterationOf(suites, environments, flag) ==
  LET TestNumber(k, i) == [name |-> <<k, i>>, type_param |-> IF k = 1 THEN <<"int">> ELSE << >>,
                           value_param |-> IF i = 1 THEN <<"7">> ELSE << >>] @@ suites[k][i]
  IN  [environments |-> environments, also_run_disabled_tests |-> flag, print_time |-> ~flag,
       repeat |-> IF flag THEN 2 ELSE 1, filter |-> IF flag THEN "A*" ELSE "*",
       shard |-> IF flag THEN <<0, 2>> ELSE << >>, shuffle |-> flag,
       suites |-> [k \in DOMAIN suites |->
                     [name |-> k, type_param |-> IF k = 1 THEN <<"int">> ELSE << >>,
                      parts |-> IF k = 1 /\ flag THEN <<"nonfatal">> ELSE << >>,
                      tests |-> [i \in DOMAIN suites[k] |-> TestNumber(k, i)]]]]

ColorInputs ==
  {"red", "green", "yellow", "default"} \X (0 .. 255) \X {"auto", "yes", "no"} \X BOOLEAN

ParamInputs ==
  {<<"T", "U">>} \X ({<<i>> : i \in Instantiations}
    \cup {<<i, [j EXCEPT !.name = "J"]>> :
            i, j \in {k \in Instantiations : Len(k.generators) = 1}})

(* Walks through a generator with two iterators, and where they are by what*)
(* is done with them; none is moved past the end or looked at there.       *)
Generators ==
  {[kind |-> "range", begin |-> 0, end |-> 3, step |-> 2],
   [kind |-> "range", begin |-> 1, end |-> 1, step |-> 1]}
  \cup {[kind |-> "values", container |-> c] : c \in {<< >>, <<2>>, <<2, 1, 2>>}}
  \cup {[kind |-> "combine", generators |-> c] :
          c \in {<<<<1, 2>>>>, <<<<1, 2>>, <<3, 4>>>>, <<<<1>>, << >>>>,
                 <<<<1>>, <<2>>, <<3, 4>>>>}}
Walks == {"++a", "b = a++", "b = a", "*a", "*b"}
Places(ops, length) ==
  FoldLeft(LAMBDA w, op :
             CASE op = "++a" -> [w EXCEPT !.a = @ + 1, !.legal = @ /\ w.a < length]
               [] op = "b = a++" ->
                    [w EXCEPT !.a = @ + 1, !.b = w.a, !.legal = @ /\ w.a < length]
               [] op = "b = a" -> [w EXCEPT !.b = w.a]
               [] op = "*a" -> [w EXCEPT !.seen = Append(@, w.a + 1), !.legal = @ /\ w.a < length]
               [] op = "*b" -> [w EXCEPT !.seen = Append(@, w.b + 1), !.legal = @ /\ w.b < length],
           [a |-> 0, b |-> 0, seen |-> << >>, legal |-> TRUE], ops)
WalkInputs ==
  {walk \in Generators \X UpTo(CourseLength, Walks) :
     Places(walk[2], Len(Generated(walk[1]))).legal}

(* Declarations of two suites, one of which may have two fixtures, each    *)
(* test and each instantiation once.                                       *)
Declarations ==
  {[macro |-> "TEST_P", suite |-> f[1], type |-> f[2], test |-> test, prefix |-> "none",
    generators |-> << >>] : f \in {<<"S", "c">>, <<"S", "d">>, <<"T", "c">>}, test \in {"x", "y"}}
  \cup {[macro |-> "INSTANTIATE_TEST_SUITE_P", suite |-> f[1], type |-> f[2], test |-> "none",
         prefix |-> prefix,
         generators |-> IF prefix = "P" THEN <<<<1, 2>>>> ELSE <<<<3>>, <<1>>>>] :
          f \in {<<"S", "c">>, <<"S", "d">>, <<"T", "c">>}, prefix \in {"P", "Q"}}
DeclarationInputs ==
  {ds \in UpTo(CourseLength, Declarations) :
     \A i, j \in DOMAIN ds : i # j =>
       <<ds[i].suite, ds[i].macro, ds[i].test, ds[i].prefix>>
         # <<ds[j].suite, ds[j].macro, ds[j].test, ds[j].prefix>>}

(* Integers with their types. *)
IntegerValues == UNION {[type : {t}, value : ValuesOfType(t)] : t \in IntegralTypes}

Tasks ==
  \/ task = "capture" /\ input \in CaptureInputs
  \/ task = "mock flags" /\ input \in MockFlagInputs
  \/ task = "flag saver" /\ input \in FlagCourses
  \/ task = "walk" /\ input \in WalkInputs
  \/ task = "declarations" /\ input \in DeclarationInputs
  \/ task = "run" /\ input \in UpTo(CourseLength, [macro : {"TEST_P", "TEST_F"}, param : {1, 2}])
  \/ task = "diff" /\ input \in DiffInputs
  \/ task = "match" /\ input \in MatchInputs
  \/ task = "flags" /\ input \in FlagInputs
  \/ task = "output" /\ input \in OutputInputs
  \/ task = "params" /\ input \in ParamInputs
  \/ task = "typed" /\ input \in TypedInputs
  \/ task = "typed test" /\ input \in TestNames \X TypeChoices
  \/ task = "listeners" /\ input \in ListenerInputs
  \/ task = "stream" /\ input \in StreamInputs
  \/ task = "console" /\ input \in ConsoleInputs
  \/ task = "color" /\ input \in ColorInputs
  \/ task = "range" /\ input \in (0 .. 6) \X (0 .. 6) \X (1 .. 3)
  \/ task = "float" /\ input \in Bits \X Bits
  \/ task = "print" /\ input \in PrintInputs
  \/ task = "matcher" /\ input \in MatcherInputs
  \/ task = "encoding" /\ input \in EncodingInputs
  \/ task = "clauses" /\ input \in ExpectCallInputs(ClauseCount)
  \/ task = "on call" /\ input \in OnCallInputs
  \/ task = "order" /\ input \in OrderInputs(StatementCount)
  \/ task = "cardinality" /\ input \in (-1 .. 3) \X ((-1 .. 3) \cup {IntMax})
  \/ task = "action" /\ input \in Recipes \X Courses(CourseLength)
  \/ task = "views" /\ input \in ViewInputs(CourseLength)
  \/ task = "default" /\ input \in {"default constructible", "other"}
                                   \X DefaultCourses(CourseLength) \X {5, 6}
  \/ task = "assertion" /\ input \in AssertionInputs
  \/ task = "integers" /\ input \in {"==", "!=", "<=", "<", ">=", ">"}
                                    \X IntegerValues \X IntegerValues
  \/ task = "hresult" /\ input \in HResults \X UpTo(3, {65, 32, 13, 10})
  \/ task = "boolean" /\ input \in [success : BOOLEAN, message : {<< >>, <<97>>}] \X BOOLEAN
  \/ task = "predicate" /\ input \in (SUBSET (BOOLEAN \X BOOLEAN)) \X (BOOLEAN \X BOOLEAN)
  \/ task = "statement" /\ input \in {"THROW", "NO_THROW", "ANY_THROW"} \X Endings
  \/ task = "near" /\ input \in Doubles \X Doubles \X Doubles

Init ==
  /\ result = << >>
  /\ \/ Tasks
     \/ task \in {"reporting", "registry", "filter", "regex"} /\ input = << >>
  /\ task # "reporting" => xml_element = "testcase"
  /\ task # "registry" => default_mock_behavior = 0
  /\ task # "filter" => gtest_filter = << >>
  /\ ReportingInit /\ RegistryInit /\ SearchInit

Encoded(kind, s) ==
  CASE kind = "wide" -> <<WideStringToUtf8(s)>>
    [] kind = "utf8" -> <<IsValidUTF8(s)>>
    [] kind = "chars" -> <<PrintStringTo(s), EscapeXml(s, TRUE), EscapeXml(s, FALSE),
                          EscapeJson(s)>>
    [] kind = "cdata" -> <<OutputXmlCDataSection(RemoveInvalidXmlCharacters(s))>>

Printed(types, x, y) ==
  <<FormatForComparison(types[1], types[2], x), FormatForComparison(types[2], types[1], y),
    PrintToString(types[1], x), PrintToString(types[2], y)>>

Run(t, r) ==
  /\ task = t /\ result = << >>
  /\ result' = r
  /\ UNCHANGED <<task, input, reporting_vars, registry_vars, search_vars>>

Searching ==
  /\ answer = NoAnswer
  /\ \/ task = "filter" /\ \E name \in FullNames : AskFilter(name)
     \/ task = "regex" /\ \E regex \in Expressions : Construct(regex)
     \/ task = "regex" /\ \E text \in SearchedTexts : AskFullMatch(text)
     \/ task = "regex" /\ \E text \in SearchedTexts : AskPartialMatch(text)
  /\ UNCHANGED <<task, input, result, reporting_vars, registry_vars>>

Next ==
  \/ /\ task = "reporting" /\ ReportingNext
     /\ UNCHANGED <<task, input, result, registry_vars, search_vars>>
  \/ /\ task = "registry" /\ RegistryNext
     /\ UNCHANGED <<task, input, result, reporting_vars, search_vars>>
  \/ Searching
  \/ Run("diff", <<CalculateOptimalEdits(input[1], input[2]),
                   CreateUnifiedDiff(input[1], input[2], input[3])>>)
  \/ Run("match", <<FindMaxBipartiteMatching(input[1], input[2], input[3]),
                    MatchAndExplain(input[1], input[2], input[3], input[4]),
                    NextGraph(input[1], input[2], input[3])>>)
  \/ Run("encoding", Encoded(input[1], input[2]))
  \/ Run("flags", <<InitGoogleTest(input[1], input[2], Files)>>)
  \/ Run("output", <<ReportFile(input[1], <<"c", ":", "\\", "w">>, input[3], "xml", input[2])>>)
  \/ Run("params", <<RegisterTests(input[1], input[2])>>)
  \/ Run("capture", <<StreamsAfter([i \in DOMAIN input |-> Append(input[i], i)])>>)
  \/ Run("mock flags",
         <<InitGoogleMock(input, [shuffle |-> NoValue, repeat |-> NoValue, filter |-> NoValue],
                          Files)>>)
  \/ Run("flag saver", <<FlagsAfter(StepsOf(input)).flags>>)
  \/ Run("walk", <<WalkAll(input[1], input[2])>>)
  \/ Run("declarations",
         <<DeclareAll(input \o <<[macro |-> "init"], [macro |-> "init"]>>)>>)
  \/ Run("run", <<RunInOrder(input)>>)
  \/ Run("typed",
         <<ExpandAll(MacrosOf(input[1], input[2], input[3], input[4], input[5]))>>)
  \/ Run("typed test",
         <<ExpandAll(<<[macro |-> "TYPED_TEST", name |-> input[1], line |-> 1,
                        types |-> input[2][1], generator |-> input[2][2]]>>)>>)
  \/ Run("listeners",
         LET course == ListenersAfterEach(input \o <<<<"start", 0>>, <<"end", 0>>>>)
         IN  Append(course, DeleteListeners(Last(course))))
  \/ Run("stream", <<StreamAll(input[1], EventsOf(input[2], input[3], input[4]))>>)
  \/ Run("views", <<ViewsAfter(ArrayOf(input[1]), input[1], input[2])>>)
  \/ Run("integers", <<IntegerAssertion(input[1], input[2], input[3])>>)
  \/ Run("hresult", <<IsHRESULTSuccess(input[1], input[2]),
                      IsHRESULTFailure(input[1], input[2])>>)
  \/ Run("console", <<Console(IterationOf(input[1], input[2], input[3]))>>)
  \/ Run("color",
         <<ColoredPrintf(ShouldUseColor(input[3], input[4]), input[1], input[2])>>)
  \/ Run("range", <<RangeValues(input[1], input[2], input[3])>>)
  \/ Run("float", <<AlmostEquals(input[1], input[2]),
                    FloatingPointLE(input[1], input[2])>>)
  \/ Run("print", Printed(input[1], input[2], input[3]))
  \/ Run("matcher", <<PredicateFormatterFromMatcher(input[1], input[2])>>)
  \/ Run("clauses", <<ExpectCallOf(input)>>)
  \/ Run("on call", <<OnCallOf(input)>>)
  \/ Run("order", <<OrderOf(input).prerequisites>>)
  \/ Run("cardinality", <<Between(input[1], input[2])>>)
  \/ Run("action", CourseOf(input[1], Cells, input[2]))
  \/ Run("default",
         <<DefaultsAfter(input[1], Append(input[2], [name |-> "call", arg |-> input[3]]))>>)
  \/ Run("assertion", <<StringAssertion(input[1], input[2], input[3])>>)
  \/ Run("boolean", <<IF input[2] THEN ExpectTrue(input[1]) ELSE ExpectFalse(input[1])>>)
  \/ Run("predicate", <<AssertPredHelper(input[1], input[2])>>)
  \/ Run("statement", <<StatementAssertion(input[1], input[2])>>)
  \/ Run("near", <<DoubleNearPredFormat(input[1], input[2], input[3])>>)

Spec == Init /\ [][Next]_vars

Done(t) == task = t /\ result # << >>

-----------------------------------------------------------------------------
(* What the program writes, its readers read back: wide strings as UTF-8,  *)
(* up to a null character, strings as C++ literals, and texts of the XML   *)
(* and JSON reports.  Three things are not claimed, because they do not    *)
(* hold: a literal with a null character before a digit, a JSON text with  *)
(* bytes above 127, and XML with any such bytes, which are dropped.  What  *)
(* is written to a stream while it is captured is what comes back, in its  *)
(* order, whenever it is flushed; the rest is on the console, and no file  *)
(* is left.                                                                *)
UpToNull(s) == SubSeq(s, 1, FindNext(s, 1, <<0>>) - 1)

EncodedTextsReadBack ==
  /\ Done("capture") =>
       LET w == result[1]
           (* Whether step i comes while s is captured. *)
           Captured(s, i) ==
             \E j \in 1 .. i : /\ input[j] = <<"capture", s>>
                              /\ \A k \in j .. i : input[k] # <<"get", s>>
           WrittenTo(s, P(_)) ==
             LET places == SelectSeq([i \in DOMAIN input |-> i],
                             LAMBDA i : input[i] = <<"write", s>> /\ P(i))
             IN  [k \in DOMAIN places |-> <<s, places[k]>>]
           gets == SelectSeq([i \in DOMAIN input |-> i], LAMBDA i : input[i][1] = "get")
           (* Whether step i comes after the capture that get k ends.      *)
           InItsCapture(i, k) ==
             /\ i < k /\ Captured(input[k][2], i)
             /\ \A j \in i .. k - 1 : input[j] # input[k]
       IN  /\ w.aborted <=> \E s \in Streams, i \in 2 .. Len(input) :
                               input[i] = <<"capture", s>> /\ Captured(s, i - 1)
           /\ ~w.aborted =>
                /\ w.got = [n \in DOMAIN gets |->
                              WrittenTo(input[gets[n]][2], LAMBDA i : InItsCapture(i, gets[n]))]
                /\ \A s \in Streams :
                     /\ SelectSeq(w.texts[ConsoleText], LAMBDA text : text[1] = s)
                          = WrittenTo(s, LAMBDA i : ~Captured(s, i))
                     /\ (w.captured[s] = NoFile <=> w.fd[s] = ConsoleText)
                /\ 2 .. Len(w.texts) \subseteq
                     w.removed \cup {w.captured[s] : s \in Streams}
  /\ Done("encoding") =>
    LET s == input[2]
    IN  CASE input[1] = "wide" -> ReadUtf8(result[1]) = {CodePoints(UpToNull(s))}
          [] input[1] = "utf8" -> result[1] <=> IsUtf8Text(s)
          [] input[1] = "cdata" -> ReadXml(result[1], FALSE) = s
          [] input[1] = "chars" ->
               /\ (\A i \in 2 .. Len(s) : s[i - 1] = 0 => s[i] \notin Digits) =>
                    ReadLiteral(result[1][1]) = s
               /\ result[1][2] => IsUtf8Text(s)
               /\ ReadXml(result[2], TRUE) = RemoveInvalidXmlCharacters(s)
               /\ ReadXml(result[3], FALSE) = RemoveInvalidXmlCharacters(s)
               /\ (\A i \in DOMAIN s : ~IsSigned(s[i])) => ReadJson(result[4]) = s

(* The arguments that are flags with a valid value are gone, the others    *)
(* are left in their order with the null pointer behind them; each flag    *)
(* has the last valid value that it was given on the command line or in a  *)
(* file named there, or else in the environment; and help is shown iff     *)
(* something looked like a flag and was none, or asked for help.  The file *)
(* of --gtest_output is where the flag says, in the directory the program  *)
(* was started in if the path is relative, or a new file if it names a     *)
(* directory; the directories above it are made, and nothing else is; and  *)
(* it can be opened unless a file or a drive that is not there is above it,*)
(* or it is a directory.  A flag that a test sets is as before when the    *)
(* test is gone; this is claimed of the flags that GTestFlagSaver has a    *)
(* field for, while the comment at gtest-internal-inl.h:153 says that it   *)
(* saves all.  Google Mock takes its own flags likewise; one of an integer *)
(* that has no value is zero.                                              *)
FlagsAreTaken ==
  /\ Done("flag saver") =>
       LET InATestGone(i) ==
             \E j \in 1 .. i, k \in i .. Len(input) :
               /\ input[j] = "new Test" /\ input[k] = "delete Test"
               /\ \A m \in j .. k - 1 : input[m] # "delete Test"
           Settings(f) == {i \in DOMAIN input : input[i] = f /\ ~InATestGone(i)}
       IN  \A f \in SavedFlags : result[1][f] = Max(Settings(f) \cup {0})
  /\ Done("mock flags") /\ ~result[1].init.exited =>
       LET left == SelectSeq(input, LAMBDA arg : ~(ParsesFlag(arg) \/ IsFlagfile(arg)
                                                   \/ ParsesMockFlag(arg)))
           LastOne(name) == Max({0} \cup {i \in DOMAIN input :
                                         ParsesMockFlag(input[i]) /\ input[i].name = name})
           ValueOf(name) == input[LastOne(name)].value
           mock == result[1].mock
       IN  /\ SubSeq(result[1].init.argv, 1, result[1].init.argc) = left
           /\ result[1].init.argv[result[1].init.argc + 1] = Null
           /\ mock.catch_leaked_mocks <=>
                LastOne("catch_leaked_mocks") > 0 => ValueOf("catch_leaked_mocks") # "0"
           /\ mock.verbose = IF LastOne("verbose") = 0 THEN "warning" ELSE ValueOf("verbose")
           /\ mock.default_mock_behavior =
                IF LastOne("default_mock_behavior") = 0 THEN 1
                ELSE IF ValueOf("default_mock_behavior") = NoValue THEN 0 ELSE 2
  /\ Done("output") =>
       LET fs == input[1]
           at == result[1].location
           place == AskedPlace(fs, input[2])
       IN  /\ CASE AsksForDirectory(input[2]) ->
                    Front(at) = place /\ at \notin fs.files \cup fs.dirs
               [] input[2] = NoColon -> at = Append(place, <<"test_detail", ".", "xml">>)
               [] OTHER -> at = place
           /\ result[1].opened <=> /\ SubSeq(at, 1, 1) \in fs.dirs
                                   /\ Above(at) \cap fs.files = {}
                                   /\ at \notin fs.dirs
           /\ result[1].fs.files = fs.files \cup (IF result[1].opened THEN {at} ELSE {})
           /\ result[1].opened => result[1].fs.dirs = fs.dirs \cup Above(at)
  /\ Done("flags") /\ ~result[1].exited =>
    LET argv == input[1]
        IsTaken(arg) == ParsesFlag(arg) \/ IsFlagfile(arg)
        left == SelectSeq(argv, LAMBDA arg : ~IsTaken(arg))
        settings == FlattenSeq([i \in DOMAIN argv |->
                      IF IsFlagfile(argv[i]) THEN Files[argv[i].value] ELSE <<argv[i]>>])
        LastOf(name) == {i \in DOMAIN settings :
                         /\ ParsesFlag(settings[i]) /\ settings[i].name = name
                         /\ \A j \in i + 1 .. Len(settings) :
                              ParsesFlag(settings[j]) => settings[j].name # name}
    IN  /\ SubSeq(result[1].argv, 1, result[1].argc) = left
        /\ result[1].argv[result[1].argc + 1] = Null
        /\ \A name \in {"shuffle", "repeat", "filter"} :
             IF LastOf(name) = {}
               THEN result[1].flags[name] = FromGTestEnv(input[2])[name]
               ELSE \A i \in LastOf(name) :
                      result[1].flags[name] =
                        CASE name = "shuffle" -> settings[i].value # "false"
                          [] name = "repeat" -> strtol(settings[i].value)
                          [] name = "filter" -> settings[i].value
        /\ result[1].help <=>
             \/ \E i \in DOMAIN left : IsHelp(left[i]) \/ HasGoogleTestFlagPrefix(left[i])
             \/ \E i \in DOMAIN argv : IsFlagfile(argv[i]) /\ argv[i].value = "bad"

(* The tests of each instantiation, once each: every test for every type.  *)
ThatProduct(infos, prefixes, defs, choices) ==
  LET Made == {<<k, t, i>> \in (DOMAIN choices) \X (DOMAIN defs) \X (1 .. 2) :
                 i <= Len(choices[k][1].types)}
      Test(k, t, i) ==
        LET T == choices[k][1].types[i]
        IN  [suite |-> <<prefixes[k], IF choices[k][2] = "default" THEN ToString(i - 1) ELSE T>>,
             name |-> defs[t], class |-> <<defs[t], T>>, fixture |-> T, line |-> t]
  IN  /\ Range(infos) = {Test(e[1], e[2], e[3]) : e \in Made}
      /\ Len(infos) = Cardinality(Made)

(* Each pattern is registered with each parameter of each instantiation,   *)
(* once and in order, none if some component has no values, under a name   *)
(* of its own, or the program ends; a range has the values from its begin, *)
(* by its step, below its end.  A typed suite is refused unless it lists   *)
(* each of its tests once and has no other; one that is not registers each *)
(* for each type, the class and the place of a test under its own name.    *)
(* Iterators keep their place and their value whatever their copies do,    *)
(* are equal iff at the same place, and at the end after the last value.   *)
(* In whatever order they are declared, all tests of a suite are registered*)
(* for all its instantiations, once, and fixtures of one name are refused. *)
(* In whatever order they run, each TEST_P sees its own parameter, and only*)
(* a TEST_F that asks for one ends the program: certainly one that no      *)
(* TEST_P ran before.  Of a later one nothing is claimed, since it should  *)
(* end the program too (gtest.h:1852) and is given the parameter of the    *)
(* last TEST_P.                                                            *)
ParametersAllRegistered ==
  /\ Done("walk") =>
       LET g == input[1]
           all == Generated(g)
           w == result[1]
           places == Places(input[2], Len(all))
           IsAtEnd(it) == IteratorsEqual(g, it, EndOf(g))
       IN  /\ w.seen = [k \in DOMAIN places.seen |-> all[places.seen[k]]]
           /\ IteratorsEqual(g, w.a, w.b) <=> places.a = places.b
           /\ IsAtEnd(w.a) <=> places.a = Len(all)
           /\ IsAtEnd(w.b) <=> places.b = Len(all)
  /\ Done("declarations") =>
       LET DeclaredWith(macro) == {i \in DOMAIN input : input[i].macro = macro}
           Pairs == {<<i, j>> \in DeclaredWith("TEST_P")
                                   \X DeclaredWith("INSTANTIATE_TEST_SUITE_P") :
                       input[i].suite = input[j].suite}
           Registered == UNION {LET tuples == Product(input[p[2]].generators)
                                IN  {[base |-> input[p[1]].suite, type |-> input[p[1]].type,
                                      suite |-> input[p[2]].prefix, test |-> input[p[1]].test,
                                      param |-> tuples[k]] : k \in DOMAIN tuples} : p \in Pairs}
       IN  /\ result[1].aborted <=> \E i, j \in DOMAIN input :
                 input[i].suite = input[j].suite /\ input[i].type # input[j].type
           /\ ~result[1].aborted =>
                 /\ Range(result[1].registered) = Registered
                 /\ Len(result[1].registered) = Cardinality(Registered)
  /\ Done("run") =>
       /\ \A i \in DOMAIN result[1].saw : input[i].macro = "TEST_P" =>
             result[1].saw[i] = input[i].param
       /\ input # << >> /\ input[1].macro = "TEST_F" => result[1].aborted
       /\ IF result[1].aborted THEN input[Len(result[1].saw) + 1].macro = "TEST_F"
          ELSE Len(result[1].saw) = Len(input)
  /\ Done("params") =>
       LET full == FlattenSeq([t \in DOMAIN input[1] |->
                     FlattenSeq([k \in DOMAIN input[2] |->
                       LET i == input[2][k]
                           tuples == Product(i.generators)
                       IN  [n \in DOMAIN tuples |->
                              [suite |-> i.name, test |-> input[1][t],
                               name |-> NameOf(i.name_func, tuples[n], n - 1),
                               param |-> tuples[n]]]])])
           NamesAreGood == \A m \in DOMAIN full :
             /\ IsValidParamName(full[m].name)
             /\ \A n \in 1 .. m - 1 :
                  <<full[n].suite, full[n].test, full[n].name>>
                    # <<full[m].suite, full[m].test, full[m].name>>
       IN  /\ ~result[1].aborted <=> NamesAreGood
           /\ IF result[1].aborted THEN IsPrefix(result[1].registered, full)
              ELSE result[1].registered = full
  /\ Done("range") =>
       Range(result[1]) = {v \in input[1] .. input[2] - 1 : (v - input[1]) % input[3] = 0}
  /\ Done("typed") =>
       LET defs == input[1]
           listed == input[2]
           Good == /\ listed # << >> /\ Range(listed) = Range(defs)
                   /\ Len(listed) = Len(defs) /\ input[4] = "never"
       IN  /\ ~result[1].aborted <=> Good
           /\ Good => ThatProduct(result[1].infos, TypedPrefixes, defs, input[5])
  /\ Done("typed test") =>
       /\ ~result[1].aborted
       /\ ThatProduct(result[1].infos, <<"">>, <<input[1]>>, <<input[2]>>)

(* What an assertion compares and what it shows when it fails.  The diff of*)
(* two texts is a patch: its hunks fit the left text and make of it the    *)
(* right one, and each header counts what its hunk holds.  Two numbers are *)
(* almost equal iff neither is a NaN and at most four steps between        *)
(* neighbouring numbers lead from one to the other, zeros, denormals and   *)
(* infinities included; and less or equal iff one is less or they are      *)
(* almost equal.  Two values that are found different are printed          *)
(* differently, unless an element was left out of a long container; and    *)
(* two values of a type print alike iff all is alike that is promised to   *)
(* be seen of them.  An assertion on texts fails iff they are not as it    *)
(* wants them, and what its message claims is then false of the texts it   *)
(* shows; the diff in it leads from the lines of one to those of the other *)
(* and no line is lost.  A null pointer is shown as a text, of which the   *)
(* claim of IsSubstring may be true: nothing is claimed there.  Integers   *)
(* are related as the assertion says iff it holds, and those it shows are  *)
(* not; where the common type is unsigned and a value is negative nothing  *)
(* is claimed.  The result of a Windows call succeeded or failed, and what *)
(* is shown is its number and its text without the spaces at the end.      *)
ComparisonsDecideAndShow ==
  /\ Done("diff") =>
       /\ \A i \in DOMAIN result[2] : Fits(input[1], result[2][i])
       /\ Patched(input[1], result[2]) = input[2]
  /\ Done("float") =>
       LET Comparable == ~is_nan(input[1]) /\ ~is_nan(input[2])
       IN  /\ result[1] <=> Comparable /\ Ulps(input[1], input[2]) <= kMaxUlps
           /\ result[2] <=> Comparable /\ (\/ Value(input[1]) < Value(input[2])
                                            \/ Ulps(input[1], input[2]) <= kMaxUlps)
  /\ Done("print") =>
       LET type == input[1][1]
           x == input[2]
           y == input[3]
       IN  /\ ~Compares(type, input[1][2], x, y) /\ IsSeen(type, x) =>
                result[1] # result[2]
           /\ type = input[1][2] /\ type.kind # "cstring" =>
                (result[3] = result[4] <=> Seen(type, x) = Seen(type, y))
  /\ Done("assertion") =>
       LET x == input[2]
           y == input[3]
           m == result[1].message
           Lines(i) == SplitEscapedString(m.shown[i])
           Inner(literal) == IF Len(literal) > 2 /\ literal[1] = Quote
                             THEN SubSeq(literal, 2, Len(literal) - 1) ELSE literal
       IN  /\ result[1].success <=> Wanted(input[1], x, y)
           /\ ~result[1].success =>
                /\ Claim(m) => input[1] = "IsSubstring" /\ NullPointer \in {x, y}
                /\ m.claims = "equal" =>
                     /\ \A i \in 1 .. 2 : LinesOf(Lines(i)) = Inner(m.shown[i])
                     /\ m.diff # << >> => Patched(Lines(1), m.diff) = Lines(2)
                     /\ Len(Lines(1)) # Len(Lines(2)) => m.diff # << >>
  /\ Done("integers") =>
       LET x == input[2]
           y == input[3]
           shown == result[1].message.shown
       IN  (CommonType(x, y).signed \/ (x.value >= 0 /\ y.value >= 0)) =>
             /\ result[1].success <=> Related(input[1], x.value, y.value)
             /\ ~result[1].success =>
                  ~Related(input[1], ReadDecimal(shown[1]), ReadDecimal(shown[2]))
  /\ Done("hresult") =>
       \E i \in 1 .. 2 :
         LET m == result[i].message
             n == Len(m.error_text)
         IN  /\ ~result[i].success /\ result[3 - i].success
             /\ m.expected = (IF input[1] < 0 THEN "succeeds" ELSE "fails")
             /\ NumberIn(16, m.error_hex) % 256 = input[1] % 256
             /\ m.error_text = SubSeq(input[2], 1, n)
             /\ \A k \in n + 1 .. Len(input[2]) : input[2][k] \in {32, 13, 10}
             /\ n > 0 => m.error_text[n] = 65
  /\ Done("near") =>
       LET x == input[1]
           y == input[2]
           error == input[3]
       IN  result[1].success <=>
             \/ IsFinite(x) /\ IsFinite(y) /\ IsFinite(error)
                  /\ y[2] \in x[2] - error[2] .. x[2] + error[2]
             \/ error = Infinity /\ NaN \notin {x, y} /\ (IsFinite(x) \/ x # y)
  /\ Done("boolean") =>
       /\ result[1].success <=> (input[1].success <=> input[2])
       /\ ~result[1].success =>
            result[1].message = [actual |-> IF input[2] THEN "false" ELSE "true",
                                 because |-> input[1].message,
                                 expected |-> IF input[2] THEN "true" ELSE "false"]
  /\ Done("predicate") => (result[1].success <=> input[2] \in input[1])
  /\ Done("statement") =>
       (result[1].success <=>
          \/ input[2] = "return"
          \/ /\ input[2] = "end" <=> input[1] = "NO_THROW"
             /\ input[1] = "THROW" => input[2] # "another class")

(* A listener that is handed over comes back to its owner or is deleted,   *)
(* once for each time, and the defaults are listeners of the list.  Those  *)
(* that the list has hear what starts in the order they came in, and what  *)
(* ends in the reverse order; none hears a thing in the child process of a *)
(* death test.  A server is sent every event, with its file and message as *)
(* they were, if an address of it can be reached, and the program ends if  *)
(* none can; no connection stays open.  On the console every test that runs*)
(* starts and ends, and has failed exactly if a failure was printed between*)
(* the two; the numbers and lists of its summary are those of the lines    *)
(* above it, and it speaks of a failure if one was printed in a test or for*)
(* an environment.  The numbers of an iteration with a fatal failure in an *)
(* environment are left out: its tests do not run, and the program counts  *)
(* them as passed (gtest.cc:3308).  Coloured text can be told from what is *)
(* behind it, which stays as it was, and has the colour asked for.         *)
ListenersTellWhatHappened ==
  /\ Done("listeners") =>
       LET w == result[Len(result) - 1]
           end == Last(result)
           Often(s, l) == Cardinality({i \in DOMAIN s : s[i] = l})
           Given(l) == {i \in DOMAIN input : input[i][2] = l /\ HandsOver(result[i], input[i])}
                         \cup (IF l = 3 THEN {0} ELSE {})
           InList == {l \in 1 .. 5 : Cardinality(Given(l)) > Often(w.deleted, l)
                                                            + Often(w.released, l)}
           n == Cardinality(InList)
           Heard(event) == SelectSeq(w.heard, LAMBDA h : h[1] = event)
       IN  /\ \A l \in 1 .. 5 :
                /\ Cardinality(Given(l)) = Often(end.deleted, l) + Often(end.released, l)
                /\ Often(end.deleted, l) <= 1
           /\ {w.printer, w.xml} \subseteq InList \cup {Nobody}
           /\ IF \E i \in DOMAIN input : input[i][1] = "suppress" THEN w.heard = << >>
              ELSE /\ Len(w.heard) = 2 * n
                   /\ {w.heard[i] : i \in 1 .. n} = {"start"} \X InList
                   /\ \A i, j \in 1 .. n :
                        i < j => Max(Given(w.heard[i][2])) < Max(Given(w.heard[j][2]))
                   /\ \A i \in 1 .. n : w.heard[2 * n + 1 - i] = <<"end", w.heard[i][2]>>
  /\ Done("stream") =>
       LET s == result[1]
           lines == SplitAt(s.sent, "\n")
           events == SelectSeq(EventsOf(input[2], input[3], input[4]), IsStreamed)
           passed == <<"passed", FormatBool(input[4])>>
           time == <<"elapsed_time", <<"7", "m", "s">>>>
           Fields(e) ==
             CASE e.name = "TestProgramEnd" -> <<passed>>
               [] e.name = "TestIterationStart" -> <<<<"iteration", <<"0">>>>>>
               [] e.name \in {"TestCaseStart", "TestStart"} -> <<<<"name", <<"T">>>>>>
               [] e.name \in {"TestEnd", "TestCaseEnd", "TestIterationEnd"} -> <<passed, time>>
               [] e.name = "TestPartResult" ->
                    <<<<"file", input[2]>>, <<"line", <<"1">>>>, <<"message", input[3]>>>>
               [] OTHER -> << >>
       IN  /\ s.aborted <=> "ok" \notin Range(input[1])
           /\ s.opened = s.closed
           /\ ~s.aborted =>
                /\ Len(lines) = Len(events) + 2 /\ Last(lines) = << >>
                /\ \A i \in DOMAIN events :
                     FieldsOf(lines[i + 1])
                       = <<<<"event", <<events[i].name>>>>>> \o Fields(events[i])
  /\ Done("console") =>
       LET out == result[1]
           end == SelectInSeq(out, LAMBDA l : l.mark = "ran")
           BeforeEnd(Keep(_)) == SelectSeq(SubSeq(out, 1, end - 1), Keep)
           MarkedLines(mark) == BeforeEnd(LAMBDA l : l.mark = mark)
           Below(mark) == SelectSeq(SubSeq(out, end, Len(out)), LAMBDA l : l.mark = mark)
           NamesIn(seq) == [i \in DOMAIN seq |-> seq[i].name]
           CommentsIn(seq) == [i \in DOMAIN seq |-> seq[i].comment]
           ends == {"OK", "SKIPPED", "FAILED"}
           (* From where a test runs to where it ends. *)
           EndOfTest(i) == Min({j \in i .. end : out[j].mark \in ends})
           running == {i \in 1 .. end : out[i].mark = "RUN"}
           Failures(i, j) == {k \in i .. j : out[k].mark = "error: "}
           lists == Below("FAILED, listed below")
           tests == Head(MarkedLines("Running")).tests
       IN  /\ Cardinality(running) = Len(BeforeEnd(LAMBDA l : l.mark \in ends))
           /\ \A i \in running :
                /\ out[EndOfTest(i)].name = out[i].name
                /\ running \cap (i .. EndOfTest(i)) = {i}
                /\ out[EndOfTest(i)].mark = "FAILED" <=> Failures(i, EndOfTest(i)) # {}
           /\ tests = Below("ran")[1].tests
           /\ "fatal" \notin Range(input[2]) =>
                /\ tests[1] = Cardinality(running)
                /\ Below("PASSED")[1].tests[1] = Len(MarkedLines("OK"))
                /\ tests[1] = Len(MarkedLines("OK")) + Len(Below("SKIPPED")) + Len(Below("FAILED"))
           /\ NamesIn(Below("SKIPPED")) = NamesIn(MarkedLines("SKIPPED"))
           /\ NamesIn(Below("FAILED")) = NamesIn(MarkedLines("FAILED"))
           /\ CommentsIn(Below("FAILED")) = CommentsIn(MarkedLines("FAILED"))
           /\ (lists = << >>) =
                ~ \/ MarkedLines("FAILED") # << >>
                  \/ Failures(1, Min({end} \cup
                       {i \in 1 .. end : out[i].mark = "----------"})) # {}
           /\ \A i \in DOMAIN lists : lists[i].tests[1] = Len(Below("FAILED"))
  /\ Done("color") =>
       LET r == result[1]
           Coloured == /\ input[1] # "default"
                       /\ input[3] = "yes" \/ (input[3] = "auto" /\ input[4])
       IN  /\ r.left = input[2]
           /\ IF Coloured
              THEN /\ r.shown \div 16 = input[2] \div 16 /\ r.shown % 16 # r.shown \div 16
                   /\ r.shown % 8 = (CASE input[1] = "red" -> 4 [] input[1] = "green" -> 2
                                       [] input[1] = "yellow" -> 6)
              ELSE r.shown = input[2]

(* A value matches iff the description of the matcher is true of it, and   *)
(* does not iff the description of its negation is, which is what a failed *)
(* EXPECT_THAT and Not() print.  Of an empty optional, or a null pointer to*)
(* an object with a field, the negation speaks of a value that is not      *)
(* there; nothing is claimed about it.  UnorderedElementsAre, IsSubsetOf   *)
(* and IsSupersetOf hold iff the elements and the matchers can be assigned *)
(* to each other, and what they print is a matching as large as any.       *)
(* NextGraph counts through all graphs.                                    *)
MatchersDoAsTheySay ==
  /\ Done("matcher") =>
       LET m == input[1]
           x == input[2]
           r == result[1]
       IN  /\ r.success <=> Says(DescribeMatcher(m, FALSE), x)
           /\ \A d \in Range(r.expected) : ~Says(d, x)
           /\ ~(m.class \in {"Optional", "Field"} /\ x = << >>) =>
                (~r.success <=> Says(DescribeMatcher(m, TRUE), x))
  /\ Done("match") =>
       /\ result[1] \subseteq input[1] /\ IsMatching(result[1])
       /\ \A pairs \in SUBSET input[1] :
            IsMatching(pairs) => Cardinality(pairs) <= Cardinality(result[1])
       /\ result[2] <=> Assignable(input[1], input[2], input[3], input[4])
       /\ LET Number(graph) == SumSet({2 ^ SpaceIndex(edge, input[3]) : edge \in graph})
              next == Number(result[3].graph)
          IN  IF result[3].more THEN next = Number(input[1]) + 1
              ELSE next = 0 /\ Number(input[1]) = 2 ^ (input[2] * input[3]) - 1

(* A statement reports a failure iff its clauses are out of the order that *)
(* the messages ask for or a cardinality makes no sense.  One that does not*)
(* allows the calls of its Times clause, or else those that its actions    *)
(* are for, and warns iff some action can never be taken, or the actions   *)
(* run out before the calls that must come.  A cardinality describes the   *)
(* calls it allows; an ON_CALL that goes unreported has one action; and an *)
(* expectation comes after those that share a scope or a sequence with it. *)
StatementsMeanTheirClauses ==
  /\ Done("clauses") =>
       LET e == result[1]
           Given(name) == {i \in DOMAIN input : input[i].name = name}
           times == {input[i].cardinality : i \in Given("Times")}
           once == Cardinality(Given("WillOnce"))
           repeated == Given("WillRepeatedly") # {}
           actions == once + (IF repeated THEN 1 ELSE 0)
           Allowed(n) == IsSatisfiedBy(e.cardinality, n)
       IN  /\ e.failures = 0 <=> InOrder(input) /\ \A c \in times : c.valid
           /\ e.failures = 0 =>
                /\ times # {} => e.cardinality \in times
                /\ times = {} => \A n \in 0 .. ClauseCount :
                     Allowed(n) <=> IF actions = 0 THEN n = 1
                                    ELSE n = once \/ (repeated /\ n > once)
                /\ e.warning = "too many" <=> actions > e.cardinality.max
                /\ e.warning = "too few" <=>
                     actions > 0 /\ ~repeated /\ \A n \in 0 .. once : ~Allowed(n)
                                              /\ e.cardinality.max >= once
  /\ Done("on call") =>
       (result[1].failures = 0 /\ ~result[1].aborts <=>
          /\ input # << >>
          /\ Last(input) = [name |-> "WillByDefault", action |-> "Return"]
          /\ Len(input) = 1 \/ (Len(input) = 2 /\ input[1].name = "With"))
  /\ Done("order") =>
       LET P == result[1]
       IN  /\ \A e \in DOMAIN P : P[e] \subseteq 1 .. e - 1
           /\ Before(Len(P), LAMBDA d, e : d \in P[e])
                = Before(Len(P), LAMBDA d, e : InCommon(input, d, e))
  /\ Done("cardinality") =>
       LET c == result[1]
           Promise == Promised(Description(c), 6)
       IN  \A n \in 0 .. 6 :
             /\ IsSatisfiedBy(c, n) <=> n \in Promise
             /\ StateOf(c, n) =
                  CASE n \in Promise /\ n + 1 \in Promise -> "satisfied"
                    [] n \in Promise /\ n + 1 \notin Promise ->
                         IF c.max = IntMax THEN "satisfied" ELSE "saturated"
                    [] n \notin Promise ->
                         IF \E k \in Promise : k > n THEN "unsatisfied"
                         ELSE "over-saturated"

(* A call does what its action says, with the values that variables had    *)
(* when the action was written, and reads and writes memory as it is at the*)
(* call: the parts of a DoAll in their order, each with what the earlier   *)
(* ones left, up to one that throws or may not be performed.  A value that *)
(* may be moved once is not handed out twice, and a reference to a copy is *)
(* to one of its own.  A call without an action takes the newest ON_CALL   *)
(* that matches it, or else the default value that was set last.  A view of*)
(* an array shows it as it is, and a copy of it, or of a copy, as it was   *)
(* when the first copy was made; the array of each copy is deleted once,   *)
(* with it; and views are equal, or hold an element, iff what they show    *)
(* does.                                                                   *)
ActionsKeepTheirValues ==
  /\ Done("action") =>
       LET ops == input[2]
           Performs == {i \in DOMAIN result : ops[i].name = "perform"}
           World(i) == IF i = 1 THEN [NoHandles EXCEPT !.mem = Cells] ELSE result[i - 1].world
       IN  /\ \A i \in Performs :
                KeepsItsWord(PartsOf(input[1], ops[i].args, TRUE),
                             \E j \in Performs : j < i /\ ops[j].handle = ops[i].handle,
                             \E j \in Performs : j < i,
                             World(i), result[i].world, result[i].answer, Cells)
           /\ input[1] = FromVariable("ReturnRefOfCopy") => \A i, j \in Performs :
                ops[i].handle = ops[j].handle <=> result[i].answer[2] = result[j].answer[2]
  /\ Done("default") =>
       LET ops == input[2]
           Matching == {i \in DOMAIN ops : ops[i].name = "ON_CALL" /\ input[3] \in ops[i].matcher
                          /\ \A j \in i .. Len(ops) : ops[j].name # "VerifyAndClear"}
           Setting == {i \in DOMAIN ops : ops[i].name \in {"Set", "Clear"}}
           IsSet == Setting # {} /\ ops[Max(Setting)].name = "Set"
       IN  result[1].answer =
             IF Matching # {} THEN <<"value", ops[Max(Matching)].value>>
             ELSE IF IsSet THEN <<"value", ops[Max(Setting)].value>>
             ELSE IF input[1] = "other" THEN <<"threw">> ELSE <<"value", 0>>
  /\ Done("views") =>
       LET w == result[1]
           ops == input[2]
           living == {v \in DOMAIN w.views : Lives(ops, v)}
           Shown(v) == SubSeq(w.mem, w.views[v].array_, EndOfView(w, w.views[v]) - 1)
           Should(v) == ShouldShow(ArrayOf(input[1]), input[1], ops, v)
           first == SubSeq(w.mem, 1, input[1])
           FoundAt(v) == ArrayAwareFind(w, w.views[v].array_, EndOfView(w, w.views[v]), 1)
           copies == {v \in DOMAIN w.views \ living : ops[Source(ops, v)].name = "Copy"}
       IN  /\ \A v \in living :
                /\ Shown(v) = Should(v)
                /\ \A u \in living : ViewsEqual(w, w.views[u], w.views[v]) <=> Should(u) = Should(v)
                /\ LET n == FoundAt(v) - w.views[v].array_
                       elements == Should(v) \o first
                   IN  /\ n % input[1] = 0 /\ SubSeq(elements, n + 1, n + input[1]) = first
                       /\ \A k \in 0 .. n - 1 :
                            k % input[1] = 0 => SubSeq(elements, k + 1, k + input[1]) # first
           /\ Len(w.deleted) = Cardinality(copies)
           /\ Range(w.deleted) = {w.views[v].array_ : v \in copies}
           /\ Cardinality(Range(w.deleted)) = Cardinality(copies)
=============================================================================
