------------------------------ MODULE Listeners ------------------------------
(***************************************************************************)
(* The listeners of a test program (gtest.cc, gtest-internal-inl.h): the   *)
(* list of them, which owns those that it holds, and the order in which it *)
(* tells them of an event; the listener that streams the results to a      *)
(* server; the console listener, and the colour of what it prints on       *)
(* Windows.                                                                *)
(***************************************************************************)
EXTENDS Integers, Sequences, SequencesExt, FiniteSetsExt

(* Listeners are positive numbers, and 0 is the null pointer. *)
Nobody == 0

NoListeners ==
  [list |-> << >>, printer |-> Nobody, xml |-> Nobody, forwarding |-> TRUE,
   deleted |-> << >>, released |-> << >>, heard |-> << >>]

Holds(w, listener) == listener \in Range(w.list)

AppendListener(w, listener) == [w EXCEPT !.list = Append(@, listener)]

(* Mutant: a default listener that is taken out stays the default. *)
TakeOutOnly(w, listener) ==
  [w EXCEPT !.list = IF Holds(w, listener)
                     THEN RemoveAt(@, SelectInSeq(@, LAMBDA l : l = listener)) ELSE @]

(* The listener is taken out of the list; what comes back is null when it  *)
(* was not there.                                                          *)
TakeOut(w, listener) ==
  [w EXCEPT !.printer = IF listener = @ THEN Nobody ELSE @,
            !.xml = IF listener # w.printer /\ listener = @ THEN Nobody ELSE @,
            !.list = IF Holds(w, listener) THEN RemoveAt(@, SelectInSeq(@, LAMBDA l : l = listener))
                     ELSE @]

ReleaseListener(w, listener) ==
  LET after == TakeOut(w, listener)
  IN  IF Holds(w, listener) THEN [after EXCEPT !.released = Append(@, listener)] ELSE after

DeleteReleased(w, listener) ==
  LET after == TakeOut(w, listener)
  IN  IF Holds(w, listener) THEN [after EXCEPT !.deleted = Append(@, listener)] ELSE after

SetDefaultResultPrinter(w, listener) ==
  IF w.printer = listener THEN w
  ELSE LET after == [DeleteReleased(w, w.printer) EXCEPT !.printer = listener]
       IN  IF listener = Nobody THEN after ELSE AppendListener(after, listener)

SetDefaultXmlGenerator(w, listener) ==
  IF w.xml = listener THEN w
  ELSE LET after == [DeleteReleased(w, w.xml) EXCEPT !.xml = listener]
       IN  IF listener = Nobody THEN after ELSE AppendListener(after, listener)

SuppressEventForwarding(w) == [w EXCEPT !.forwarding = FALSE]

(* An event that starts something goes to the listeners in their order, one*)
(* that ends it in the reverse order.                                      *)
Repeat(w, event) ==
  LET Told(listeners) == [i \in DOMAIN listeners |-> <<event, listeners[i]>>]
  IN  IF ~w.forwarding THEN w
      ELSE [w EXCEPT !.heard = @ \o Told(IF event = "start" THEN w.list ELSE Reverse(w.list))]

DeleteListeners(w) == [w EXCEPT !.deleted = @ \o w.list, !.list = << >>]

(* What is done to the list: a step is a name and a listener. *)
ListStep(w, step) ==
  CASE step[1] = "append" -> AppendListener(w, step[2])
    [] step[1] = "release" -> ReleaseListener(w, step[2])
    [] step[1] = "printer" -> SetDefaultResultPrinter(w, step[2])
    [] step[1] = "generator" -> SetDefaultXmlGenerator(w, step[2])
    [] step[1] = "suppress" -> SuppressEventForwarding(w)
    [] step[1] \in {"start", "end"} -> Repeat(w, step[1])

-----------------------------------------------------------------------------
(* The streaming listener.  A text is a sequence of characters, of which   *)
(* the names of events and of their fields are taken as one each.          *)
FormatByte(ch) ==
  CASE ch = "%" -> <<"2", "5">> [] ch = "=" -> <<"3", "D">>
    [] ch = "&" -> <<"2", "6">> [] ch = "\n" -> <<"0", "A">>

UrlEncode(str) ==
  FlattenSeq([i \in DOMAIN str |->
    IF str[i] \in {"%", "=", "&", "\n"} THEN <<"%">> \o FormatByte(str[i]) ELSE <<str[i]>>])

NoSocket == -1

(* Each address that the host has is tried until one takes the connection; *)
(* the socket of one that refuses it is closed.                            *)
MakeConnection(addresses) ==
  LET Try(s, i) ==
        IF s.sockfd # NoSocket \/ addresses[i] = "no socket" THEN s
        ELSE IF addresses[i] = "refused" THEN [s EXCEPT !.opened = @ + 1, !.closed = @ + 1]
        ELSE [s EXCEPT !.opened = @ + 1, !.sockfd = i]
  IN  FoldLeft(Try, [sockfd |-> NoSocket, opened |-> 0, closed |-> 0, sent |-> << >>,
                     aborted |-> FALSE],
               [i \in DOMAIN addresses |-> i])

(* SendLn, which checks that there is a connection. *)
SendLn(s, message) ==
  IF s.aborted THEN s
  ELSE IF s.sockfd = NoSocket THEN [s EXCEPT !.aborted = TRUE]
  ELSE [s EXCEPT !.sent = @ \o message \o <<"\n">>]

CloseConnection(s) ==
  IF s.aborted THEN s
  ELSE IF s.sockfd = NoSocket THEN [s EXCEPT !.aborted = TRUE]
  ELSE [s EXCEPT !.sockfd = NoSocket, !.closed = @ + 1]

FormatBool(value) == IF value THEN <<"1">> ELSE <<"0">>

Field(name, value) == <<"&", name, "=">> \o value
EventLine(name) == <<"event", "=", name>>
Ended(name, e) ==
  EventLine(name) \o Field("passed", FormatBool(e.passed))
                  \o Field("elapsed_time", e.elapsed_time \o <<"m", "s">>)

(* What is sent for an event; nothing is for the environments. *)
StreamedLine(e) ==
  CASE e.name = "TestProgramEnd" ->
         EventLine(e.name) \o Field("passed", FormatBool(e.passed))
    [] e.name = "TestIterationStart" -> EventLine(e.name) \o Field("iteration", e.iteration)
    [] e.name \in {"TestCaseStart", "TestStart"} -> EventLine(e.name) \o Field("name", e.subject)
    [] e.name \in {"TestIterationEnd", "TestCaseEnd", "TestEnd"} -> Ended(e.name, e)
    [] e.name = "TestPartResult" ->
         EventLine(e.name) \o Field("file", UrlEncode(e.file)) \o Field("line", e.line)
                           \o Field("message", UrlEncode(e.message))
    [] OTHER -> EventLine(e.name)

IsStreamed(e) == e.name \notin {"EnvironmentsSetUpStart", "EnvironmentsSetUpEnd",
                                "EnvironmentsTearDownStart", "EnvironmentsTearDownEnd"}

Stream(s, e) ==
  LET after == IF IsStreamed(e) THEN SendLn(s, StreamedLine(e)) ELSE s
  IN  IF e.name = "TestProgramEnd" THEN CloseConnection(after) ELSE after

(* The destructor of the socket writer. *)
CloseIfOpen(s) == IF ~s.aborted /\ s.sockfd # NoSocket THEN CloseConnection(s) ELSE s

StreamAll(addresses, events) ==
  CloseIfOpen(FoldLeft(Stream,
                       SendLn(MakeConnection(addresses),
                              <<"gtest_streaming_protocol_version", "=", "1.0">>),
                       events))

(* What a server reads: lines of fields, with %xx for a character.         *)
SplitAt(text, separator) ==
  FoldLeft(LAMBDA parts, c : IF c = separator THEN Append(parts, << >>)
                             ELSE [parts EXCEPT ![Len(parts)] = Append(@, c)],
           <<<< >>>>, text)

UrlDecode(text) ==
  LET Chars == {"%", "=", "&", "\n"}
      Read(s, c) ==
        IF s.escape = << >>
        THEN IF c = "%" THEN [s EXCEPT !.escape = <<c>>] ELSE [s EXCEPT !.text = Append(@, c)]
        ELSE IF Len(s.escape) = 1 THEN [s EXCEPT !.escape = Append(@, c)]
        ELSE [text |-> Append(s.text, CHOOSE ch \in Chars : FormatByte(ch) = <<s.escape[2], c>>),
              escape |-> << >>]
  IN  FoldLeft(Read, [text |-> << >>, escape |-> << >>], text).text

FieldsOf(line) ==
  LET fields == SplitAt(line, "&")
  IN  [i \in DOMAIN fields |->
         LET parts == SplitAt(fields[i], "=")
         IN  IF Len(parts) = 2 THEN <<parts[1][1], UrlDecode(parts[2])>> ELSE <<"?", parts>>]

-----------------------------------------------------------------------------
(* The colours of the Windows console: blue, green, red and intensity as   *)
(* bits 0 to 3 for the text and 4 to 7 for what is behind it.              *)
Intensity == 8

GetColorAttribute(color) ==
  CASE color = "red" -> 4 [] color = "green" -> 2 [] color = "yellow" -> 6
    [] color = "default" -> 0

GetNewColor(color, old_color_attrs) ==
  LET background == old_color_attrs \div 16
      foreground == GetColorAttribute(color) + Intensity
  IN  16 * background + (IF background = foreground THEN foreground - Intensity ELSE foreground)

(* Whether colours are used: what --gtest_color says, and if nothing, by   *)
(* whether the output goes to a console.  Upper case is not told from lower*)
(* in a value but 1, which has none.                                       *)
ShouldUseColor(gtest_color, stdout_is_tty) ==
  IF gtest_color = "auto" THEN stdout_is_tty ELSE gtest_color \in {"yes", "true", "t", "1"}

(* ColoredPrintf: the attributes that the text has, and those left behind. *)
ColoredPrintf(use_color, color, attributes) ==
  [shown |-> IF use_color /\ color # "default" THEN GetNewColor(color, attributes)
             ELSE attributes,
   left |-> attributes]

-----------------------------------------------------------------------------
(* The console listener.  A line is a record of its mark and what it tells.*)
(* An iteration has the parts that its environments left and its suites,   *)
(* a suite the parts of its SetUpTestSuite and its tests, and a test those *)
(* that it leaves.  A parameter is a sequence, empty for none.             *)
FormatCountableNoun(count, singular_form, plural_form) ==
  <<count, IF count = 1 THEN singular_form ELSE plural_form>>
FormatTestCount(test_count) == FormatCountableNoun(test_count, "test", "tests")
FormatTestSuiteCount(count) == FormatCountableNoun(count, "test suite", "test suites")

TestPartResultTypeToString(type) ==
  CASE type = "skip" -> "Skipped"
    [] type = "success" -> "Success"
    [] type \in {"nonfatal", "fatal"} -> "error: "

Fails(parts) == Range(parts) \cap {"nonfatal", "fatal"} # {}
Skips(parts) == "skip" \in Range(parts) /\ ~Fails(parts)

Selected(run, test) == test.matches_filter /\ (run.also_run_disabled_tests \/ ~test.is_disabled)
ToRun(run, suite) == SelectSeq(suite.tests, LAMBDA test : Selected(run, test))
SuitesToRun(run) == SelectSeq(run.suites, LAMBDA suite : ToRun(run, suite) # << >>)
TestsToRun(run) == FlattenSeq([i \in DOMAIN run.suites |-> ToRun(run, run.suites[i])])


(* No test is run after a fatal failure of an environment, and without     *)
(* tests to run no environment is set up.                                  *)
Outside(run) == IF TestsToRun(run) = << >> THEN << >> ELSE run.environments
PartsLeft(run, test) == IF "fatal" \in Range(Outside(run)) THEN << >> ELSE test.parts

PrintFullTestCommentIfPresent(test) ==
  (IF test.type_param = << >> THEN << >> ELSE <<"TypeParam">> \o test.type_param)
    \o (IF test.value_param = << >> THEN << >> ELSE <<"GetParam()">> \o test.value_param)

OnTestIterationStart(run) ==
  (IF run.repeat = 1 THEN << >> ELSE <<[mark |-> "Repeating all tests"]>>)
    \o (IF run.filter = "*" THEN << >> ELSE <<[mark |-> "Note: filter", name |-> run.filter]>>)
    \o (IF run.shard = << >> THEN << >> ELSE <<[mark |-> "Note: test shard", name |-> run.shard]>>)
    \o (IF ~run.shuffle THEN << >> ELSE <<[mark |-> "Note: Randomizing tests' orders"]>>)
    \o <<[mark |-> "Running", tests |-> FormatTestCount(Len(TestsToRun(run))),
          suites |-> FormatTestSuiteCount(Len(SuitesToRun(run)))]>>

OnTestCaseStart(run, suite) ==
  <<[mark |-> "----------", tests |-> FormatTestCount(Len(ToRun(run, suite))),
     suite |-> suite.name, type_param |-> suite.type_param]>>

OnTestStart(test) == <<[mark |-> "RUN", name |-> test.name]>>

OnTestPartResult(part) ==
  IF part \in {"skip", "success"} THEN << >>
  ELSE <<[mark |-> TestPartResultTypeToString(part)]>>

OnTestEnd(run, test) ==
  <<[mark |-> IF Fails(test.parts) THEN "FAILED" ELSE IF Skips(test.parts) THEN "SKIPPED"
              ELSE "OK",
     name |-> test.name,
     comment |-> IF Fails(test.parts) THEN PrintFullTestCommentIfPresent(test) ELSE << >>,
     timed |-> run.print_time]>>

OnTestCaseEnd(run, suite) ==
  IF ~run.print_time THEN << >>
  ELSE <<[mark |-> "total", tests |-> FormatTestCount(Len(ToRun(run, suite))),
          suite |-> suite.name]>>

(* Environments: "set-up" or "tear-down". *)
OnEnvironmentsStart(what) == <<[mark |-> "Global test environment", name |-> what]>>

(* PrintSkippedTests and PrintFailedTests. *)
PrintSkipped(run) ==
  LET skipped == SelectSeq(TestsToRun(run), LAMBDA test : Skips(PartsLeft(run, test)))
  IN  [i \in DOMAIN skipped |-> [mark |-> "SKIPPED", name |-> skipped[i].name]]

PrintFailed(run) ==
  LET failed == SelectSeq(TestsToRun(run), LAMBDA test : Fails(PartsLeft(run, test)))
  IN  [i \in DOMAIN failed |-> [mark |-> "FAILED", name |-> failed[i].name,
                                comment |-> PrintFullTestCommentIfPresent(failed[i])]]

OnTestIterationEnd(run) ==
  LET Counted(P(_)) == Len(SelectSeq(TestsToRun(run), P))
      passed == Counted(LAMBDA test : ~Fails(PartsLeft(run, test)) /\ ~Skips(PartsLeft(run, test)))
      skipped == Counted(LAMBDA test : Skips(PartsLeft(run, test)))
      failed == Counted(LAMBDA test : Fails(PartsLeft(run, test)))
      tests == FlattenSeq([i \in DOMAIN run.suites |-> run.suites[i].tests])
      disabled == Len(SelectSeq(tests, LAMBDA test : test.matches_filter /\ test.is_disabled))
  IN  <<[mark |-> "ran", tests |-> FormatTestCount(Len(TestsToRun(run))),
         suites |-> FormatTestSuiteCount(Len(SuitesToRun(run))), timed |-> run.print_time],
        [mark |-> "PASSED", tests |-> FormatTestCount(passed)]>>
      \o (IF skipped = 0 THEN << >>
          ELSE <<[mark |-> "SKIPPED, listed below", tests |-> FormatTestCount(skipped)]>>
               \o PrintSkipped(run))
      \o (IF failed = 0 /\ ~Fails(Outside(run)) THEN << >>
          ELSE <<[mark |-> "FAILED, listed below", tests |-> FormatTestCount(failed)]>>
               \o PrintFailed(run)
               \o <<[mark |-> "FAILED TESTS", count |-> failed]>>)
      \o (IF disabled = 0 \/ run.also_run_disabled_tests THEN << >>
          ELSE <<[mark |-> "YOU HAVE DISABLED TESTS", count |-> disabled]>>)

(* The events of an iteration, in the order of UnitTestImpl::RunAllTests.  *)
Console(run) ==
  LET Parts(parts) == FlattenSeq([i \in DOMAIN parts |-> OnTestPartResult(parts[i])])
      Test(test) == OnTestStart(test) \o Parts(test.parts) \o OnTestEnd(run, test)
      Suite(suite) ==
        LET tests == ToRun(run, suite)
        IN  OnTestCaseStart(run, suite) \o Parts(suite.parts)
              \o FlattenSeq([i \in DOMAIN tests |-> Test(tests[i])])
              \o OnTestCaseEnd(run, suite)
      suites == IF "fatal" \in Range(Outside(run)) THEN << >> ELSE SuitesToRun(run)
  IN  OnTestIterationStart(run)
        \o (IF TestsToRun(run) = << >> THEN << >>
            ELSE OnEnvironmentsStart("set-up") \o Parts(run.environments)
                   \o FlattenSeq([i \in DOMAIN suites |-> Suite(suites[i])])
                   \o OnEnvironmentsStart("tear-down"))
        \o OnTestIterationEnd(run)
=============================================================================
