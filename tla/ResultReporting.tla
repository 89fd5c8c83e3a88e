-------------------------- MODULE ResultReporting ---------------------------
(***************************************************************************)
(* Where a failure goes (gtest.cc, gtest-test-part.cc, gtest-spi.h).  Each *)
(* thread has a reporter and the program has a global one; macros that     *)
(* expect failures put reporters of their own in their places and restore  *)
(* the old ones when they are left, by the end of the statement, a return  *)
(* or an exception.  What no macro takes goes to the test, or else the     *)
(* suite or the program, that is xml_element.                                  *)
(*                                                                         *)
(* Thread 1 runs the test; only it opens scopes for all threads, and the   *)
(* threads it started have no report under way while it leaves one.        *)
(***************************************************************************)
EXTENDS Integers, Sequences, SequencesExt

CONSTANTS
  ReportingThreads,  \* thread 1 and the ones that it starts
  ScopeDepth,        \* bounds the nesting of scopes
  ReportCount        \* bounds the scopes, the assertions and the properties

ASSUME ThreadsAreNumbered ==
  ReportingThreads \subseteq Nat \ {0} /\ 1 \in ReportingThreads

VARIABLES
  xml_element,    \* current_test_result(), by its element of the report
  test_part_results, \* of the current result
  test_properties,   \* of it
  global_reporter,   \* global_test_part_result_repoter_
  thread_reporter,   \* per_thread_test_part_result_reporter_
  gtest_trace_stack, \* of each thread
  frames,            \* the objects on the stack of each thread
  leaving,           \* whether a thread leaves its scopes, by "return" or "throw"
  actions_taken,     \* how many scopes, assertions and properties there were
  due                \* history: what test_part_results should be

reporting_vars == <<xml_element, test_part_results, test_properties, global_reporter,
                    thread_reporter, gtest_trace_stack, frames, leaving, actions_taken, due>>

-----------------------------------------------------------------------------
(* The default reporters, and those that are objects of a scope: the i-th  *)
(* of thread t.                                                            *)
DefaultGlobal == <<0, 0>>
DefaultPerThread == <<0, 1>>
Reporters ==
  {DefaultGlobal, DefaultPerThread}
    \cup UNION {{t} \X DOMAIN frames[t] : t \in ReportingThreads}

Results == {"testcase", "testsuite", "testsuites"}

(* The macros, by what their objects do: take the failures of one thread   *)
(* or of all and check them, look at those of the thread and fail with an  *)
(* EXPECT or an ASSERT of their own, or add a trace.                       *)
Macro(class, asks) == [class |-> class, asks |-> asks]

Takes(scope) == scope.class \in {"one_thread", "all_threads"}

Macros(t) ==
  {Macro("one_thread", "fatal"), Macro("one_thread", "nonfatal"),
   Macro("no_fatal", "EXPECT"), Macro("no_fatal", "ASSERT"), Macro("trace", "a_line")}
    \cup (IF t = 1 THEN {Macro("all_threads", "fatal"), Macro("all_threads", "nonfatal")}
          ELSE {})

ReportingInit ==
  /\ xml_element \in Results
  /\ test_part_results = << >>
  /\ test_properties = << >>
  /\ global_reporter = DefaultGlobal
  /\ thread_reporter = [t \in ReportingThreads |-> DefaultPerThread]
  /\ gtest_trace_stack = [t \in ReportingThreads |-> << >>]
  /\ frames = [t \in ReportingThreads |-> << >>]
  /\ leaving = [t \in ReportingThreads |-> "no"]
  /\ actions_taken = 0
  /\ due = << >>

-----------------------------------------------------------------------------
ScopeOf(reporter) == frames[reporter[1]][reporter[2]]

(* The reporters that a result passes, up to the one that keeps it.        *)
Route[reporter \in Reporters] ==
  CASE reporter = DefaultGlobal -> {reporter}
    [] reporter = DefaultPerThread -> {reporter} \cup Route[global_reporter]
    [] OTHER -> IF Takes(ScopeOf(reporter)) THEN {reporter}
                ELSE {reporter} \cup Route[ScopeOf(reporter).old_reporter]

(* What should happen instead: the innermost scope of the thread that takes*)
(* the failures of one thread, or else the innermost that takes those of   *)
(* all, or else the current result.                                        *)
Innermost(t, class) ==
  LET of == {i \in DOMAIN frames[t] : frames[t][i].class = class /\ frames[t][i].open}
  IN  IF of = {} THEN 0 ELSE CHOOSE i \in of : \A j \in of : j <= i

Taker(t) ==
  IF Innermost(t, "one_thread") # 0 THEN <<t, Innermost(t, "one_thread")>>
  ELSE IF Innermost(1, "all_threads") # 0 THEN <<1, Innermost(1, "all_threads")>>
  ELSE DefaultGlobal

(* The result that UnitTest::AddTestPartResult makes, and the one that the *)
(* open scopes ask for.                                                    *)
Result(t, type, message) ==
  [type |-> type, message |-> message, trace |-> Reverse(gtest_trace_stack[t])]

(* The lines of the traces among scopes, newest first.                     *)
OpenTraces(scopes) ==
  LET lines[n \in 0 .. Len(scopes)] ==
        IF n = 0 THEN << >>
        ELSE IF scopes[n].class = "trace" THEN <<scopes[n].line>> \o lines[n - 1]
        ELSE lines[n - 1]
  IN  lines[Len(scopes)]

Asked(t, type, message) ==
  [type |-> type, message |-> message, trace |-> OpenTraces(frames[t])]

(* UnitTest::AddTestPartResult: what the scopes hold after all reporters   *)
(* on the route had the result, and after the ones that ought to had it.   *)
Reported(t, type, message) ==
  LET route == Route[thread_reporter[t]]
      Receive(u, i) ==
        LET s == frames[u][i]
            ought == \/ Taker(t) = <<u, i>>
                     \/ /\ s.class = "no_fatal" /\ s.open /\ type = "fatal"
                        /\ u = t /\ i > Innermost(t, "one_thread")
        IN  [s EXCEPT
               !.results = IF <<u, i>> \in route /\ Takes(s)
                           THEN Append(@, Result(t, type, message)) ELSE @,
               !.has_new_fatal_failure = @ \/ (<<u, i>> \in route /\ type = "fatal"),
               !.due = IF ought THEN Append(@, Asked(t, type, message)) ELSE @]
  IN  [u \in ReportingThreads |-> [i \in DOMAIN frames[u] |-> Receive(u, i)]]

(* DefaultGlobalTestPartResultReporter: the rest is the current result's.  *)
ReportToResults(t, type, message) ==
  /\ test_part_results' =
       IF DefaultGlobal \in Route[thread_reporter[t]]
       THEN Append(test_part_results, Result(t, type, message)) ELSE test_part_results
  /\ due' = IF Taker(t) = DefaultGlobal THEN Append(due, Asked(t, type, message)) ELSE due

AddTestPartResult(t, type, message) ==
  /\ frames' = Reported(t, type, message)
  /\ ReportToResults(t, type, message)

-----------------------------------------------------------------------------
Running(t) == leaving[t] = "no" /\ (frames[t] # << >> => Last(frames[t]).open)

(* An assertion of the thread.  A fatal one leaves the function it is in,  *)
(* which may be that of the test or one that is called by it.              *)
MakeAssertion(t) ==
  /\ Running(t) /\ actions_taken < ReportCount
  /\ actions_taken' = actions_taken + 1
  /\ \E type \in {"success", "nonfatal", "fatal"}, message \in {"the_text", "another"} :
       /\ message = "another" <=> type = "success"
       /\ AddTestPartResult(t, type, message)
       /\ \/ UNCHANGED leaving
          \/ type = "fatal" /\ leaving' = [leaving EXCEPT ![t] = "return"]
  /\ UNCHANGED <<xml_element, test_properties, global_reporter, thread_reporter,
                 gtest_trace_stack>>

(* PushGTestTrace and PopGTestTrace, of the constructor and the destructor *)
(* of a ScopedTrace.                                                       *)
PushTrace(t, line) == [gtest_trace_stack EXCEPT ![t] = Append(@, line)]
PopTrace(t) == [gtest_trace_stack EXCEPT ![t] = Front(@)]

(* The constructors: the reporter takes the place of another, which it     *)
(* keeps; a trace is pushed.                                               *)
Enter(t) ==
  /\ Running(t) /\ Len(frames[t]) < ScopeDepth /\ actions_taken < ReportCount
  /\ actions_taken' = actions_taken + 1
  /\ \E macro \in Macros(t) :
       LET self == <<t, Len(frames[t]) + 1>>
           old == IF macro.class = "all_threads" THEN global_reporter ELSE thread_reporter[t]
       IN  /\ frames' = [frames EXCEPT ![t] = Append(@,
                [class |-> macro.class, asks |-> macro.asks, line |-> Len(frames[t]),
                 open |-> TRUE, old_reporter |-> old, results |-> << >>,
                 has_new_fatal_failure |-> FALSE, due |-> << >>])]
           /\ global_reporter' =
                IF macro.class = "all_threads" THEN self ELSE global_reporter
           /\ thread_reporter' =
                IF macro.class \in {"one_thread", "no_fatal"}
                THEN [thread_reporter EXCEPT ![t] = self] ELSE thread_reporter
           /\ gtest_trace_stack' =
                IF macro.class = "trace"
                THEN PushTrace(t, Len(frames[t])) ELSE gtest_trace_stack
  /\ UNCHANGED <<xml_element, test_part_results, test_properties, leaving, due>>

(* Mutant: the default is put back instead of what was there before. *)
DefaultReporter(scope) ==
  IF scope.class = "all_threads" THEN DefaultGlobal ELSE DefaultPerThread

OldReporter(scope) == scope.old_reporter

(* The destructors, at the end of the statement or on the way out: the old *)
(* reporter is restored, or the trace popped.  The statement of            *)
(* EXPECT_FATAL_FAILURE is a function of its own, where a return ends.     *)
Leave(t) ==
  /\ frames[t] # << >> /\ Last(frames[t]).open
  /\ LET scope == Last(frames[t])
         fails == scope.class = "no_fatal" /\ scope.has_new_fatal_failure
                    /\ leaving[t] = "no"
     IN  /\ frames' = [frames EXCEPT ![t] =
              IF Takes(scope) \/ fails
              THEN Append(Front(@), [scope EXCEPT !.open = FALSE]) ELSE Front(@)]
         /\ leaving' = IF leaving[t] = "return" /\ Takes(scope) /\ scope.asks = "fatal"
                       THEN [leaving EXCEPT ![t] = "no"] ELSE leaving
         /\ global_reporter' =
              IF scope.class = "all_threads" THEN OldReporter(scope) ELSE global_reporter
         /\ thread_reporter' =
              IF scope.class \in {"one_thread", "no_fatal"}
              THEN [thread_reporter EXCEPT ![t] = OldReporter(scope)] ELSE thread_reporter
         /\ gtest_trace_stack' =
              IF scope.class = "trace"
              THEN PopTrace(t) ELSE gtest_trace_stack
  /\ UNCHANGED <<xml_element, test_part_results, test_properties, actions_taken, due>>

(* HasOneFailure. *)
HasOneFailure(scope) ==
  /\ Len(scope.results) = 1
  /\ scope.results[1].type = scope.asks
  /\ scope.results[1].message = "the_text"

(* ~SingleFailureChecker, and the failure of ASSERT_NO_FATAL_FAILURE or    *)
(* EXPECT_NO_FATAL_FAILURE.                                                *)
Check(t) ==
  /\ frames[t] # << >> /\ ~Last(frames[t]).open
  /\ LET scope == Last(frames[t])
         type == IF scope.asks = "ASSERT" THEN "fatal" ELSE "nonfatal"
     IN  IF Takes(scope) /\ HasOneFailure(scope)
         THEN /\ frames' = [frames EXCEPT ![t] = Front(@)]
              /\ UNCHANGED <<test_part_results, due, leaving>>
         ELSE /\ frames' = [Reported(t, type, "the_text") EXCEPT ![t] = Front(@)]
              /\ ReportToResults(t, type, "the_text")
              /\ leaving' = IF type = "fatal" THEN [leaving EXCEPT ![t] = "return"] ELSE leaving
  /\ UNCHANGED <<xml_element, test_properties, global_reporter, thread_reporter,
                 gtest_trace_stack,
                 actions_taken>>

-----------------------------------------------------------------------------
(* The test throws, with scopes open. *)
Throw ==
  /\ Running(1) /\ frames[1] # << >>
  /\ leaving' = [leaving EXCEPT ![1] = "throw"]
  /\ UNCHANGED <<xml_element, test_part_results, test_properties, global_reporter,
                 thread_reporter,
                 gtest_trace_stack, frames, actions_taken, due>>

(* The function of the thread ends; an exception is reported as a failure. *)
Arrive(t) ==
  /\ leaving[t] # "no" /\ frames[t] = << >>
  /\ leaving' = [leaving EXCEPT ![t] = "no"]
  /\ IF leaving[t] = "throw" THEN AddTestPartResult(t, "fatal", "another")
     ELSE UNCHANGED <<frames, test_part_results, due>>
  /\ UNCHANGED <<xml_element, test_properties, global_reporter, thread_reporter,
                 gtest_trace_stack,
                 actions_taken>>

(* GetReservedAttributesForElement, for keys of each kind. *)
Reserved(element) ==
  CASE element = "testcase" -> {"name", "classname"}
    [] element = "testsuite" -> {"name"}
    [] element = "testsuites" -> {"name", "timestamp"}

(* TestResult::RecordProperty: in the place of an older value of the key.  *)
Recorded(key, value) ==
  LET older == {i \in DOMAIN test_properties : test_properties[i].key = key}
  IN  IF older = {} THEN Append(test_properties, [key |-> key, value |-> value])
      ELSE [i \in DOMAIN test_properties |->
              IF i \in older THEN [test_properties[i] EXCEPT !.value = value]
              ELSE test_properties[i]]

(* RecordProperty, of the current result. *)
RecordProperty ==
  /\ Running(1) /\ actions_taken < ReportCount
  /\ actions_taken' = actions_taken + 1
  /\ \E key \in {"name", "classname", "timestamp"} :
       IF key \in Reserved(xml_element)
       THEN AddTestPartResult(1, "nonfatal", "another") /\ UNCHANGED test_properties
       ELSE /\ test_properties' = Recorded(key, actions_taken)
            /\ UNCHANGED <<frames, test_part_results, due>>
  /\ UNCHANGED <<xml_element, global_reporter, thread_reporter, gtest_trace_stack,
                 leaving>>

ReportingNext ==
  \/ \E t \in ReportingThreads :
       MakeAssertion(t) \/ Enter(t) \/ Leave(t) \/ Check(t) \/ Arrive(t)
  \/ Throw \/ RecordProperty

ReportingSpec == ReportingInit /\ [][ReportingNext]_reporting_vars

-----------------------------------------------------------------------------
(* However the scopes of several threads are nested and left, each result  *)
(* is reported once: to the innermost scope of its thread that takes the   *)
(* failures of one thread, or else to the innermost that takes those of    *)
(* all, or else to the current test, suite or program; with the traces of  *)
(* its thread, newest first.  A scope that asks for no fatal failure knows *)
(* of exactly those that its thread had in it and that no scope within it  *)
(* took (gtest.cc:721, :743, :4757, gtest-test-part.cc:94).                *)
FailuresReachTheirResult ==
  /\ test_part_results = due
  /\ \A t \in ReportingThreads : \A i \in DOMAIN frames[t] :
       LET s == frames[t][i]
       IN  IF s.class = "no_fatal" THEN s.has_new_fatal_failure <=> s.due # << >>
           ELSE s.results = s.due
=============================================================================
