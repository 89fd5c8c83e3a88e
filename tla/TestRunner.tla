----------------------------- MODULE TestRunner -----------------------------
(***************************************************************************)
(* RUN_ALL_TESTS() of googletest, which main calls before it reads the     *)
(* input (main.cpp:8) and which DriverApp.vcxproj:125 compiles into the    *)
(* program: UnitTestImpl::RunAllTests and what it calls, down to the hooks *)
(* that the author of a test writes (environments, SetUpTestSuite,         *)
(* constructor, SetUp, body, TearDown, destructor).                        *)
(*                                                                         *)
(* User code is a choice among Outcomes: assertions that pass, fail, skip, *)
(* or an exception.  A TestResult is the set of the kinds of its parts.    *)
(* The indices of the code start at 0, those of this module at 1.          *)
(***************************************************************************)
EXTENDS Integers, Sequences, FiniteSets, SequencesExt

CONSTANTS
  Registered,       \* the tests in the order in which they registered
  SuiteOf,          \* the suite of a test
  FixtureOf,        \* its fixture class (fixture_class_id_)
  DeathSuites,      \* suites whose name matches kDeathTestSuiteFilter
  Disabled,         \* tests whose name or suite matches kDisableTestFilter
  Environments,     \* the global environments, in order of registration
  FlagSettings,     \* the flags and variables the process may start with
  Outcomes,         \* what the user code of each hook may do
  None              \* a null pointer

Test == Range(Registered)
Suite == {SuiteOf[t] : t \in Test}
Environment == Range(Environments)
Outcome == {"ok", "nonfatal", "fatal", "skip", "failskip", "throw"}
Hook == {"envSetUp", "suiteSetUp", "construct", "setUp", "body", "tearDown",
         "destroy", "suiteTearDown", "envTearDown"}
Part == {"nonfatal", "fatal", "skip"}

ASSUME RegisteredOnce == Registered \in Seq(Test) /\ IsInjective(Registered)

ASSUME OutcomesType == Outcomes \in [Hook -> SUBSET Outcome]

(* Each environment is registered once: the runner deletes it. *)
ASSUME EnvironmentsOnce == Environments \in Seq(Environment) /\ IsInjective(Environments)

(* What is set up can be told apart. *)
ASSUME NamesDiffer ==
  /\ None \notin Test /\ None \notin Suite
  /\ Environment \cap Suite = {}
  /\ {"object", "fixture"} \cap (Environment \cup Suite) = {}

ASSUME FlagsType ==
  FlagSettings \subseteq
    [filter : SUBSET Test,                \* the tests that match it
     also_run_disabled_tests : BOOLEAN,
     total_shards : Int, shard_index : Int,    \* -1: unset
     repeat : Nat,
     shuffle : BOOLEAN,
     catch_exceptions : BOOLEAN,
     throw_on_failure : BOOLEAN,
     list_tests : BOOLEAN]

VARIABLES
  flags,            \* fixed when the process starts
  pc,               \* the next hook, or where RunAllTests is
  iteration,        \* i of RunAllTests
  suite_indices, test_indices,     \* test_suite_indices_, test_indices_
  suite_pos, test_pos,             \* test_index of RunAllTests, i of Run
  should_run,       \* the tests with should_run_
  current_test_suite, current_test_info,
  result, suite_result, ad_hoc,    \* TestResults, cleared or not
  failed,           \* some iteration did not pass
  verdict,          \* the value RunAllTests returned
  ended,            \* OnTestEnd events of this iteration
  heard,            \* where the listeners heard of failed parts
  standing          \* what has been set up and not torn down, in order

order == <<suite_indices, test_indices>>
position == <<iteration, suite_pos, test_pos>>
current == <<current_test_suite, current_test_info>>
results == <<result, suite_result, ad_hoc>>
observed == <<ended, heard, standing>>
vars == <<flags, pc, position, order, should_run, current, results, failed,
          verdict, observed>>

-----------------------------------------------------------------------------
(* Registration, before main: a death test suite is inserted after the     *)
(* last one so far, any other is appended.                                 *)
AddSuite(list, t) ==
  LET deaths == Cardinality(Range(list) \cap DeathSuites)
  IN  IF SuiteOf[t] \in Range(list) THEN list
      ELSE IF SuiteOf[t] \in DeathSuites
           THEN InsertAt(list, deaths + 1, SuiteOf[t])
           ELSE Append(list, SuiteOf[t])

test_suites ==
  LET suites[n \in 0 .. Len(Registered)] ==
        IF n = 0 THEN << >> ELSE AddSuite(suites[n - 1], Registered[n])
  IN  suites[Len(Registered)]

(* The elements of a sequence that are members of a set, in their order.   *)
Kept(s, members) ==
  LET kept[n \in 0 .. Len(s)] ==
        IF n = 0 THEN << >>
        ELSE IF s[n] \in members THEN Append(kept[n - 1], s[n]) ELSE kept[n - 1]
  IN  kept[Len(s)]

Without(s, x) == Kept(s, Range(s) \ {x})

TestsOf(s) == Kept(Registered, {t \in Test : SuiteOf[t] = s})

last_death_test_suite == Cardinality(Suite \cap DeathSuites)

Identity(n) == [i \in 1 .. n |-> i]

Unshuffled(s) == Identity(Len(TestsOf(s)))

(* GetMutableSuiteCase and GetMutableTestInfo. *)
SuiteAt(i) == test_suites[suite_indices[i]]
TestAt(s, i) == TestsOf(s)[test_indices[s][i]]

-----------------------------------------------------------------------------
(* FilterTests looks at t before u: suite by suite, in each as they         *)
(* registered.                                                             *)
LooksAtFirst(t, u) ==
  \E i, j \in DOMAIN test_suites :
    /\ test_suites[i] = SuiteOf[t] /\ test_suites[j] = SuiteOf[u]
    /\ \/ i < j
       \/ i = j /\ \E k, l \in DOMAIN Registered :
                     k < l /\ Registered[k] = t /\ Registered[l] = u

Runnable(f) ==
  {t \in f.filter : f.also_run_disabled_tests \/ t \notin Disabled}

(* num_runnable_tests when FilterTests comes to t. *)
IdOf(f, t) == Cardinality({u \in Runnable(f) : LooksAtFirst(u, t)})

ShouldRunTestOnShard(f, id) == id % f.total_shards = f.shard_index

ShouldShard(f) == f.total_shards > 1

ValidShards(f) ==
  \/ f.total_shards = -1 /\ f.shard_index = -1
  \/ f.total_shards # -1 /\ 0 <= f.shard_index /\ f.shard_index < f.total_shards

InAnotherShard(f, t) ==
  ShouldShard(f) /\ ~ShouldRunTestOnShard(f, IdOf(f, t))

FilterTests(f) == {t \in Runnable(f) : ~InAnotherShard(f, t)}

-----------------------------------------------------------------------------
Failed(parts) == parts \cap {"nonfatal", "fatal"} # {}
Skipped(parts) == "skip" \in parts /\ ~Failed(parts)
HasFatalFailure(parts) == "fatal" \in parts

(* UnitTestImpl::Failed: the results of SetUpTestSuite are not looked at. *)
AnyFailed ==
  Failed(ad_hoc) \/ \E t \in should_run : Failed(result[t])

(* The most specific TestResult: current_test_result(). *)
Place ==
  IF current_test_info # None THEN "test"
  ELSE IF current_test_suite # None THEN "suite" ELSE "outside"

(* AddTestPartResult for each part. *)
Report(parts) ==
  /\ result' = IF Place = "test"
                 THEN [result EXCEPT ![current_test_info] = @ \cup parts]
                 ELSE result
  /\ suite_result' = IF Place = "suite"
                       THEN [suite_result EXCEPT
                               ![current_test_suite] = @ \cup parts]
                       ELSE suite_result
  /\ ad_hoc' = IF Place = "outside" THEN ad_hoc \cup parts ELSE ad_hoc
  /\ heard' = IF Failed(parts) THEN heard \cup {Place} ELSE heard

PartsOf(o) ==
  CASE o = "ok" -> {}
    [] o = "nonfatal" -> {"nonfatal"}
    [] o = "skip" -> {"skip"}
    [] o = "failskip" -> {"nonfatal", "skip"}
    [] OTHER -> {"fatal"}

(* No handler inside RUN_ALL_TESTS stops an exception that it does not     *)
(* catch, nor the GoogleTestFailureException of throw_on_failure.          *)
Escapes(o) ==
  \/ o = "throw" /\ ~flags.catch_exceptions
  \/ Failed(PartsOf(o)) /\ flags.throw_on_failure

(* Handlers that wrap one hook, HandleExceptionsInMethodIfSupported.       *)
Call(hook, o, next) ==
  /\ pc = hook
  /\ o \in Outcomes[hook]
  /\ Report(IF o = "throw" /\ ~flags.catch_exceptions THEN {} ELSE PartsOf(o))
  /\ pc' = IF Escapes(o) THEN "terminated" ELSE next
  /\ UNCHANGED <<flags, order, should_run, failed, ended>>

(* The environments are not wrapped one by one: the handler of             *)
(* UnitTest::Run reports what they throw, and the run is over.             *)
CallEnvironment(hook, o, next) ==
  /\ Call(hook, o, IF o = "throw" THEN "done" ELSE next)
  /\ verdict' = IF o = "throw" /\ ~Escapes(o) THEN FALSE ELSE verdict
  /\ UNCHANGED <<position, current>>

-----------------------------------------------------------------------------
Init ==
  /\ flags \in FlagSettings
  /\ pc = "start"
  /\ iteration = 0
  /\ suite_indices = Identity(Len(test_suites))
  /\ test_indices = [s \in Suite |-> Unshuffled(s)]
  /\ suite_pos = 1 /\ test_pos = 1
  /\ should_run = {}
  /\ current_test_suite = None /\ current_test_info = None
  /\ result = [t \in Test |-> {}]
  /\ suite_result = [s \in Suite |-> {}]
  /\ ad_hoc = {}
  /\ failed = FALSE
  /\ verdict = None
  /\ ended = << >> /\ heard = {} /\ standing = << >>

(* RunAllTests up to its loop; inconsistent variables end the process, and *)
(* a listing (ListTestsMatchingFilter of Reports) ends the function.  Three*)
(* things before the loop are left out: the return when help was asked for *)
(* (gtest.cc:5182), the shard status file, with the exit when it cannot be *)
(* written (5192, 5335), and that the child of a death test does not share *)
(* the tests (5208).                                                       *)
StartProgram ==
  /\ pc = "start"
  /\ IF ValidShards(flags)
       THEN /\ should_run' = FilterTests(flags)
            /\ pc' = IF flags.list_tests THEN "done" ELSE "iteration"
            /\ verdict' = IF flags.list_tests THEN TRUE ELSE verdict
       ELSE pc' = "exited" /\ UNCHANGED <<should_run, verdict>>
  /\ UNCHANGED <<flags, position, order, current, results, failed, observed>>

(* ShuffleTests: death test suites stay in front.  The generator is        *)
(* abstracted to any permutation.                                          *)
(* Mutant: an index is drawn for each place, not among those left.         *)
OrdersWithRepeats(n) == [1 .. n -> 1 .. n]

Orders(n) == {p \in [1 .. n -> 1 .. n] : IsInjective(p)}

ShuffleTests ==
  /\ suite_indices' \in
       {p \in Orders(Len(test_suites)) :
          \A i \in DOMAIN p :
            i <= last_death_test_suite <=> p[i] <= last_death_test_suite}
  /\ \E ps \in [Suite -> UNION {Orders(Len(TestsOf(s))) : s \in Suite}] :
       /\ \A s \in Suite : ps[s] \in Orders(Len(TestsOf(s)))
       /\ test_indices' = ps

(* The child of a death test, which is the subject of DeathTests, makes one *)
(* iteration whatever the flag says (gtest.cc:5237); that is left out here. *)
BeginIteration ==
  /\ pc = "iteration" /\ iteration # flags.repeat
  /\ result' = [t \in Test |-> {}]
  /\ suite_result' = [s \in Suite |-> {}]
  /\ ended' = << >>
  /\ IF should_run # {} /\ flags.shuffle THEN ShuffleTests ELSE UNCHANGED order
  /\ pc' = IF should_run = {} THEN "iterationEnd" ELSE "envSetUp"
  /\ suite_pos' = 1
  /\ UNCHANGED <<flags, iteration, test_pos, should_run, current, ad_hoc,
                 failed, verdict, heard, standing>>

SetUpEnvironment(o) ==
  LET n == Len(standing) + 1
  IN  /\ n <= Len(Environments)
      /\ CallEnvironment("envSetUp", o, "envSetUp")
      /\ standing' = IF o = "throw" THEN standing
                     ELSE Append(standing, Environments[n])

EnvironmentsReady ==
  /\ pc = "envSetUp" /\ Len(standing) = Len(Environments)
  /\ pc' = IF HasFatalFailure(ad_hoc) THEN "envTearDown" ELSE "suite"
  /\ UNCHANGED <<flags, position, order, should_run, current, results, failed,
                 verdict, observed>>

(* Mutant: a suite without tests to run is not stepped over. *)
BeginSuiteNoSkip ==
  /\ pc = "suite" /\ suite_pos <= Len(test_suites)
  /\ IF \E t \in should_run : SuiteOf[t] = SuiteAt(suite_pos)
       THEN current_test_suite' = SuiteAt(suite_pos) /\ pc' = "suiteSetUp"
       ELSE UNCHANGED <<pc, current_test_suite>>
  /\ UNCHANGED <<flags, position, order, should_run,
                 current_test_info, results, failed, verdict, observed>>

(* The head of TestSuite::Run. *)
BeginSuite ==
  /\ pc = "suite" /\ suite_pos <= Len(test_suites)
  /\ IF \E t \in should_run : SuiteOf[t] = SuiteAt(suite_pos)
       THEN /\ current_test_suite' = SuiteAt(suite_pos)
            /\ pc' = "suiteSetUp"
            /\ UNCHANGED suite_pos
       ELSE suite_pos' = suite_pos + 1 /\ UNCHANGED <<pc, current_test_suite>>
  /\ UNCHANGED <<flags, iteration, test_pos, order, should_run,
                 current_test_info, results, failed, verdict, observed>>

SetUpTestSuite(o) ==
  /\ Call("suiteSetUp", o, "test")
  /\ test_pos' = 1
  /\ standing' = Append(standing, current_test_suite)
  /\ UNCHANGED <<iteration, suite_pos, current, verdict>>

(* The head of TestInfo::Run, or the end of the loop over the tests. *)
BeginTest ==
  /\ pc = "test"
  /\ IF test_pos > Len(TestsOf(current_test_suite))
       THEN pc' = "suiteTearDown" /\ UNCHANGED <<test_pos, current_test_info>>
       ELSE IF TestAt(current_test_suite, test_pos) \in should_run
            THEN /\ current_test_info' = TestAt(current_test_suite, test_pos)
                 /\ pc' = "construct"
                 /\ UNCHANGED test_pos
            ELSE test_pos' = test_pos + 1 /\ UNCHANGED <<pc, current_test_info>>
  /\ UNCHANGED <<flags, iteration, suite_pos, order, should_run,
                 current_test_suite, results, failed, verdict, observed>>

Stopped(parts) == HasFatalFailure(parts) \/ Skipped(parts)

HasSameFixtureClass(t) == FixtureOf[t] = FixtureOf[TestsOf(SuiteOf[t])[1]]

(* CreateTest, and what TestInfo::Run and the head of Test::Run decide on  *)
(* its outcome; after an exception there is no object to destroy.          *)
Construct(o) ==
  LET parts == result[current_test_info] \cup PartsOf(o)
  IN  /\ pc = "construct"
      /\ IF o = "throw" THEN Call("construct", o, "testEnd")
         ELSE IF Stopped(parts) THEN Call("construct", o, "destroy")
         ELSE IF HasSameFixtureClass(current_test_info)
         THEN Call("construct", o, "setUp")
         ELSE Call("construct", o, "wrongFixture")
      /\ standing' = IF o = "throw" THEN standing
                     ELSE Append(standing, "object")
      /\ UNCHANGED <<position, current, verdict>>

(* The ADD_FAILURE of HasSameFixtureClass: no handler surrounds it. *)
WrongFixture ==
  /\ pc = "wrongFixture"
  /\ Report({"nonfatal"})
  /\ pc' = IF flags.throw_on_failure THEN "terminated" ELSE "destroy"
  /\ UNCHANGED <<flags, position, order, should_run, current, failed, verdict,
                 ended, standing>>

(* Mutant: TearDown is left out if SetUp stopped the test. *)
SetUpNoTearDown(o) ==
  /\ pc = "setUp"
  /\ Call("setUp", o, IF Stopped(result[current_test_info] \cup PartsOf(o))
                        THEN "destroy" ELSE "body")
  /\ standing' = Append(standing, "fixture")
  /\ UNCHANGED <<position, current, verdict>>

SetUp(o) ==
  /\ pc = "setUp"
  /\ Call("setUp", o, IF Stopped(result[current_test_info] \cup PartsOf(o))
                        THEN "tearDown" ELSE "body")
  /\ standing' = Append(standing, "fixture")
  /\ UNCHANGED <<position, current, verdict>>

TestBody(o) ==
  /\ Call("body", o, "tearDown")
  /\ UNCHANGED <<position, current, verdict, standing>>

TearDown(o) ==
  /\ Call("tearDown", o, "destroy")
  /\ standing' = Without(standing, "fixture")
  /\ UNCHANGED <<position, current, verdict>>

Destroy(o) ==
  /\ Call("destroy", o, "testEnd")
  /\ standing' = Without(standing, "object")
  /\ UNCHANGED <<position, current, verdict>>

EndTest ==
  /\ pc = "testEnd"
  /\ ended' = Append(ended, current_test_info)
  /\ current_test_info' = None
  /\ test_pos' = test_pos + 1
  /\ pc' = "test"
  /\ UNCHANGED <<flags, iteration, suite_pos, order, should_run,
                 current_test_suite, results, failed, verdict, heard, standing>>

(* RunTearDownTestSuite and the end of TestSuite::Run. *)
TearDownTestSuite(o) ==
  /\ Call("suiteTearDown", o, "suite")
  /\ standing' = Without(standing, current_test_suite)
  /\ suite_pos' = suite_pos + 1
  /\ IF Escapes(o) THEN UNCHANGED current
     ELSE current_test_suite' = None /\ UNCHANGED current_test_info
  /\ UNCHANGED <<iteration, test_pos, verdict>>

SuitesDone ==
  /\ pc = "suite" /\ suite_pos > Len(test_suites)
  /\ pc' = "envTearDown"
  /\ UNCHANGED <<flags, position, order, should_run, current, results, failed,
                 verdict, observed>>

(* Mutant: from begin() to end(). *)
TearDownEnvironmentForward(o) ==
  LET left == {i \in DOMAIN Environments : Environments[i] \in Range(standing)}
      n == CHOOSE i \in left : \A j \in left : i <= j
  IN  /\ left # {}
      /\ CallEnvironment("envTearDown", o, "envTearDown")
      /\ standing' = Without(standing, Environments[n])

(* From rbegin() to rend(). *)
TearDownEnvironment(o) ==
  LET left == {i \in DOMAIN Environments : Environments[i] \in Range(standing)}
      n == CHOOSE i \in left : \A j \in left : j <= i
  IN  /\ left # {}
      /\ CallEnvironment("envTearDown", o, "envTearDown")
      /\ standing' = Without(standing, Environments[n])

EnvironmentsDone ==
  /\ pc = "envTearDown" /\ Range(standing) \cap Environment = {}
  /\ pc' = "iterationEnd"
  /\ UNCHANGED <<flags, position, order, should_run, current, results, failed,
                 verdict, observed>>

(* Mutant: the verdict on the last iteration only. *)
EndIterationLast ==
  /\ pc = "iterationEnd"
  /\ failed' = AnyFailed
  /\ suite_indices' = Identity(Len(test_suites))
  /\ test_indices' = [s \in Suite |-> Unshuffled(s)]
  /\ iteration' = iteration + 1
  /\ pc' = "iteration"
  /\ UNCHANGED <<flags, suite_pos, test_pos, should_run, current, results,
                 verdict, observed>>

(* From OnTestIterationEnd: the verdict on the iteration, UnshuffleTests. *)
EndIteration ==
  /\ pc = "iterationEnd"
  /\ failed' = (failed \/ AnyFailed)
  /\ suite_indices' = Identity(Len(test_suites))
  /\ test_indices' = [s \in Suite |-> Unshuffled(s)]
  /\ iteration' = iteration + 1
  /\ pc' = "iteration"
  /\ UNCHANGED <<flags, suite_pos, test_pos, should_run, current, results,
                 verdict, observed>>

(* return !failed; main ignores it and reads the input. *)
Return ==
  /\ pc = "iteration" /\ iteration = flags.repeat
  /\ verdict' = ~failed
  /\ pc' = "done"
  /\ UNCHANGED <<flags, position, order, should_run, current, results, failed,
                 observed>>

RunHook ==
  \E o \in Outcome :
    \/ SetUpEnvironment(o) \/ TearDownEnvironment(o)
    \/ SetUpTestSuite(o) \/ TearDownTestSuite(o)
    \/ Construct(o) \/ SetUp(o) \/ TestBody(o) \/ TearDown(o) \/ Destroy(o)

Next ==
  \/ StartProgram \/ BeginIteration \/ EnvironmentsReady \/ BeginSuite
  \/ BeginTest \/ RunHook \/ WrongFixture \/ EndTest \/ SuitesDone
  \/ EnvironmentsDone \/ EndIteration \/ Return

(* User code returns or throws; a run that may repeat for ever (a negative *)
(* repeat) is not among FlagSettings.                                      *)
Spec == Init /\ [][Next]_vars /\ WF_vars(Next)
-----------------------------------------------------------------------------
(* The type invariant of the runner. *)
TypeOK ==
  /\ flags \in FlagSettings
  /\ pc \in Hook \cup {"start", "iteration", "suite", "test", "wrongFixture",
                      "testEnd", "iterationEnd", "done", "exited",
                      "terminated"}
  /\ iteration \in 0 .. flags.repeat
  /\ suite_indices \in Orders(Len(test_suites))
  /\ \A s \in Suite : test_indices[s] \in Orders(Len(TestsOf(s)))
  /\ suite_pos \in 1 .. Len(test_suites) + 1
  /\ test_pos \in 1 .. Len(Registered) + 1
  /\ should_run \subseteq Test
  /\ current_test_suite \in Suite \cup {None}
  /\ current_test_info \in Test \cup {None}
  /\ result \in [Test -> SUBSET Part]
  /\ suite_result \in [Suite -> SUBSET Part]
  /\ ad_hoc \subseteq Part
  /\ failed \in BOOLEAN /\ verdict \in BOOLEAN \cup {None}
  /\ ended \in Seq(Test)
  /\ heard \subseteq {"test", "suite", "outside"}
  /\ standing \in Seq(Environment \cup Suite \cup {"object", "fixture"})

(* RUN_ALL_TESTS returns success iff no test and no environment failed in  *)
(* any iteration, although the results of the tests are cleared at the     *)
(* start of each (gtest.cc:5238, :5280).                                   *)
VerdictCoversAllIterations ==
  pc = "done" => (verdict <=> heard \cap {"test", "outside"} = {})

(* An iteration runs each selected test exactly once, in whatever order,   *)
(* or none at all because an environment failed fatally, in this iteration *)
(* or an earlier one (gtest.cc:5266, :2820).  The processes that share the *)
(* work by GTEST_TOTAL_SHARDS select each runnable test exactly once       *)
(* between them, and report each test that matches the filter exactly once *)
(* (gtest.cc:5431).                                                        *)
SelectedTestsRunOnce ==
  LET Peer(k) == [flags EXCEPT !.shard_index = k]
      shards == 0 .. flags.total_shards - 1
  IN  /\ pc = "iterationEnd" =>
           \/ IsInjective(ended) /\ Range(ended) = should_run
           \/ ended = << >> /\ HasFatalFailure(ad_hoc)
      /\ pc = "iteration" /\ ShouldShard(flags) =>
           /\ \A t \in flags.filter :
                Cardinality({k \in shards : ~InAnotherShard(Peer(k), t)}) = 1
           /\ should_run = Runnable(flags) \
                UNION {FilterTests(Peer(k)) : k \in shards \ {flags.shard_index}}

(* A test body runs with every environment, its suite, its object and its  *)
(* fixture set up, and nothing stays set up from one iteration to the      *)
(* next, whatever failed or was skipped in between.                        *)
FixturesComplete ==
  /\ pc = "body" =>
       standing = Environments \o <<current_test_suite, "object", "fixture">>
  /\ pc = "iteration" => standing = << >>

(* Whatever is torn down is the last that was set up: environments in      *)
(* reverse order (gtest.cc:4714), the suite before them, the fixture       *)
(* before its object.                                                      *)
TornDownInReverse ==
  [][Len(standing') < Len(standing) => standing' = Front(standing)]_vars

(* RUN_ALL_TESTS comes to an end, or the process does. *)
Returns == <>(pc \in {"done", "exited", "terminated"})
=============================================================================
