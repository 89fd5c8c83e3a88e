# TLA+ specifications of DriverApp, the boxing kata and googletest

The repository holds three programs:

* **DriverApp** (C++, `DriverApp/`) reads a file of `Driver` and `Trip` commands into a map
  of drivers and prints a report of miles and speeds.
* The **boxing kata** (Ruby, `lib/boxing/kata/`) imports a family's brush preferences from
  a CSV file and packs starter boxes and refill boxes for it.
* **googletest and googlemock** (C++, `googletest-master/`), the test framework at a commit
  after 1.10. `DriverApp.vcxproj:125` compiles `gtest-all.cc` into DriverApp, and
  `main.cpp:7-8` runs all tests before it reads the input, so that the framework is by far the
  largest part of the program. googlemock lies beside it and is not compiled in.

The first two are sequential. What is hard in them is *state that is carried on*: variables
that outlive the line or the loop iteration that set them, totals that are summed while only
single trips are tested, counts and boxes that run over from one colour to the next, a flag
kept in the wrong object, exceptions half-way through a loop. The framework adds threads with
a hand-made mutex, processes that die and pipes that must be closed in the right order,
callbacks from actions into the mocks that call them, user code that throws anywhere, and many
small algorithms over texts where one character too many or too few goes unnoticed.

Names such as `gtest.cc` mean the file of that name under `googletest-master/`.

## Inventory

| part | state | operations | interacts with |
|---|---|---|---|
| class `Driver`, database (`DriverApp.cpp:48-108`) | `driverDatabase`: name -> minutes, miles | `RegisterDriver`, `AddTrip`, `GenerateReport` | called by `ReadFile`, `main` and the tests |
| class `Driver`, arithmetic (`:110-141`) | none | times, lengths, speeds, the limits | called by the database |
| `ReadFile` and `main` | the file, `line`, `value`, `driverName` | one line per iteration; open; end of file | calls the database once per line |
| class `Family` | preferences, id, contract date | `load_family_preferences`, `get_brush_preferences`, getters | read by `BoxScheduler` |
| class `BoxScheduler` | `@has_starter_box_shipped`; in a call the Hash of preferences, the open box, the text | `ship_starter_box`, `ship_refill_boxes` | is handed a `Family`, counts its Hash down |
| `Boxing::Kata.report` | one family, one scheduler | load, starter boxes, refills, once each | calls both classes |
| test runner (`UnitTestImpl::RunAllTests`) | suites, their order, results, `should_run_`, the verdict | filter, shard, shuffle, set up, run, tear down, repeat | calls the hooks of tests and the listeners |
| reports (`XmlUnitTestResultPrinter`, `JsonUnitTestResultPrinter`) | none of their own | one file per iteration; listings | read the results of the runner |
| reporting of results (`TestPartResultReporter`) | a reporter per thread, a global one, traces, properties | report, intercept, restore | called by every assertion, of any thread |
| listeners (`TestEventListeners`) | the list, two default listeners, whether events are forwarded | append, release, set, suppress; each event | owned by the runner; the console and a socket hear through it |
| mutexes and thread-local values (`gtest-port.cc:340-698`) | a lazily made critical section; thread -> values | lock, get, destroy; a watcher per thread | used by all of googletest |
| death tests (`gtest-death-test.cc`) | handles, a pipe, the outcome | `AssumeRole`, `Wait`, `Passed`, `Abort` | two processes and the runner |
| registration of parameterized and typed tests | registries of suites and instances; lists of names and of templates | macros of any files, in any order; `InitGoogleTest` | feed the runner with tests |
| flags | the flags, argv, the environment, a file | parse, save, restore | read by all |
| path names, captured streams | a file system; two captures | make folders and names; capture, get | reports and tests |
| assertions, printing, encodings, diffs, filters, expressions, numbers | none | pure functions | one another |
| expectations and mock calls (`gmock-spec-builders`) | expectations with counts, sequences, retirement; the mutex | declare, call, verify, delete | actions call back into mocks |
| statements, cardinalities, registry of mocks | the clause that was last; address -> mockers, reactions | clauses; allow leak, react, unregister | feed the expectations |
| actions and default values | what is copied at which time | write, convert, perform | called by mock calls outside the lock |
| matchers | none | decide, describe, describe the negation | called by expectations and assertions |

What makes each part correct:

* *database*: a record changes only by an accepted trip; time and miles move together; the
  totals of any number of admissible trips are themselves within the limits, so that the
  report never divides by zero; re-registration harms nothing.
* *reader*: the database after any prefix of a file without cut trips is the ledger that the
  problem statement describes, also when a later line stops the program; a line acts on no
  other line's driver.
* *family*: a reload replaces the preferences and nothing else.
* *scheduler*: one head per member at every iteration; boxes no fuller than allowed and full
  except the last; kits, weight and mail class that fit the contents; a request brings
  everything or nothing, and refills only after the family's starter boxes.
* *report*: it reaches its end, with a head for every member.
* *test runner*: the verdict covers every iteration and every hook; a selected test runs once
  per iteration, on one shard; what was set up is torn down, in reverse; it returns.
* *reports, console, stream*: they tell what happened, once, with sums that add up and texts
  that read back.
* *results*: a failure reaches the reporter that is in force where it happens, or the result
  of what is running; none is lost or counted twice.
* *threads*: mutual exclusion from the first use on; a value belongs to one thread and is
  destroyed once; exited threads leave nothing behind.
* *death tests*: the parent concludes what happened to the child it started, from the child's
  own statement, and does not wait for ever.
* *registration*: exactly the product of tests, instances and parameters, in order, or a
  program that stops with a reason.
* *mocks*: an expectation is taken only when its prerequisites are satisfied, each action once,
  verification is exact, every call returns.
* *pure functions*: each against a definition of what it is to compute.

The hard-to-test spots of the code are the `hazards` of `PROJECT.json`, each at its line.

## Modules

```
TripRules -- DriverDatabase -- MCDriverDatabase
    |             |      \---- DriverDatabaseProofs
    |             | INSTANCE        | INSTANCE
    \-------- DriverApp ------- MCDriverApp
                  \------------ DriverAppProofs

Families -- BoxScheduler -- MCBoxScheduler (INSTANCE ShippingPromise, abstract) -\
                \---------- BoxingKata ------------------------------- BoxSchedulerProofs
                                \---- MCBoxingKata

TestRunner -- Reports -- MCTestRunner
TestRunner, ResultReporting, Reports -- TestRunnerProofs
ThreadLocals -- ThreadLocalsProofs
DeathTests -- MCDeathTests
DeathTests, Searches (on SimpleRegexes) -- DeathTestsProofs
Mocks -- MCMocks
Mocks, MockRegistry -- MocksProofs
Inductions -- DriverAppProofs, TestRunnerProofs, DeathTestsProofs, MocksProofs

Searches (on SimpleRegexes), Diffs, Matchings, Encodings, CommandLines, FilePaths, ParamTests,
TypedTests, Listeners, ResultReporting, Assertions (on Encodings, Diffs), Printing,
Matchers (on Matchings, SimpleRegexes), Clauses, MockRegistry, Actions -- MCInputs
                                                         all of them -- MCAlgorithms
```

The two applications:

* **TripRules**: the arithmetic of class `Driver`. A field of the input is an opaque string;
  the tables `Hours` and `Minutes` say what `atoi` reads in it. Distances are whole tenths of
  a mile. A speed is an exact quotient with denominator >= 0; denominator 0 stands for +inf,
  -inf or NaN by the sign of the numerator, and `Above` and `Below` compare as IEEE 754 does.
  `CastToInt` of such a value is undefined behaviour and gives `IndeterminateInt`.
* **DriverDatabase**: `driverDatabase` with one action per public operation. `result` is the
  message of the last call; `report` the last report as a function from names to lines.
  Callers submit any trips of the constant `Trip`.
* **DriverApp**: `main` and `ReadFile`. A line is the sequence of strings between its spaces.
  Each `getline` of the file is an action with any line of `Line` or the end of the file;
  `NameAfterDriver`, `NameAfterTrip`, `StartTime`, `StopTime` and `MilesText` say what is left
  in `driverName` and `value` when a `getline` finds the line exhausted. `stod` throws where
  the table `Stod` says `NotANumber`; the program is then `"terminated"`. Every line calls the
  actions of DriverDatabase through `INSTANCE`.
* **Families**: the four variables of all `Family` objects. `Load` is a whole
  `load_family_preferences`; `Tally` is the Hash of counts in insertion order.
* **BoxScheduler**: one scheduler, any number of families. A call starts (`ShipStarterBox`,
  `ShipRefillBoxes`), runs one iteration of its `while` loop per `Pack` step,
  `NextPreference` for the `each`, and ends by `Return` or `Raise`. Both operations share these
  actions; `Portion`, `Capacity`, `Closed` hold what differs.
* **ShippingPromise**: the abstract specification, from the user stories: an import, a
  request, and an answer that is either the fewest boxes that serve a complete family or none;
  refills are for families that were sent a starter box. MCBoxScheduler, which remembers who
  was sent one, maps the scheduler to it (`Promise`).
* **BoxingKata**: `report`, composing the actions of BoxScheduler with a program counter.

The machines of googletest and googlemock:

* **TestRunner**: `RUN_ALL_TESTS`. A program counter walks through `RunAllTests`,
  `TestSuite::Run` and `TestInfo::Run`, one hook of the user per step (`environments`,
  `SetUpTestSuite`, constructor, `SetUp`, body, `TearDown`, destructor); a hook passes, fails,
  skips or throws by the constant `Outcomes`, and `catch_exceptions` and `throw_on_failure`
  decide what an exception does. Filter, disabled tests, shards, shuffling (any permutation,
  death test suites in front) and repetition are as in the code.
* **Reports**: the summary, the XML and JSON files and the listings as functions of the
  runner's state: XML as a tree, JSON as tokens, because its commas are placed by hand.
* **ThreadLocals**: one step per instruction of the lazy mutex (`phase` is
  `critical_section_init_phase_`), the registry from thread IDs to values, the watcher thread
  of each thread, IDs that the system gives out again, and objects that are destroyed
  meanwhile.
* **DeathTests**: parent and child of Windows (`CreateProcess`, an event, an inherited
  handle) and of the two POSIX styles (`fork`, `exec`, a pipe). The child may die at any step
  and may come to other statements than the parent.
* **Mocks**: threads that call mock functions, a step per critical section of `g_gmock_mutex`
  and per thing done outside of it; declarations, actions that throw or that verify and clear,
  expectations that own other mocks, the end of the test.
* **ResultReporting**: threads that report failures and open scopes of
  `EXPECT_FATAL_FAILURE` and `HasFatalFailure` kind, on one thread or all; `frames` are the
  open scopes, `test_part_results` what reached the result of the running test, suite or
  program. MCAlgorithms runs it beside its other tasks.
* **MockRegistry**: which mock objects are nice, naggy or strict and which may leak, all by
  address. `objects` is the life of the object at each address (none, in the constructor of the
  class being mocked, alive, in the destructor of the strictness class, its mockers being
  destroyed one by one), `g_uninteresting_call_reaction` and `g_mock_object_registry` are the two
  maps, and a statement is two critical sections with other threads between. An address is
  used again by the next object. MCAlgorithms runs this one too.

The algorithms. Each is a set of operators from an input to what the code makes of it; a
`FoldLeft` over the input stands for a loop. Where the code keeps state over a sequence of
calls (listeners, registries, flags, captured streams, actions, views), the state is a record
and one operator is one call.

* **SimpleRegexes**: the engine used on Windows, with its classes of characters; an expression
  and a text are sequences of characters, a pointer into one is an index. **Searches**: the
  flag `--gtest_filter`, the `RE` object and the answer of the last call, a machine whose actions
  are `FilterMatchesTest`, `RE::Init`, `FullMatch` and `PartialMatch`. The recursions over two
  texts (`PatternMatchesString`, `MatchRegexAtHead`) are tables of answers, with an entry for each
  pair of places.
* **Diffs** (Wagner-Fischer, hunks), **Encodings** (UTF-16 to UTF-8, C++ literals, XML, CDATA,
  JSON), **Matchings** (maximum bipartite matching by augmenting paths).
* **CommandLines**: environment, command line, flag file, compaction of argv, `GTestFlagSaver`
  and the flags of googlemock. **FilePaths**: Windows path names, folders, the name of the
  report, captured stdout and stderr with the buffers of C streams.
* **ParamTests**: iterators of `Range`, `ValuesIn` and `Combine`, the registry of
  suites declared in any order, the names, `GetParam`. **TypedTests**: the macros of typed and
  type-parameterized tests over the lists of types and the text of their arguments.
* **Listeners**: ownership and order of the list, the stream to a server, the lines of the
  console from `RUN` to the summary, and its colours.
* **Assertions**: what `EXPECT_EQ` to `EXPECT_GT` on integers of any two types, `EXPECT_STREQ`
  and its kin, substrings, `EXPECT_NEAR`, Boolean results, predicates, `EXPECT_THROW` and
  `EXPECT_HRESULT_...` decide and claim; `AlmostEquals` on bit patterns of any width.
  **Printing**: how values of nested types are printed.
* **Matchers**: the functions that make matchers, and for each class its decision
  (`MatchAndExplain`), its description and that of its negation, as what they say and not as
  text; `EXPECT_THAT`.
* **Clauses**: clauses of `EXPECT_CALL` and `ON_CALL` in any order, the inferred
  cardinality, cardinalities, sequences and `InSequence`. **Actions**: what every action copies
  when it is written, converted and performed, and views of native arrays.

**MC...** modules hold values for the constants, inputs and history variables for TLC;
**...Proofs** hold the theorems, and **Inductions** the induction they use. An operator
whose comment begins with "Mutant:" is not part of a model: it is a faulty variant of the
definition after it, and `PROJECT.json` names the property that it breaks.

## Runs

| run | shows | bounds |
|---|---|---|
| `DriverForward` | `AveragesWithinLimits` for trips that end after they start | 2 drivers, 7 trips at 5.0, 5.1, 99.9, 100.0 mph and well inside and outside, 6 calls |
| `DriverAny` | `KnownDriversKeepTheirTotals`, `TimeAndMilesMoveTogether` for trips of zero and negative length and distance | 2 drivers, 9 trips (each sign of length with each sign of distance), 5 calls |
| `AppFiles` | `LedgerCorrect`, `SpacedNamesStayAtZero` | 14 lines, with trips inside, outside and at the limits, cut ones and one without a name; files of up to 4 lines |
| `BoxFiles` | `NoHeadLostOrAdded`, `BoxesTruthful`, `RefillsFollowTheStarterDate`; the scheduler keeps the promise (`KeepsPromise`, a refinement) but for refills that another call's flag lets through | 2 families, 8 files, calls in any order without limit |
| `KataReport` | `ReportEndsWithRefills`, `ReportEnds` | 7 fixtures x 8 inputs |
| `TestRun` | `VerdictCoversAllIterations`, `SelectedTestsRunOnce`, `FixturesComplete`, `ReportsTellTheRun`, `TornDownInReverse`, `Returns` | 2 environments, 5 tests in 3 suites, 14 settings of the flags, up to 4 outcomes per hook |
| `ThreadLocals` | `MutexExcludes`, `ValuesHaveOneOwner`, `ExitedThreadsLeaveNothing` | 3 threads, 2 IDs, one thread-local address used twice, 2 calls each |
| `MockCalls` | `SequencesRespected`, `EachActionOnce`, `ErrorsAreReported`, `CallsReturn` | 2 threads, actions that throw and that clear, 2 mocks with 3 methods, 5 expectations in 2 sequences, 5 calls |
| `DeathTest` | `HandlesOutliveStartup`, `RunsItsOwnStatement`, `OutcomeIsWhatHappened`, `EveryDeathTestConcludes` | a body of 5 death tests at 2 places, 4 bodies of children, every style |
| `Algorithms` | one property per group of algorithms, below | below |
| `AppMiles`, `BoxOtherFamily` | a violation each, below | 3 lines; the 2 fixtures of the specs |

Bounds of the machines. Trips matter only by the side of each limit they are on, and a call
touches one driver, so two drivers, trips on both sides and a few calls show every combination
(the theorems cover all others). In a file, a line depends on earlier ones only through the
database and `driverName`; four lines are a registration, two trips or a spoilt line between,
and a second registration. The files of the scheduler run hold 0 to 7 members in up to
three colours: 7 of one colour exercise every branch of both loops, 5 and 4 are the two
fixtures of the specs, and the rest lack a colour, a date or a parsable date; between calls its
state is finite. In the runner, suites touch one another only through the verdict, the order
and the environments, so three suites (one with two fixture classes, one of death tests with a
disabled test) with two iterations and up to three shards show every interplay. Three threads
are a user, a dying one and its successor under the same ID. Five expectations hold each shape
of dependency (sequence, `After`, retirement, ownership) once. The bodies of death tests hold
each way a statement may end, and the children's come to the same, fewer or other ones.

`Algorithms` has a behaviour of one step for each input, about two million states:

| property | inputs |
|---|---|
| `PatternsFindTheirWords` | filters up to 4 and names up to 3 characters; expressions up to 4 and texts up to 3 |
| `EncodedTextsReadBack` | up to 3 units at each border of UTF-16, up to 4 bytes at each border of UTF-8, up to 3 characters of 18 kinds, CDATA up to 7; 4 steps of two captured streams |
| `ComparisonsDecideAndShow` | texts up to 3 lines of 3 kinds, and 7 lines with any of them replaced or missing; all pairs of 64-bit-pattern stand-ins with 8 exponents and 4 fractions; nested types; C strings; all pairs of integers of 2, 3 and 4 bits, signed and unsigned; all results of 8 bits |
| `FlagsAreTaken` | command lines with flag files, environments and nulls; courses of a flag saver; outputs with paths up to 5 |
| `ParametersAllRegistered` | every walk of 4 steps with two iterators, declarations of up to 4 macros, instances with names of each kind, macros of typed tests |
| `ListenersTellWhatHappened` | up to 4 steps with 5 listeners; events with each escaped character over two addresses; iterations of up to 3 tests in 2 suites with each outcome; 256 colours |
| `MatchersDoAsTheySay` | each matcher, and compositions two deep; all graphs of up to 3 x 3, and the count through them |
| `StatementsMeanTheirClauses` | every sequence of up to 4 clauses, of 3 of `ON_CALL`, of 5 statements and scopes |
| `RegistryKnowsTheLiving` | two addresses, objects of each kind with up to two methods, 3 statements, 2 of them under way, in every order |
| `ActionsKeepTheirValues` | each action, alone and in `DoAll`, `WithArgs` and `IgnoreResult`, over 4 steps; default values; 4 steps with views of arrays of one and two dimensions |
| `FailuresReachTheirResult` | 2 threads, scopes 2 deep, 4 actions, in every order |

A bound is one more than what makes a difference: a pattern with a star between two characters
needs 3, with a negative part 4; an escape runs into the next character but no further; four
lines separate two hunks at a context of one and the seven-line texts do at two; an augmenting
path that gives up two matches needs three elements.

Two runs are expected to find a violation: each checks a statement of the documents that the
code does not keep (`findings` in `PROJECT.json`).

| run | the documents say | the code |
|---|---|---|
| `AppMiles` | the distance is the fifth field | a cut `Trip` line counts its stop time's hour as miles |
| `BoxOtherFamily` | refills need the family's own starter boxes | any family's starter boxes will do |

### Further differences

Seen while modelling, without a run of their own. In the applications:

* Trips at exactly 5 and 100 mph are discarded (`Problem Statement:16`, `DriverApp.cpp:135`), so
  `LedgerCorrect` claims no sums of a driver who makes one; the report is sorted by name, not by miles (`:18`, `:97`); it truncates and does not round;
  `Driver_t::trips` is never filled; a `Driver` line without a name registers the name of an
  earlier line, also of a `Trip` line whose driver was never registered, or no name at all
  (`DriverApp.cpp:16`): `LedgerCorrect` claims nothing of such a driver.
* The refusal of refills is worded otherwise (`README.md:161`, `box_scheduler.rb:62`); the date
  is the first of any row, not the primary insured member's (`README.md:169`, `family.rb:27`);
  `report` ignores the input it reads (`DevelopmentNotes.txt:1-4` says so).
* A family with an empty file is answered with an empty text and no box, and sets
  `@has_starter_box_shipped` all the same (`box_scheduler.rb:53`): refills are then packed for
  families without a starter box, as after the starter boxes of another family
  (`README.md:161`). `KeepsPromise` leaves these requests out.

In the runner and its reports:

* Failures of `SetUpTestSuite` do not make the verdict false (`gtest.h:1351` counts tests);
  on the console they are printed but get no line in the summary.
* Reports list suites as registered but tests as shuffled (`gtest-internal-inl.h:588-589`).
  After a fatal failure of an environment no test runs, and the reports still list the selected
  tests as run and the console counts them as passed (`gtest.cc:3308`).
* `--gtest_list_tests` prints the tests of all shards but its file holds this shard's only,
  with a total of all registered tests (`gtest.cc:3893`, `4279`). A report is overwritten by the
  next iteration. `RecordProperty("result")` is allowed and makes a JSON object with that key
  twice (`gtest.cc:2118-2122`).
* A `SUCCEED()` inside `EXPECT_FATAL_FAILURE` counts as a part, so "exactly one" fails
  (`gtest.cc:666`); `EXPECT_FATAL_FAILURE_ON_ALL_THREADS` inside a scope of one thread does not
  get that thread's failures (`gtest-spi.h:62`).
* A streaming server that cannot be reached is a warning in `MakeConnection`
  (`gtest.cc:4353`, `4375`), after which the constructor aborts the program; IPv6 addresses
  cannot be given, for the flag is split at the first colon (`gtest.cc:5039`); names of tests are
  not encoded in the stream.
* `GTestFlagSaver` saves "all Google Test flags" (`gtest-internal-inl.h:154`) but not
  `show_internal_stack_frames`, `install_failure_signal_handler`, `flagfile` or googlemock's;
  `FlagsAreTaken` is about the flags it has a field for.
* `GetParam()` in a `TEST_F` is refused only if no test with a parameter of that fixture ran
  before (`gtest.h:1852`); `ParametersAllRegistered` claims nothing of the others. A parameterized suite without an instance registers nothing.
  `REGISTER_TYPED_TEST_SUITE_P` without tests aborts.
* `ParseInt32` refuses the extreme values on Windows and takes an empty value for 0;
  `GTEST_SHUFFLE=false` in the environment is true, `--gtest_shuffle=false` is false;
  `--gmock_default_mock_behavior` without a value means 0; flags of googlemock in a flag file
  are not taken. `--gtest_output=xml:\a` is written into the working directory on Windows.

In texts and comparisons:

* `EXPECT_LT(-1, 1u)` fails and says "-1 vs 1". `EXPECT_NEAR(inf, inf, e)` fails.
  `IsSubstring(nullptr, "x(null)")` fails with a message that reads as untrue.
* Replacing costs a little more than one edit, so c,a,c becomes a,c,a by three replacements
  instead of two edits. A context of 0 makes an empty diff.
* An expression that ends in `\$` is taken for anchored (`gtest-port.cc:998-1007`). A null
  character before a digit prints as `\0` and the digit. XML drops bytes from 0x80 on, JSON
  turns them into `\u00XX`.
* The negated descriptions of `Optional`, `Field` and `Property` speak of a value that is not
  there when there is none; `AllOfArray({})` and its negation are both described as "()".

In death tests and googlemock:

* A child that dies outside of its statement still counts as having died
  (`gtest-death-test.cc:271`); the event is a manual-reset one (`:752`); a child that cannot
  change its directory looks like one whose statement aborted (`:279-283`).
* An excessive call is reported with the place of an expectation that its action may have
  deleted (`gmock-spec-builders.cc:453`, `471`): the run keeps the clearing action off such calls.
* A mock whose leak is allowed and that is never used leaves its entry in the registry, and a
  later object at its address may leak unreported (`gmock-spec-builders.cc:803-818`), although
  an object is removed in its destructor by the comment at `:581`: `RegistryKnowsTheLiving`
  claims that what is reported was leaked, and the converse only without such a predecessor.
* A call beyond the upper bound of its expectation, or that no expectation takes, or an
  uninteresting one of a strict mock, is not reported if its action throws: `UntypedInvokeWith`
  and its kin report after the action has returned (`gmock-spec-builders.cc:415-420`, `459-472`),
  and the verification takes an exceeded bound as reported when it occurred (`:512-515`).
  `ErrorsAreReported` claims nothing of such a call.
* `Return(ByMove(x))` given to two statements may be performed for each, and has no value left the
  second time: the assertion that it is performed once guards each conversion alone
  (`gmock-actions.h:576-605`). `ActionsKeepTheirValues` claims that the value is not handed out
  twice.

## Fairness

`KeepsPromise` needs none. `ReportEnds` assumes that `report` runs on, except that `gets` on a
terminal may wait for ever. `BoxScheduler` states weak fairness of `Continue`, the steps inside a
call: once called, Ruby runs on; nothing is assumed about the manager. `Returns` assumes that a
test program that can take a step takes one, hence that user code ends: `RunAllTests` is
sequential. `EveryDeathTestConcludes` assumes that of each of the two processes, for the system
schedules both and a dead child's handles are closed; a statement that never ends is not among
the ways a statement may end. `CallsReturn` assumes weak fairness for each thread: inside a call
of a mock it runs on unless it waits for the mutex, which is granted in the step that takes it.
`ExitedThreadsLeaveNothing` assumes it for each step of each process and that a waiting watcher
wakes after its thread has ended (`WaitForSingleObject`); threads need not exit.
Nothing else is assumed, and the safety properties hold without fairness.

## What is proved

TLAPS proves for all values of the constants, and hence for any number of threads, tests,
families, lines and calls:

| module | theorem | of the property |
|---|---|---|
| DriverDatabaseProofs | `TypeCorrect`, `AveragesStayWithinLimits`, `TotalsOnlyGrow`, `RecordsChangeOnlyByTrips`, `NoDegenerateTripCounts` | `AveragesWithinLimits`, `KnownDriversKeepTheirTotals`, `TimeAndMilesMoveTogether` |
| DriverAppProofs | `ProgramTypeCorrect`, `ProgramKeepsRecords`, `SpacedNamesNeverCredited`, `LedgerIsCorrect` | `SpacedNamesStayAtZero`, `LedgerCorrect` |
| BoxSchedulerProofs | `SchedulerTypeCorrect`, `BoxesAlwaysTruthful`, `NoHeadIsLostOrAdded`, `SchedulerKeepsPromise`, `RefillsAreDatedByTheStarter`, `ReportIsComplete` | `BoxesTruthful`, `NoHeadLostOrAdded`, `KeepsPromise`, `RefillsFollowTheStarterDate`, `ReportEndsWithRefills` |
| TestRunnerProofs | `RunnerType`, `FixturesAreComplete`, `TearDownIsReversed`, `VerdictIsComplete`, `SelectedRunOnce` | `FixturesComplete`, `TornDownInReverse`, `VerdictCoversAllIterations`, `SelectedTestsRunOnce` |
| TestRunnerProofs | `ReportsAreTrue` | `ReportsTellTheRun` |
| TestRunnerProofs | `ReportersAreChained`, `FailuresGoWhereTheyShould` | `FailuresReachTheirResult` |
| ThreadLocalsProofs | `LockExcludes`, `ThreadLocalsType`, `OneOwner` | `MutexExcludes`, `ValuesHaveOneOwner` |
| DeathTestsProofs | `DeathTestsType`, `HandlesOutlive`, `OwnStatementOnly`, `OutcomeTellsTheEnd` | `HandlesOutliveStartup`, `RunsItsOwnStatement`, `OutcomeIsWhatHappened` |
| DeathTestsProofs | `PatternsAreFound` | `PatternsFindTheirWords` |
| MocksProofs | `MocksInvariant`, `MocksType`, `SequencesHold`, `ActionsAreHandedOutOnce`, `ErrorsGetReported` | `SequencesRespected`, `EachActionOnce`, `ErrorsAreReported` |
| MocksProofs | `RegistryIsTrue` | `RegistryKnowsTheLiving` |

The arguments, with the invariants that make the properties inductive:

* **Database**. The averages are not inductive with the report alone, nor the report's speeds
  without the averages: `LimitsInv` joins both (assuming `ForwardTrips`, the promise of
  `Problem Statement:12`). Its core is arithmetic: 5t < m < 100t is preserved by sums, and the
  floor of a quotient strictly between 5 and 100 is in 5..99. The action properties follow from
  one lemma on what a step can do to a known driver (`StepOfKnownDriver`).
* **Program**. Each step of it calls an action of DriverDatabase or leaves its variables alone,
  so the theorems about the class carry over by `INSTANCE` (`ProgramKeepsRecords`). In
  `SpacedNamesNeverCredited`, `driverName` *can* hold a name with a space when a `Trip` line
  gives no name. But such a line is the single field `Trip`, which is then also its distance, and
  `stod("Trip")` throws before `AddTrip` is called (assumption `StodType`). `LedgerCorrect`
  compares the database with sums over the lines read so far. `LedgerInv` says that each record
  is those sums while no trip processed is cut (`DatabaseIsMeaning`), that a program that has
  stopped stopped at a trip, and that the name the reader holds is that of a line it has read
  (`NameHasASource`), so that a `Driver` line without a name can only disturb the drivers that
  `NameLeftOver` names; the sums over one line more are the sums and that line's amount, by
  induction over the lines. Of a driver none of whose trips is at a limit, what the program
  admits is what the problem statement admits (`OffTheLimits`).
* **Scheduler**. `SchedulerInv`: that counts stay naturals needs that a portion is at most
  what is left, which needs that the open box has room, and that a refill is dated by an integer
  needs that the date was parsed when the call began. `HeadsInv` adds that the colours already
  passed are packed (`PassedArePacked`); then heads written, in the open box and still to pack
  always add up to those of the file: a portion moves from one set to another, and `Tally` counts
  every member once. For the refinement, `CallHistory` says what the running call has been asked
  and what a load or a call before it left, and an answer is compared with the fewest boxes
  possible: full boxes but the last. `FlagCovers` says that the flag is set once any family has
  received a box: so a family that has is never declined its refills. `DatesInv` ties the dates of
  the open box and of the boxes written to the family's date, and `StartedInv` that date to the
  one its starter boxes were shipped with. `KataInv` is about `report`: what file the family has at each step.
* **Runner**. `PlaceInv` says which indices are valid at which hook, and `Placed` joins it with
  the types. `StandingInv` gives, for every hook, exactly what is set up; `VerdictInv` relates
  failures heard, the results of this iteration and the flag kept over all; `EndedInv` says
  which tests have ended: those of the suites passed and those passed in this one. Each order the
  shuffle makes is a permutation, so nothing is skipped or run twice, and the shards divide the
  runnable tests (`SelectedRunOnce`).
* **Reports**. `ReportInv` says what a report can be written of: a test that does not run has no
  results, and a program that only lists never iterates. What is listed is, suite by suite, the
  tests that the run selected (`ListOfSuites`), so the files name each of them once. The totals of
  the summary and of each suite are sums over maps, which are cardinalities (`Total` over 0 and
  1), and equal the sums over the elements of the file. Of JSON the pieces are proved to be
  separated by exactly one comma: of a list of blocks only the last lacks one.
* **Where failures go**. `ChainInv`: in each stack the reporter of a scope links to the newest
  open scope below it that replaced the same one, or to the default; the reporter in force is
  the newest; the trace stack is the traces among the scopes, reversed. Then the route of a result,
  a recursive function, passes exactly the scopes it should and ends where it should
  (`RouteIsRight`). Entering, leaving by the end, a return or an exception, and reporting keep
  the chain (`PushScope`, `CloseTop`, `PopClosed`, `PopOfTrace`, `ReportedKeeps`).
* **Threads**. `MutexInv`: one process at most is between its test of the phase and the
  publication of the section it makes, and who is inside holds it, so that all that happens inside
  happens alone. `CallsInv` says what each call in progress knows, and that a thread that is
  destroyed or gone has no call. `ValuesInv`: an entry under an identifier belongs to the thread
  that has it or to one that exited and whose watcher has yet to come; and whoever deletes is the
  only one who still has the value.
* **Death tests**. `HandlesInv`: a child that lives has its end of the pipe, and the parent
  keeps its own until the event. `OwnStatementInv`: it executes where its count and the place
  are those it was given. `PipeInv`: what is in the pipe, or was read, is what the child wrote.
* **Patterns**. A table that makes each entry from later ones exists, whatever the texts
  (`DownwardRecursion`), so the recursions over two texts have the values that their cases say.
  `ValidateRegex` is what makes the engine right: `Begins` holds at the first atom of a valid
  expression and passes from each atom to the next (`AtomsBegin`), so the engine never takes an
  escaped character or a repetition for an atom, nor a `$` for an anchor that is not one.
  By induction from the end, what it matches from an atom on is a word of the atoms from there,
  up to the end of the text if the expression wants that (`AtomsMatch`); a repetition matches
  exactly the pieces that its count allows (`MatchesAPiece`). The full pattern is the expression
  moved by its anchor, which leaves the atoms as they are (`SameAtomWithin`). In a filter, a
  star takes each piece, by induction over the name (`MatchesAPieceFor`), and the patterns
  are what is between two adjacent colons.
* **Mocks**. `MocksInv` has six parts. `Shape` and `SetFirst` say what a mocker has of an
  expectation and that it is set before its first call; `RetiredClosed` that what retires is
  closed under prerequisites among the active ones; `CountsAgree`, `OrderKept` and `ActionsInOrder`
  relate the counts, the order and the actions to the log of calls. An expectation may be
  reached from another by several paths, and retired ones cut them: `ShortCut` and
  `ReachIsTransitive` show that what is reachable at the time of a call is what the statements
  say. `VerdictInv` says that an error is reported, is on its way to be, or is that of a call
  whose action threw, and that nothing is reported without an error (`Exact`); and that whatever
  still has expectations will be verified (`EverythingAwaits`), by the levels of mocks that own one
  another.
* **Registry**. `RegistryInv`: an address has an entry exactly if a statement registered a mocker
  there that is not destroyed yet, or if its leak was allowed and the object that would have
  taken the permission with it never came to destroy a mocker; it has a reaction exactly between
  the constructor and the destructor of a nice, naggy or strict object. So what is reported as
  leaked at the end lives then, has mockers and was not allowed to; and all that does is reported,
  but for an object whose address still has the permission of one before it.
* **Inductions**. The provers cannot use the library's induction theorems, which take an
  operator; but the set of numbers that have a property is a value. `LeastNatural`,
  `UpwardInduction`, `StrongInduction`, `DownwardInduction` and `GreatestInInterval` follow from
  `WFMin`, and every induction over a sequence, a stack or a recursive function here cites one of
  them; `DownwardRecursion` makes a recursive function from its equations.

Constants have the assumptions that the code justifies, as named `ASSUME`s that TLC evaluates
in the runs: tests, environments and statements are lists without duplicates
(`RegisteredOnce`, `EnvironmentsOnce`, `DeclaredIsAList`), as registration makes them; what the
flags may hold (`FlagsType`); a null pointer, a nil or a name is nothing else (`NamesDiffer`,
`NamesAreDistinct`, `NoneIsNoChild`, `NoneIsNothing`, `NilIsNoHash`, `NilIsNoField`); threads are
finitely many and, where they report, numbered from the main one (`ThreadsAreFinite`,
`ThreadsAreNumbered`); the family the report is about exists (`StarWarsIsAFamily`); bounds are
numbers (`BoundsType`, `MaxCallsType`, `MaxLinesType`); a mock has methods (`MocksHaveMethods`)
and the lines of a message are a sequence (`LinesAreLines`); texts are sequences of characters
(`TextsHaveCharacters`); and mocks that own one another do so in levels (`OwnershipHasLevels`),
for a cycle would leak them, which googlemock does not undertake to verify.

Model-checked only:

* Liveness, which rests on fairness and `ENABLED`: `ReportEnds`, `Returns`,
  `ExitedThreadsLeaveNothing`, `CallsReturn`, `EveryDeathTestConcludes`.
* The properties of the algorithms, all but `FailuresReachTheirResult`,
  `RegistryKnowsTheLiving` and `PatternsFindTheirWords`. They compare folds and `RECURSIVE`
  operators with definitions by other folds over bounded inputs; the provers know nothing of the
  folds of the community modules, and lose arithmetic in a module that declares a `RECURSIVE`
  operator or reaches one.
* Of the patterns, `FullMatch` with an expression that ends in an escaped `$`: `RE::Init` takes it
  for an anchor and appends none, and then the text need not end there. Nothing is claimed of it.

## What is not modelled

* Rounding of doubles: miles are exact tenths, speeds exact fractions. Overflow of the `int`s in
  DriverApp. A file that changes while it is read; running out of memory.
* The wording of messages, reports and box texts where no property is about it; members' names;
  the syntax of CSV and of dates (a date text is an opaque value, `Day` says what `Date.parse`
  makes of it); the calendar (days are integers, so "90 days later" is exact).
* Of the runner: the return when help was asked for, the shard status file, and what the child of a
  death test does otherwise than its parent before the first test (`gtest.cc:5182`, `5192`, `5208`,
  `5237`, `5335`); the early returns of `InitGoogleTestImpl` (`6007-6009`); elapsed times, the random generator behind the shuffle, structured exceptions
  as different from C++ ones, `break_on_failure`. Of the listeners: one that changes the list
  while it hears an event. Of results: scopes for all threads that do not nest.
* Of threads and death tests: POSIX threads, Fuchsia, the loss of memory at process exit.
* Of printing: types without a printer (bytes), wide characters, protocol buffers, doubles. Of
  assertions: wide strings. Of matchers: explanations, wide strings, views of containers.
  Of typed tests: the text of a type's name.
* Code that has no behaviour of its own to be wrong: macros that only declare classes, type
  traits, forwarding overloads, and the generated lists of types, of which the limit of 50 is
  modelled.
* The tests, samples and scripts of googletest and of both applications, build files, binaries
  and the spreadsheet.

## Plan

Done: both applications; the machines of googletest and googlemock; the algorithms; the
theorems about the applications and about the machines, all their safety properties, and about
the patterns. Next, in this order:

1. Theorems about algorithms without recursion, for all inputs: that `AlmostEquals` is
   symmetric and what it says of NaN and of the two zeros; which listener owns what.
2. The lists of parameters as tables like those of the patterns, then, by `DownwardInduction`,
   that `Range` and `Combine` give what their definitions say.
3. The encodings in the same way: that `WideStringToUtf8` and the escapes of a literal read
   back, one character after another.
