------------------------------ MODULE Reports ------------------------------
(***************************************************************************)
(* What googletest tells of a run: the summary on the console and the file *)
(* of --gtest_output at the end of an iteration (OnTestIterationEnd), and  *)
(* the listing of --gtest_list_tests.                                      *)
(*                                                                         *)
(* An XML report is a tree of records.  A JSON report is a sequence of     *)
(* tokens, for the program places its commas by hand: a mark, which is a   *)
(* comma, a bracket or a key, and the value of the key.  Times, places,    *)
(* parameters and recorded properties are left out, and so are the keys    *)
(* with one value only; the failures of a test are the kinds of its parts, *)
(* each once.                                                              *)
(* Suites are shown as they registered (UnitTestImpl::GetTestSuite takes   *)
(* test_suites_[i]), their tests in the shuffled order.                    *)
(***************************************************************************)
EXTENDS TestRunner

(* A sum of numbers, and a field of each record. *)
Total(numbers) ==
  LET total[n \in 0 .. Len(numbers)] ==
        IF n = 0 THEN 0 ELSE total[n - 1] + numbers[n]
  IN  total[Len(numbers)]

Field(records, name) == [i \in DOMAIN records |-> records[i][name]]

TestPassed(t) ==
  t \in should_run /\ ~Failed(result[t]) /\ ~Skipped(result[t])
TestSkipped(t) == t \in should_run /\ Skipped(result[t])
TestFailed(t) == t \in should_run /\ Failed(result[t])
ShouldRunTest(t) == t \in should_run

(* Mutant: tests of other shards are taken for reportable. *)
IsReportableAnywhere(f, t) == t \in f.filter

IsReportable(f, t) == t \in f.filter /\ ~InAnotherShard(f, t)
TestReportable(t) == IsReportable(flags, t)
TestReportableDisabled(t) == IsReportable(flags, t) /\ t \in Disabled

CountIf(s, tests) == Cardinality(Range(TestsOf(s)) \cap tests)

successful_test_count == [s \in Suite |-> CountIf(s, {t \in Test : TestPassed(t)})]
skipped_test_count == [s \in Suite |-> CountIf(s, {t \in Test : TestSkipped(t)})]
failed_test_count == [s \in Suite |-> CountIf(s, {t \in Test : TestFailed(t)})]
reportable_disabled_test_count ==
  [s \in Suite |-> CountIf(s, {t \in Test : TestReportableDisabled(t)})]
reportable_test_count == [s \in Suite |-> CountIf(s, {t \in Test : TestReportable(t)})]
test_to_run_count == [s \in Suite |-> CountIf(s, {t \in Test : ShouldRunTest(t)})]

SumOverTestSuiteList(counts) == Total([i \in DOMAIN test_suites |-> counts[test_suites[i]]])

(* GetTestInfo(j) for each j. *)
Shown(s) == [j \in DOMAIN TestsOf(s) |-> TestAt(s, j)]

-----------------------------------------------------------------------------
(* The console: PrettyUnitTestResultPrinter. *)
ListBySuite(tests) ==
  FlattenSeq([i \in DOMAIN test_suites |-> Kept(Shown(test_suites[i]), tests)])

PrintFailedTests == ListBySuite({t \in Test : TestFailed(t)})
PrintSkippedTests == ListBySuite({t \in Test : TestSkipped(t)})

Summary ==
  [ran |-> SumOverTestSuiteList(test_to_run_count),
   suites |-> Cardinality({s \in Suite : test_to_run_count[s] > 0}),
   passed |-> SumOverTestSuiteList(successful_test_count),
   skipped |-> SumOverTestSuiteList(skipped_test_count),
   skipped_tests |-> PrintSkippedTests,
   failed |-> IF AnyFailed THEN SumOverTestSuiteList(failed_test_count) ELSE 0,
   failed_tests |-> IF AnyFailed THEN PrintFailedTests ELSE << >>,
   disabled |-> IF flags.also_run_disabled_tests THEN 0
                ELSE SumOverTestSuiteList(reportable_disabled_test_count)]

-----------------------------------------------------------------------------
(* The XML report: XmlUnitTestResultPrinter. *)
StatusOf(t) == IF t \in should_run THEN "run" ELSE "notrun"
ResultOf(t) ==
  IF t \notin should_run THEN "suppressed"
  ELSE IF Skipped(result[t]) THEN "skipped" ELSE "completed"

FailedParts(t) == Kept(<<"nonfatal", "fatal">>, result[t])

OutputXmlTestInfo(t) ==
  IF InAnotherShard(flags, t) THEN << >>
  ELSE IF flags.list_tests THEN <<[name |-> t]>>
  ELSE <<[name |-> t, status |-> StatusOf(t), result |-> ResultOf(t),
          failures |-> FailedParts(t)]>>

ReportedTests(s) == Kept(Shown(s), {t \in Test : TestReportable(t)})

XmlTests(s) ==
  LET shown == ReportedTests(s)
  IN  FlattenSeq([j \in DOMAIN shown |-> OutputXmlTestInfo(shown[j])])

PrintXmlTestSuite(s) ==
  IF flags.list_tests
    THEN [name |-> s, tests |-> reportable_test_count[s],
          testcases |-> XmlTests(s)]
    ELSE [name |-> s, tests |-> reportable_test_count[s],
          failures |-> failed_test_count[s],
          disabled |-> reportable_disabled_test_count[s],
          testcases |-> XmlTests(s)]

ReportedSuites == Kept(test_suites, {s \in Suite : reportable_test_count[s] > 0})

XmlSuites(suites) == [i \in DOMAIN suites |-> PrintXmlTestSuite(suites[i])]

PrintXmlUnitTest ==
  [tests |-> SumOverTestSuiteList(reportable_test_count),
   failures |-> SumOverTestSuiteList(failed_test_count),
   disabled |-> SumOverTestSuiteList(reportable_disabled_test_count),
   testsuites |-> XmlSuites(ReportedSuites)]

total_test_count == [s \in Suite |-> Len(TestsOf(s))]

PrintXmlTestsList ==
  [tests |-> SumOverTestSuiteList(total_test_count),
   testsuites |-> XmlSuites(test_suites)]

-----------------------------------------------------------------------------
(* The JSON report: JsonUnitTestResultPrinter. *)
Token(mark, value) == <<[mark |-> mark, value |-> value]>>
Mark(mark) == Token(mark, "")
Comma == Mark(",")

OutputJsonKey(name, value, comma) ==
  Token(name, value) \o (IF comma THEN Comma ELSE << >>)

(* An item of a list, after a comma unless it is the first. *)
Separated(items) ==
  FlattenSeq([i \in DOMAIN items |-> IF i = 1 THEN items[i] ELSE Comma \o items[i]])

Listed(items) == Mark("[") \o Separated(items) \o Mark("]")

JsonFailures(t) ==
  LET parts == FailedParts(t)
      One(i) == Comma \o (IF i = 1 THEN Mark("[") ELSE << >>)
                \o Mark("{") \o OutputJsonKey("failure", parts[i], FALSE) \o Mark("}")
  IN  FlattenSeq([i \in DOMAIN parts |-> One(i)])
      \o (IF parts = << >> THEN << >> ELSE Mark("]"))

OutputJsonTestInfo(t) ==
  Mark("{") \o OutputJsonKey("name", t, TRUE)
  \o (IF flags.list_tests THEN OutputJsonKey("line", "", FALSE)
      ELSE OutputJsonKey("status", StatusOf(t), TRUE)
           \o OutputJsonKey("result", ResultOf(t), TRUE)
           \o OutputJsonKey("classname", SuiteOf[t], FALSE)
           \o JsonFailures(t))
  \o Mark("}")

JsonTests(tests) == [j \in DOMAIN tests |-> OutputJsonTestInfo(tests[j])]

PrintJsonTestSuite(s) ==
  Mark("{") \o OutputJsonKey("name", s, TRUE)
  \o OutputJsonKey("tests", reportable_test_count[s], TRUE)
  \o (IF flags.list_tests THEN << >>
      ELSE OutputJsonKey("failures", failed_test_count[s], TRUE)
           \o OutputJsonKey("disabled", reportable_disabled_test_count[s], TRUE)
           \o OutputJsonKey("time", "", FALSE) \o Comma)
  \o Listed(JsonTests(ReportedTests(s))) \o Mark("}")

JsonSuites(suites) == [i \in DOMAIN suites |-> PrintJsonTestSuite(suites[i])]

PrintJsonUnitTest ==
  Mark("{")
  \o OutputJsonKey("tests", SumOverTestSuiteList(reportable_test_count), TRUE)
  \o OutputJsonKey("failures", SumOverTestSuiteList(failed_test_count), TRUE)
  \o OutputJsonKey("disabled", SumOverTestSuiteList(reportable_disabled_test_count), TRUE)
  \o OutputJsonKey("time", "", FALSE) \o Comma
  \o OutputJsonKey("name", "AllTests", TRUE)
  \o Listed(JsonSuites(ReportedSuites)) \o Mark("}")

PrintJsonTestList ==
  Mark("{") \o OutputJsonKey("tests", SumOverTestSuiteList(total_test_count), TRUE)
  \o OutputJsonKey("name", "AllTests", TRUE)
  \o Listed(JsonSuites(test_suites)) \o Mark("}")

-----------------------------------------------------------------------------
(* --gtest_list_tests: what is printed and the two kinds of files. *)
ListTestsMatchingFilter ==
  [printed |-> ListBySuite(flags.filter),
   xml |-> PrintXmlTestsList, json |-> PrintJsonTestList]

-----------------------------------------------------------------------------
(* The tests of an XML report. *)
Testcases(xml) == FlattenSeq(Field(xml.testsuites, "testcases"))

(* The commas of a JSON text are where they belong: between two members    *)
(* and nowhere else.                                                       *)
MayFollow(mark, next) ==
  CASE mark \in {"{", "["} -> next # ","
    [] mark = "," -> next \notin {",", "}", "]"}
    [] OTHER -> next \in {",", "}", "]"}

WellSeparated(json) ==
  \A i \in 1 .. Len(json) - 1 : MayFollow(json[i].mark, json[i + 1].mark)

ValuesOf(json, key) ==
  FlattenSeq([i \in DOMAIN json |->
            IF json[i].mark = key THEN <<json[i].value>> ELSE << >>])

(* The JSON report lists the same suites and tests with the same numbers   *)
(* as the XML report.                                                      *)
SaysTheSame(json, xml) ==
  LET cases == Testcases(xml)
      suites == xml.testsuites
      NamesIn(s) == <<s.name>> \o Field(s.testcases, "name")
  IN  /\ WellSeparated(json)
      /\ ValuesOf(json, "name")
           = <<"AllTests">> \o FlattenSeq([i \in DOMAIN suites |-> NamesIn(suites[i])])
      /\ ValuesOf(json, "tests") = <<xml.tests>> \o Field(suites, "tests")
      /\ flags.list_tests \/
           /\ ValuesOf(json, "failures") = <<xml.failures>> \o Field(suites, "failures")
           /\ ValuesOf(json, "status") = Field(cases, "status")
           /\ ValuesOf(json, "result") = Field(cases, "result")
           /\ ValuesOf(json, "failure") = FlattenSeq(Field(cases, "failures"))

(* What the reports of an iteration have to say. *)
TellsTheRun ==
  LET xml == PrintXmlUnitTest
      cases == Testcases(xml)
      listed == Range(cases)
      NamesOf(some) == {c.name : c \in some}
      failing == {c \in listed : c.failures # << >>}
      console == Summary
  IN  /\ IsInjective(cases)
      /\ NamesOf(listed) = {t \in flags.filter : ~InAnotherShard(flags, t)}
      /\ \/ NamesOf({c \in listed : c.status = "run"}) = Range(ended)
         \/ ended = << >> /\ HasFatalFailure(ad_hoc)
      /\ xml.tests = Len(cases)
      /\ xml.tests = Total(Field(xml.testsuites, "tests"))
      /\ xml.failures = Cardinality(NamesOf(failing))
      /\ xml.failures = Total(Field(xml.testsuites, "failures"))
      /\ xml.disabled = Cardinality(Disabled \cap NamesOf(listed))
      /\ \A i \in DOMAIN xml.testsuites :
           Len(xml.testsuites[i].testcases) = xml.testsuites[i].tests
      /\ console.ran = console.passed + console.skipped + console.failed
      /\ console.failed = Len(console.failed_tests)
      /\ console.skipped = Len(console.skipped_tests)
      /\ Range(console.failed_tests) = NamesOf(failing)
      /\ Range(console.skipped_tests)
           = NamesOf({c \in listed : c.result = "skipped"})
      /\ SaysTheSame(PrintJsonUnitTest, xml)

(* What a listing has to say. *)
ListsTheTests ==
  LET listing == ListTestsMatchingFilter
      cases == Testcases(listing.xml)
  IN  /\ IsInjective(listing.printed)
      /\ Range(listing.printed) = flags.filter
      /\ Range(Field(cases, "name"))
           = {t \in flags.filter : ~InAnotherShard(flags, t)}
      /\ listing.xml.tests = Len(Registered)
      /\ \A i \in DOMAIN listing.xml.testsuites :
           Len(listing.xml.testsuites[i].testcases)
             = listing.xml.testsuites[i].tests
      /\ SaysTheSame(listing.json, listing.xml)

(* The summary on the console, the XML file and the JSON file of an        *)
(* iteration tell the same and tell the truth: a test that matches the     *)
(* filter is listed once, in the reports of one shard; those listed as run *)
(* are those whose end was announced, unless an environment failed and     *)
(* none ran; and every count is the number of elements it counts, although *)
(* the program takes the two from different places (gtest.cc:3308, :3736,  *)
(* :4126).  A listing prints every test that matches the filter once,      *)
(* whatever the shard, and both kinds of file list those of the shard      *)
(* (gtest.cc:5496).                                                        *)
ReportsTellTheRun ==
  /\ pc = "iterationEnd" => TellsTheRun
  /\ pc = "done" /\ flags.list_tests => ListsTheTests
=============================================================================
