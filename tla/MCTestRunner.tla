---------------------------- MODULE MCTestRunner ----------------------------
(* Instances of TestRunner for TLC. *)
EXTENDS Reports

(* Five tests in three suites, the death test suite registered last; "b1"  *)
(* and "b2" are of different fixture classes, "c2" is disabled.            *)
MCRegistered == <<"b1", "a1", "b2", "c1", "c2">>

MCSuiteOf ==
  [t \in {"a1", "b1", "b2", "c1", "c2"} |->
     CASE t = "a1" -> "A" [] t \in {"b1", "b2"} -> "B" [] OTHER -> "CDeathTest"]

MCFixtureOf == [t \in {"a1", "b1", "b2", "c1", "c2"} |->
                  IF t = "b2" THEN "F" ELSE "Test"]

MCEnvironments == <<"e1", "e2">>

Setting(filter, also, total, index, repeat, shuffle, catch, throw) ==
  [filter |-> filter, also_run_disabled_tests |-> also,
   total_shards |-> total, shard_index |-> index, repeat |-> repeat,
   shuffle |-> shuffle, catch_exceptions |-> catch, throw_on_failure |-> throw,
   list_tests |-> FALSE]

All == {"a1", "b1", "b2", "c1", "c2"}

(* Two iterations of one test, shuffled runs of all, every shard of one,   *)
(* two and three, each way to let exceptions out, bad variables, and       *)
(* listings.                                                               *)
MCFlagSettings ==
  {Setting({"a1"}, FALSE, -1, -1, 2, FALSE, TRUE, FALSE),
   Setting({"a1", "c2"}, TRUE, -1, -1, 1, TRUE, TRUE, FALSE),
   Setting({"b1", "b2"}, FALSE, -1, -1, 1, FALSE, TRUE, FALSE),
   Setting({"c2"}, FALSE, -1, -1, 2, FALSE, TRUE, FALSE),
   Setting({"a1"}, FALSE, -1, -1, 1, FALSE, FALSE, FALSE),
   Setting({"b2"}, FALSE, -1, -1, 1, FALSE, TRUE, TRUE),
   Setting(All, FALSE, 2, 2, 1, FALSE, TRUE, FALSE),
   Setting(All, FALSE, -1, 1, 1, FALSE, TRUE, FALSE)}
  \cup {Setting(All, FALSE, 3, k, 1, TRUE, TRUE, FALSE) : k \in 0 .. 2}
  \cup {[Setting(All \ {"a1"}, FALSE, shard[1], shard[2], 1, FALSE, TRUE, FALSE)
           EXCEPT !.list_tests = TRUE] :
          shard \in {<<-1, -1>>, <<2, 0>>, <<2, 1>>}}

MCOutcomes ==
  [h \in Hook |->
     CASE h = "envSetUp" -> {"ok", "nonfatal", "fatal", "throw"}
       [] h = "envTearDown" -> {"ok", "fatal"}
       [] h = "suiteSetUp" -> {"ok", "fatal"}
       [] h = "construct" -> {"ok", "fatal", "throw"}
       [] h = "setUp" -> {"ok", "skip", "failskip", "throw"}
       [] h = "body" -> {"ok", "nonfatal", "throw"}
       [] h = "tearDown" -> {"ok", "fatal"}
       [] OTHER -> {"ok"}]
=============================================================================
