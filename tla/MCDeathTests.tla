----------------------------- MODULE MCDeathTests ----------------------------
(* Instances of DeathTests for TLC. *)
EXTENDS DeathTests

Death(site, end, code, ok, says, fatal) ==
  [site |-> site, end |-> end, code |-> code, ok |-> ok, says |-> says,
   fatal |-> fatal]

(* A loop over one EXPECT_DEATH whose statement ends otherwise each time,  *)
(* and an ASSERT_EXIT.                                                     *)
MCBody ==
  <<Death("loop", "dies", 3, {1, 3}, TRUE, FALSE),
    Death("loop", "lives", 0, {1, 3}, TRUE, FALSE),
    Death("last", "dies", 0, {0}, TRUE, TRUE),
    Death("loop", "throws", 0, {1, 3}, FALSE, FALSE),
    Death("last", "internal error", 0, {3}, TRUE, FALSE)>>

(* The child comes to the same, passes the loop once less, or finds that   *)
(* its statement ends in another way, or in an error of the child's own.   *)
MCChildBodies ==
  {MCBody, Tail(MCBody), << >>,
   <<Death("loop", "returns", 0, {1, 3}, TRUE, FALSE),
     Death("loop", "internal error", 0, {1, 3}, TRUE, FALSE),
     Death("last", "dies", 1, {0}, FALSE, TRUE)>>}
=============================================================================
