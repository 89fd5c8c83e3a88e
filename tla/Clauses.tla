------------------------------- MODULE Clauses -------------------------------
(***************************************************************************)
(* EXPECT_CALL and ON_CALL statements (gmock-spec-builders.h and .cc) and  *)
(* cardinalities (gmock-cardinalities.cc).  A statement is its sequence of *)
(* clauses, which the code takes one after the other: each checks only     *)
(* which clause was the last, reports a Google Test failure if it should   *)
(* not stand there, and has its effect all the same.                       *)
(***************************************************************************)
EXTENDS Integers, Sequences, SequencesExt, FiniteSetsExt, TLC

CONSTANT IntMax     \* INT_MAX

-----------------------------------------------------------------------------
(* Between(min, max): bounds that make no sense are reported and clamped.  *)
Clamped(n, floor) == IF n >= floor THEN n ELSE floor

Between(min, max) ==
  [min |-> Clamped(min, 0), max |-> Clamped(max, Clamped(min, 0)),
   valid |-> 0 <= min /\ 0 <= max /\ min <= max]
Exactly(n) == Between(n, n)
AtLeast(n) == Between(n, IntMax)
AtMost(n) == Between(0, n)

IsSatisfiedBy(c, count) == c.min <= count /\ count <= c.max
IsSaturatedBy(c, count) == count >= c.max
IsOverSaturatedBy(c, count) == IsSaturatedBy(c, count) /\ ~IsSatisfiedBy(c, count)

(* DescribeTo of a cardinality, and the state that follows the count.      *)
Description(c) ==
  CASE c.min = 0 /\ c.max = 0 -> <<"never">>
    [] c.min = 0 /\ c.max = IntMax -> <<"any number of times">>
    [] c.min = 0 /\ c.max \notin {0, IntMax} -> <<"at most", c.max>>
    [] c.min # 0 /\ c.min = c.max -> <<"exactly", c.min>>
    [] c.min # 0 /\ c.min # c.max /\ c.max = IntMax -> <<"at least", c.min>>
    [] c.min # 0 /\ c.min # c.max /\ c.max # IntMax -> <<"between", c.min, c.max>>

StateOf(c, count) ==
  IF IsOverSaturatedBy(c, count) THEN "over-saturated"
  ELSE IF IsSaturatedBy(c, count) THEN "saturated"
  ELSE IF IsSatisfiedBy(c, count) THEN "satisfied" ELSE "unsatisfied"

-----------------------------------------------------------------------------
ClauseOrder == <<"none", "With", "Times", "InSequence", "After", "WillOnce",
                 "WillRepeatedly", "RetiresOnSaturation">>
Place(name) == CHOOSE i \in DOMAIN ClauseOrder : ClauseOrder[i] = name

(* Clauses that may follow one of their own kind. *)
MayRepeat == {"InSequence", "After", "WillOnce"}

NewExpectation ==
  [last_clause |-> "none", specified |-> FALSE, cardinality |-> Exactly(1),
   once |-> 0, repeatedly |-> FALSE, retires |-> FALSE,
   checked |-> FALSE, warning |-> "none", failures |-> 0]

(* CheckActionCountIfNotDone. *)
ActionCountWarning(e) ==
  LET upper == e.cardinality.max
      lower == e.cardinality.min
  IN  IF ~e.specified THEN "none"
      ELSE IF e.once > upper \/ (e.once = upper /\ e.repeatedly) THEN "too many"
      ELSE IF 0 < e.once /\ e.once < lower /\ ~e.repeatedly THEN "too few"
      ELSE "none"

CheckActionCount(e) ==
  IF e.checked THEN e
  ELSE [e EXCEPT !.checked = TRUE, !.warning = ActionCountWarning(e)]

(* Mutant: a second clause of a kind is never reported. *)
FollowsOrRepeats(last, name) == Place(last) <= Place(name)

(* The ExpectSpecProperty of each clause. *)
Follows(last, name) ==
  \/ Place(last) < Place(name)
  \/ last = name /\ name \in MayRepeat

Failing(e, ok) == IF ok THEN e ELSE [e EXCEPT !.failures = @ + 1]

(* The value that is inferred while no Times clause was seen. *)
Inferred(e, cardinality) ==
  IF e.specified THEN e ELSE [e EXCEPT !.cardinality = cardinality]

(* One clause: its check, its place, its effect. *)
Effect(e, c) ==
  CASE c.name = "Times" ->
         Failing([e EXCEPT !.specified = TRUE, !.cardinality = c.cardinality],
                 c.cardinality.valid)
    [] c.name = "WillOnce" ->
         Inferred([e EXCEPT !.once = @ + 1], Exactly(e.once + 1))
    [] c.name = "WillRepeatedly" ->
         CheckActionCount(Inferred([e EXCEPT !.repeatedly = TRUE], AtLeast(e.once)))
    [] c.name = "RetiresOnSaturation" ->
         CheckActionCount([e EXCEPT !.retires = TRUE])
    [] c.name \in {"With", "InSequence", "After"} -> e

TakeClause(e, c) ==
  Effect([Failing(e, Follows(e.last_clause, c.name)) EXCEPT !.last_clause = c.name], c)

(* The whole statement, up to its first use or its destructor. *)
ExpectCallOf(clauses) ==
  CheckActionCount(FoldLeft(TakeClause, NewExpectation, clauses))

-----------------------------------------------------------------------------
(* ON_CALL, up to a call that uses it (GetAction asserts). *)
OnCallOrder == <<"none", "With", "WillByDefault">>

TakeOnCallClause(s, c) ==
  LET place(name) == CHOOSE i \in DOMAIN OnCallOrder : OnCallOrder[i] = name
      first == Failing(s, place(s.last_clause) < place(c.name))
      second == Failing(first, ~(c.name = "WillByDefault" /\ c.action = "DoDefault"))
  IN  [second EXCEPT !.last_clause = c.name]

OnCallOf(clauses) ==
  LET spec == FoldLeft(TakeOnCallClause, [last_clause |-> "none", failures |-> 0], clauses)
  IN  [failures |-> spec.failures, aborts |-> spec.last_clause # "WillByDefault"]

-----------------------------------------------------------------------------
(* Sequences: a test opens and closes scopes with an InSequence object and *)
(* states expectations, with the Sequence objects of their InSequence      *)
(* clauses.  An expectation is its place among the statements, a sequence  *)
(* a tuple that names it.                                                  *)
NoSequence == << >>

NoStatements ==
  [implicit |-> NoSequence, created |-> << >>, count |-> 0,
   last |-> << >>, prerequisites |-> << >>]

LastIn(t, s) == IF s \in DOMAIN t.last THEN {t.last[s]} ELSE {}

(* Sequence::AddExpectation. *)
AddExpectation(t, s, e) ==
  IF e \in LastIn(t, s) THEN t
  ELSE [t EXCEPT !.prerequisites[e] = @ \cup LastIn(t, s), !.last = (s :> e) @@ @]

(* The constructor and the destructor of InSequence: only the outermost    *)
(* one makes a sequence, which begins after the expectations so far.       *)
OpenScope(t) ==
  [t EXCEPT !.created = Append(@, t.implicit = NoSequence),
            !.implicit = IF @ = NoSequence THEN <<"after", t.count>> ELSE @]

CloseScope(t) ==
  [t EXCEPT !.created = Front(@),
            !.implicit = IF Last(t.created) THEN NoSequence ELSE @]

(* AddNewExpectation, then the InSequence clauses of the statement. *)
AddNewExpectation(t, sequences) ==
  LET e == t.count + 1
      new == [t EXCEPT !.count = e, !.prerequisites = Append(@, {})]
      entered == IF t.implicit = NoSequence THEN new
                 ELSE AddExpectation(new, t.implicit, e)
  IN  FoldLeft(LAMBDA u, s : AddExpectation(u, s, e), entered, sequences)

TakeStatement(t, op) ==
  CASE op.name = "open" -> OpenScope(t)
    [] op.name = "close" -> CloseScope(t)
    [] op.name = "expect" -> AddNewExpectation(t, op.sequences)

OrderOf(ops) == FoldLeft(TakeStatement, NoStatements, ops)

-----------------------------------------------------------------------------
(* What the statements are to mean.                                        *)

(* The order that the comments of the clauses ask for. *)
InOrder(clauses) ==
  \A i, j \in DOMAIN clauses : i < j =>
    \/ Place(clauses[i].name) < Place(clauses[j].name)
    \/ clauses[i].name = clauses[j].name /\ clauses[i].name \in MayRepeat

(* The counts that a description promises, up to n. *)
Promised(d, n) ==
  CASE d[1] = "never" -> {0}
    [] d[1] = "any number of times" -> 0 .. n
    [] d[1] = "at most" -> 0 .. d[2]
    [] d[1] = "exactly" -> {d[2]}
    [] d[1] = "at least" -> d[2] .. n
    [] d[1] = "between" -> d[2] .. d[3]

(* The outermost scope that is open at an operation. *)
Depth(ops, i) == Cardinality({k \in 1 .. i : ops[k].name = "open"})
                   - Cardinality({k \in 1 .. i : ops[k].name = "close"})

OutermostScope(ops, i) ==
  IF Depth(ops, i) = 0 THEN {}
  ELSE {Max({j \in 1 .. i : Depth(ops, j - 1) = 0 /\ ops[j].name = "open"})}

(* Expectations that share a sequence, or a scope, the older one first. *)
InCommon(ops, d, e) ==
  LET at == SelectSeq([i \in DOMAIN ops |-> i], LAMBDA i : ops[i].name = "expect")
  IN  /\ d < e
      /\ \/ ToSet(ops[at[d]].sequences) \cap ToSet(ops[at[e]].sequences) # {}
         \/ OutermostScope(ops, at[d]) \cap OutermostScope(ops, at[e]) # {}

(* What comes before each expectation, in one step or more. *)
Before(n, IsBefore(_, _)) ==
  LET B[e \in 1 .. n] == LET now == {d \in 1 .. e - 1 : IsBefore(d, e)}
                         IN  now \cup UNION {B[d] : d \in now}
  IN  B
=============================================================================
