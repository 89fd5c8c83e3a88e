-------------------------- MODULE DeathTestsProofs --------------------------
(***************************************************************************)
(* Theorems about DeathTests: handles outlive the start of a child, which  *)
(* runs its own statement only, and the outcome is how it ended - for any  *)
(* test bodies, of the parent and of the children, and any exit codes.     *)
(* And one about Searches: the regular expressions of death tests, and the *)
(* filters, find what they mean - for any expressions, filters and texts.  *)
(***************************************************************************)
EXTENDS DeathTests, Searches, Inductions, SequenceTheorems, FiniteSetTheorems

Awaiting == {"wait", "read", "join", "judge"}

(* There is one child at most, started for the death test counted last. *)
ChildIsAwaited ==
  /\ pc = "assume" => at >= 1
  /\ pc = "judge" => child.pc = "exited"
  /\ child # None => /\ pc \in Awaiting \cup {"aborted"}
                     /\ child.index = at /\ child.site = Body[at].site

(* Who has the write end open.  On Windows the parent waits with its own   *)
(* handles open until the child has signalled or is gone.                  *)
HandlesInv ==
  /\ pc = "wait" => "parent" \in writers
  /\ child # None /\ child.pc # "exited" => "inherited" \in writers
  /\ style = "windows" /\ child # None /\ child.pc \in {"startup", "signal"} =>
       pc = "wait" /\ ~event

(* A child executes where its count and the place are those it was given;  *)
(* a fast one stands there from the start.                                 *)
AtItsOwn(c) ==
  /\ c.at = c.index /\ c.at \in 1 .. Len(c.body)
  /\ c.body[c.at].site = c.site

OwnStatementInv ==
  child # None =>
    /\ child.pc = "execute" \/ child.ran # "nothing" => AtItsOwn(child)
    /\ child.pc = "startup" /\ style = "fast" => AtItsOwn(child)
    /\ child.ran # "nothing" => child.pc \in {"abort", "exited"}

(* What is in the pipe, or was read from it. *)
Wrote(c) ==
  \/ c.ran \in {"lives", "returns", "throws"}
  \/ c.ran = "internal error" /\ style # "fast"

PipeInv ==
  /\ pc \in {"wait", "read"} =>
       pipe = IF Wrote(child) THEN <<StatusByte(child.ran)>> ELSE << >>
  /\ pc \in {"join", "judge"} =>
       IF Wrote(child)
         THEN /\ child.ran # "internal error"
              /\ outcome = StatusOutcome(StatusByte(child.ran))
         ELSE outcome = "DIED" /\ child.pc = "exited"

DeathTestInv ==
  TypeOK /\ ChildIsAwaited /\ HandlesInv /\ OwnStatementInv /\ PipeInv

-----------------------------------------------------------------------------
LEMMA ChildType ==
  ASSUME NEW c \in Child
  PROVE  /\ c # None /\ c.body \in Seq(Statement) /\ c.at \in Nat
         /\ c.index \in 1 .. Len(Body)
         /\ \A n \in 1 .. Len(c.body) : c.body[n] \in Statement
<1>1. /\ c.body \in ChildBodies \cup {Body} /\ c.at \in Nat
      /\ c.index \in 1 .. Len(Body)
  BY DEF Child
<1>2. c.body \in Seq(Statement)
  BY <1>1, BodyType, ChildBodiesType
<1> QED
  BY <1>1, <1>2, NoneIsNoChild

LEMMA DeathTestInit == Init => DeathTestInv
<1> SUFFICES ASSUME Init
             PROVE  DeathTestInv
  OBVIOUS
<1>1. TypeOK
  <2>1. Len(Body) \in Nat
    BY BodyType
  <2>2. pipe \in Seq({"L", "R", "T", "I"}) /\ verdicts \in Seq(BOOLEAN)
    BY EmptySeq DEF Init
  <2>3. style \in Styles /\ pc = "body" /\ at \in 0 .. Len(Body) /\ child = None
    BY <2>1 DEF Init
  <2>4. outcome \in Outcome /\ writers \subseteq {"parent", "inherited", "acquired"}
    BY DEF Init, Outcome
  <2>5. event \in BOOLEAN
    BY DEF Init
  <2> QED
    BY <2>2, <2>3, <2>4, <2>5 DEF TypeOK
<1>2. ChildIsAwaited /\ HandlesInv /\ OwnStatementInv /\ PipeInv
  BY DEF Init, ChildIsAwaited, HandlesInv, OwnStatementInv, PipeInv
<1> QED
  BY <1>1, <1>2 DEF DeathTestInv

(* The steps of a parent that waits leave the child alone and close no     *)
(* handle but the parent's own.                                            *)
LEMMA ParentKeepsChild ==
  ASSUME DeathTestInv, TypeOK', PipeInv',
         UNCHANGED <<style, at, child, event>>,
         pc \in Awaiting, pc' \in {"read", "join", "judge", "aborted"},
         pc' = "judge" => child.pc = "exited",
         pc = "wait" /\ style = "windows" => event \/ child.pc = "exited",
         writers' = writers \/ writers' = writers \ {"parent"}
  PROVE  DeathTestInv'
<1>1. ChildIsAwaited'
  BY DEF DeathTestInv, ChildIsAwaited, Awaiting
<1>2. HandlesInv'
  BY DEF DeathTestInv, HandlesInv
<1>3. OwnStatementInv'
  BY DEF DeathTestInv, OwnStatementInv, AtItsOwn
<1> QED
  BY <1>1, <1>2, <1>3 DEF DeathTestInv

LEMMA PassedIsBoolean == Passed \in BOOLEAN
BY DEF Passed

LEMMA BodySteps ==
  ASSUME DeathTestInv, Create \/ CreateFails \/ EndOfBody \/ AssumeRoleFails
  PROVE  DeathTestInv'
<1>1. /\ pc \in {"body", "assume"} /\ pc' \in {"body", "assume", "done", "aborted"}
      /\ pc' = "assume" => at' >= 1
      /\ at' \in 0 .. Len(Body) /\ outcome' \in Outcome /\ verdicts' \in Seq(BOOLEAN)
      /\ UNCHANGED <<style, child, writers, pipe, event>>
  <2>1. Len(Body) \in Nat /\ at \in 0 .. Len(Body)
    BY BodyType DEF DeathTestInv, TypeOK
  <2>2. CASE Create
    BY <2>1, <2>2 DEF Create, DeathTestInv, TypeOK, Outcome
  <2>3. CASE CreateFails
    BY <2>1, <2>3 DEF CreateFails, DeathTestInv, TypeOK
  <2>4. CASE EndOfBody \/ AssumeRoleFails
    BY <2>1, <2>4 DEF EndOfBody, AssumeRoleFails, DeathTestInv, TypeOK
  <2> QED
    BY <2>2, <2>3, <2>4
<1>2. child = None
  BY <1>1 DEF DeathTestInv, ChildIsAwaited, Awaiting
<1>3. TypeOK'
  BY <1>1, <1>2 DEF DeathTestInv, TypeOK
<1>4. ChildIsAwaited' /\ HandlesInv' /\ OwnStatementInv' /\ PipeInv'
  BY <1>1, <1>2 DEF ChildIsAwaited, HandlesInv, OwnStatementInv, PipeInv
<1> QED
  BY <1>3, <1>4 DEF DeathTestInv

LEMMA Launches ==
  ASSUME DeathTestInv, AssumeRole \/ AssumeRoleExec \/ AssumeRoleFork
  PROVE  DeathTestInv'
<1>1. PICK body \in ChildBodies \cup {Body}, count \in Nat :
        /\ Launch(NewChild(body, count))
        /\ style = "fast" => body = Body /\ count = at
  BY DEF AssumeRole, AssumeRoleExec, AssumeRoleFork, DeathTestInv, TypeOK
<1> DEFINE c == NewChild(body, count)
<1>2. /\ pc = "assume" /\ pc' = "wait" /\ child' = c /\ pipe' = << >> /\ event' = FALSE
      /\ writers' = {"parent", "inherited"} /\ UNCHANGED <<style, at, outcome, verdicts>>
  BY <1>1 DEF Launch
<1>3. at \in 1 .. Len(Body) /\ Body[at] \in Statement
  BY <1>2, BodyType DEF DeathTestInv, TypeOK, ChildIsAwaited
<1>4. /\ c.pc = "startup" /\ c.body = body /\ c.at = count /\ c.index = at
      /\ c.site = Body[at].site /\ c.ran = "nothing"
  BY DEF NewChild
<1>5. c \in Child
  BY <1>3 DEF NewChild, Child, Statement
<1>6. TypeOK'
  <2>1. c # None /\ pipe' \in Seq({"L", "R", "T", "I"})
    BY <1>2, <1>5, NoneIsNoChild, EmptySeq
  <2> HIDE DEF c
  <2>2. writers' \subseteq {"parent", "inherited", "acquired"}
    BY <1>2
  <2> QED
    BY <1>2, <1>5, <2>1, <2>2 DEF DeathTestInv, TypeOK
<1>7. ChildIsAwaited' /\ HandlesInv'
  BY <1>2, <1>4 DEF ChildIsAwaited, HandlesInv, Awaiting
<1>8. OwnStatementInv'
  BY <1>1, <1>2, <1>3, <1>4 DEF OwnStatementInv, AtItsOwn
<1>9. PipeInv'
  BY <1>2, <1>4 DEF PipeInv, Wrote
<1> QED
  BY <1>6, <1>7, <1>8, <1>9 DEF DeathTestInv

LEMMA WaitSteps ==
  ASSUME DeathTestInv, Wait \/ CloseWriteEnd \/ WaitForExit
  PROVE  DeathTestInv'
<1>1. TypeOK'
  BY DEF Wait, CloseWriteEnd, WaitForExit, DeathTestInv, TypeOK
<1>2. PipeInv'
  BY DEF Wait, CloseWriteEnd, WaitForExit, DeathTestInv, PipeInv, Wrote
<1>3. /\ UNCHANGED <<style, at, child, event>>
      /\ pc \in Awaiting /\ pc' \in {"read", "join", "judge", "aborted"}
      /\ writers' = writers \/ writers' = writers \ {"parent"}
  BY DEF Wait, CloseWriteEnd, WaitForExit, Awaiting
<1>4. /\ pc' = "judge" => child.pc = "exited"
      /\ pc = "wait" /\ style = "windows" => event \/ child.pc = "exited"
  BY DEF Wait, CloseWriteEnd, WaitForExit
<1> QED
  BY <1>1, <1>2, <1>3, <1>4, ParentKeepsChild

LEMMA HeadTailOfOne ==
  \A e : Head(<<e>>) = e /\ <<e>> # << >> /\ Tail(<<e>>) = << >>
BY SMT

LEMMA ReadStatusByteStep ==
  ASSUME DeathTestInv, ReadStatusByte
  PROVE  DeathTestInv'
<1>1. /\ pc = "read" /\ pc' \in {"join", "aborted"} /\ child # None
      /\ UNCHANGED <<style, at, verdicts, child, writers, event>>
  BY DEF ReadStatusByte, DeathTestInv, TypeOK
<1>2. pipe = IF Wrote(child) THEN <<StatusByte(child.ran)>> ELSE << >>
  BY <1>1 DEF DeathTestInv, PipeInv
<1>3. Wrote(child) =>
        /\ Head(pipe) = StatusByte(child.ran) /\ pipe # << >>
        /\ Tail(pipe) = << >>
  BY <1>2, HeadTailOfOne
<1>4. PipeInv'
  <2>1. CASE pipe # << >> /\ Head(pipe) # "I"
    <3>1. Wrote(child) /\ child.ran # "internal error"
      BY <1>2, <1>3, <2>1 DEF StatusByte
    <3>2. outcome' = StatusOutcome(StatusByte(child.ran))
      BY <1>3, <2>1, <3>1 DEF ReadStatusByte
    <3> QED
      BY <1>1, <3>1, <3>2 DEF PipeInv, Wrote
  <2>2. CASE pipe = << >> /\ writers = {}
    <3>1. ~Wrote(child)
      BY <1>3, <2>2
    <3>2. outcome' = "DIED" /\ child.pc = "exited"
      BY <1>1, <2>2 DEF ReadStatusByte, DeathTestInv, HandlesInv
    <3> QED
      BY <1>1, <3>1, <3>2 DEF PipeInv, Wrote
  <2>3. CASE pc' = "aborted"
    BY <2>3 DEF PipeInv
  <2> QED
    BY <2>1, <2>2, <2>3 DEF ReadStatusByte
<1>5. TypeOK'
  <2>1. outcome' \in Outcome
    <3>1. outcome \in Outcome /\ (pipe # << >> => Head(pipe) \in {"L", "R", "T", "I"})
      BY HeadTailProperties DEF DeathTestInv, TypeOK
    <3>2. \A byte \in {"L", "R", "T"} : StatusOutcome(byte) \in Outcome
      BY DEF StatusOutcome, Outcome
    <3>3. "DIED" \in Outcome
      BY DEF Outcome
    <3> QED
      BY <3>1, <3>2, <3>3 DEF ReadStatusByte
  <2>2. pipe' \in Seq({"L", "R", "T", "I"})
    BY HeadTailProperties, EmptySeq DEF ReadStatusByte, DeathTestInv, TypeOK
  <2> QED
    BY <1>1, <2>1, <2>2 DEF DeathTestInv, TypeOK
<1> QED
  BY <1>1, <1>4, <1>5, ParentKeepsChild DEF Awaiting

LEMMA JudgeStep ==
  ASSUME DeathTestInv, Judge
  PROVE  DeathTestInv'
<1>1. /\ child' = None /\ pc' \in {"done", "body"}
      /\ verdicts' = Append(verdicts, Passed)
      /\ UNCHANGED <<style, at, outcome, writers, pipe, event>>
  BY DEF Judge
<1>2. verdicts' \in Seq(BOOLEAN)
  BY <1>1, PassedIsBoolean, AppendProperties DEF DeathTestInv, TypeOK
<1>3. TypeOK'
  BY <1>1, <1>2 DEF DeathTestInv, TypeOK
<1>4. ChildIsAwaited' /\ HandlesInv' /\ OwnStatementInv' /\ PipeInv'
  BY <1>1 DEF ChildIsAwaited, HandlesInv, OwnStatementInv, PipeInv
<1> QED
  BY <1>3, <1>4 DEF DeathTestInv

-----------------------------------------------------------------------------
(* A child that has begun and one that ends.                               *)
LEMMA StepType ==
  ASSUME NEW c \in Child,
         NEW p \in {"startup", "signal", "body", "execute", "abort", "exited"},
         Step(c, p)
  PROVE  /\ child' \in Child /\ child'.pc = p
         /\ child'.body = c.body /\ child'.at = c.at /\ child'.index = c.index
         /\ child'.site = c.site /\ child'.ran = c.ran
BY DEF Step, Child

LEMMA ExitType ==
  ASSUME NEW c \in Child, NEW code \in Code, NEW says \in BOOLEAN,
         Exit(c, code, says)
  PROVE  /\ child' \in Child /\ child'.pc = "exited"
         /\ child'.body = c.body /\ child'.at = c.at /\ child'.index = c.index
         /\ child'.site = c.site /\ child'.ran = c.ran
         /\ writers' = writers \ {"inherited", "acquired"}
BY DEF Exit, Child

LEMMA AbortUnflaggedExits ==
  ASSUME NEW c, AbortUnflagged(c)
  PROVE  \E code \in Code, says \in BOOLEAN : Exit(c, code, says)
BY CodeType DEF AbortUnflagged

(* What a step of the child needs to keep the invariant: it stays the      *)
(* child that it is, on its way to its own statement.                      *)
LEMMA ChildKeeps ==
  ASSUME DeathTestInv, child # None, child.pc # "exited", UNCHANGED parent,
         child' \in Child, child'.index = child.index, child'.site = child.site,
         writers' \subseteq {"parent", "inherited", "acquired"},
         "parent" \in writers => "parent" \in writers',
         child'.pc # "exited" => "inherited" \in writers \cap writers',
         event' \in BOOLEAN, pipe' \in Seq({"L", "R", "T", "I"}),
         style = "windows" /\ child'.pc \in {"startup", "signal"} =>
           child.pc \in {"startup", "signal"} /\ event' = event,
         child'.pc # "startup",
         child'.pc = "execute" \/ child'.ran # "nothing" => AtItsOwn(child'),
         child'.ran # "nothing" => child'.pc \in {"abort", "exited"},
         PipeInv'
  PROVE  DeathTestInv'
<1>1. /\ UNCHANGED <<style, pc, at, outcome, verdicts>>
      /\ child' # None
  BY ChildType DEF parent
<1>2. TypeOK'
  BY <1>1 DEF DeathTestInv, TypeOK
<1>3. ChildIsAwaited'
  BY <1>1 DEF DeathTestInv, ChildIsAwaited
<1>4. HandlesInv'
  BY <1>1 DEF DeathTestInv, HandlesInv
<1>5. OwnStatementInv'
  BY <1>1 DEF OwnStatementInv
<1> QED
  BY <1>2, <1>3, <1>4, <1>5 DEF DeathTestInv

(* Pieces of the invariant that the child's steps use. *)
LEMMA ChildFacts ==
  ASSUME DeathTestInv, child # None
  PROVE  /\ child \in Child /\ child.body \in Seq(Statement)
         /\ writers \subseteq {"parent", "inherited", "acquired"}
         /\ event \in BOOLEAN /\ pipe \in Seq({"L", "R", "T", "I"})
         /\ child.pc # "exited" => "inherited" \in writers
         /\ child.pc = "execute" \/ child.ran # "nothing" => AtItsOwn(child)
         /\ child.pc = "startup" /\ style = "fast" => AtItsOwn(child)
         /\ child.ran # "nothing" => child.pc \in {"abort", "exited"}
<1>1. child \in Child /\ child.body \in Seq(Statement)
  BY ChildType DEF DeathTestInv, TypeOK
<1>2. /\ writers \subseteq {"parent", "inherited", "acquired"}
      /\ pipe \in Seq({"L", "R", "T", "I"})
  BY DEF DeathTestInv, TypeOK
<1>3. event \in BOOLEAN
  BY DEF DeathTestInv, TypeOK
<1> QED
  BY <1>1, <1>2, <1>3 DEF DeathTestInv, HandlesInv, OwnStatementInv

(* What a child has written stays what it was: PipeInv is kept. *)
LEMMA PipeIsKept ==
  ASSUME DeathTestInv, child # None, child.pc # "exited", UNCHANGED <<parent, pipe>>,
         Wrote(child)' <=> Wrote(child), Wrote(child) => child'.ran = child.ran
  PROVE  PipeInv'
<1>1. UNCHANGED <<pc, outcome, style>>
  BY DEF parent
<1>2. PipeInv
  BY DEF DeathTestInv
<1>3. CASE pc \in {"wait", "read"}
  BY <1>1, <1>2, <1>3 DEF PipeInv
<1>4. CASE pc \in {"join", "judge"}
  BY <1>1, <1>2, <1>4 DEF PipeInv
<1>5. CASE pc \notin {"wait", "read", "join", "judge"}
  BY <1>1, <1>5 DEF PipeInv
<1> QED
  BY <1>3, <1>4, <1>5

LEMMA ChildEnds ==
  ASSUME DeathTestInv, child # None, child.pc # "exited", UNCHANGED <<parent, pipe, event>>,
         NEW c \in Child, c.index = child.index, c.site = child.site,
         Wrote(c) <=> Wrote(child), Wrote(child) => c.ran = child.ran,
         c.ran # "nothing" => AtItsOwn(c),
         \E code \in Code, says \in BOOLEAN : Exit(c, code, says)
  PROVE  DeathTestInv'
<1>1. /\ child' \in Child /\ child'.pc = "exited"
      /\ child'.body = c.body /\ child'.at = c.at /\ child'.index = c.index
      /\ child'.site = c.site /\ child'.ran = c.ran
      /\ writers' = writers \ {"inherited", "acquired"}
  BY ExitType
<1>2. UNCHANGED style
  BY DEF parent
<1>3. PipeInv'
  BY <1>1, <1>2, PipeIsKept DEF Wrote
<1>4. child'.ran # "nothing" => AtItsOwn(child')
  BY <1>1 DEF AtItsOwn
<1> QED
  BY <1>1, <1>3, <1>4, ChildFacts, ChildKeeps

(* A child that goes on, and has yet to run anything.  *)
LEMMA ChildGoesOn ==
  ASSUME DeathTestInv, child # None, child.pc # "exited", child.ran = "nothing",
         UNCHANGED <<parent, pipe>>,
         NEW p \in {"signal", "body", "execute"}, Step(child, p),
         writers' \subseteq {"parent", "inherited", "acquired"}, writers \subseteq writers',
         event' \in BOOLEAN,
         p = "signal" => child.pc = "startup" /\ UNCHANGED event,
         p = "execute" => AtItsOwn(child)
  PROVE  DeathTestInv'
<1>1. /\ child' \in Child /\ child'.pc = p
      /\ child'.body = child.body /\ child'.at = child.at
      /\ child'.index = child.index
      /\ child'.site = child.site /\ child'.ran = child.ran
  BY ChildFacts, StepType
<1>2. UNCHANGED style
  BY DEF parent
<1>3. PipeInv'
  BY <1>1, <1>2, PipeIsKept DEF Wrote
<1>4. p = "execute" => AtItsOwn(child')
  BY <1>1 DEF AtItsOwn
<1> QED
  BY <1>1, <1>3, <1>4, ChildFacts, ChildKeeps

LEMMA StartupSteps ==
  ASSUME DeathTestInv,
         ExecChildMain \/ ForkedChild \/ AcquirePipe \/ SignalEvent \/ EndElsewhere
  PROVE  DeathTestInv'
<1>1. /\ child # None /\ child.pc \in {"startup", "signal", "body"}
      /\ UNCHANGED <<parent, pipe>>
  BY DEF ExecChildMain, ForkedChild, AcquirePipe, SignalEvent, EndElsewhere
<1>2. child.ran = "nothing"
  BY <1>1, ChildFacts
<1>3. CASE UNCHANGED event /\ \E code \in Code, says \in BOOLEAN : Exit(child, code, says)
  BY <1>1, <1>2, <1>3, ChildFacts, ChildEnds
<1>4. CASE UNCHANGED event /\ AbortUnflagged(child)
  BY <1>3, <1>4, AbortUnflaggedExits
<1>5. CASE ExecChildMain /\ Step(child, "body") /\ UNCHANGED <<writers, event>>
  BY <1>1, <1>2, <1>5, ChildFacts, ChildGoesOn
<1>6. CASE ForkedChild /\ Step(child, "execute") /\ UNCHANGED <<writers, event>>
  <2>1. child.pc = "startup" /\ style = "fast"
    BY <1>6 DEF ForkedChild
  <2> QED
    BY <1>1, <1>2, <1>6, <2>1, ChildFacts, ChildGoesOn
<1>7. CASE AcquirePipe /\ "parent" \in writers
  <2>1. /\ child.pc = "startup" /\ UNCHANGED event /\ Step(child, "signal")
        /\ writers' = writers \cup {"acquired"}
    BY <1>7 DEF AcquirePipe
  <2> QED
    BY <1>1, <1>2, <2>1, ChildFacts, ChildGoesOn
<1>8. CASE SignalEvent /\ "parent" \in writers
  <2>1. event' = TRUE /\ Step(child, "body") /\ UNCHANGED writers
    BY <1>8 DEF SignalEvent
  <2> QED
    BY <1>1, <1>2, <2>1, ChildFacts, ChildGoesOn
<1> QED
  BY <1>3, <1>4, <1>5, <1>6, <1>7, <1>8
     DEF ExecChildMain, ForkedChild, AcquirePipe, SignalEvent, EndElsewhere

LEMMA ComeToStatementStep ==
  ASSUME DeathTestInv, ComeToStatement
  PROVE  DeathTestInv'
<1> DEFINE n == child.at + 1
<1>1. /\ child # None /\ child.pc = "body" /\ child.at < Len(child.body)
      /\ UNCHANGED <<parent, writers, pipe, event>>
      /\ child' = [child EXCEPT
           !.at = IF n > child.index /\ child.body[n].fatal
                    THEN Len(child.body) ELSE n,
           !.pc = IF IsItsOwn(child, n) THEN "execute" ELSE "body"]
  BY DEF ComeToStatement
<1>2. child.ran = "nothing" /\ child \in Child /\ child.body \in Seq(Statement)
  BY <1>1, ChildFacts
<1>3. /\ child.at \in Nat /\ n \in 1 .. Len(child.body) /\ Len(child.body) \in Nat
      /\ child.index \in Nat
  BY <1>1, <1>2, BodyType DEF Child
<1> HIDE DEF n
<1>4. child' \in Child
  <2> DEFINE m == IF n > child.index /\ child.body[n].fatal
                    THEN Len(child.body) ELSE n
             p == IF IsItsOwn(child, n) THEN "execute" ELSE "body"
  <2>1. m \in Nat /\ p \in {"execute", "body"}
    BY <1>3
  <2>2. child' = [child EXCEPT !.at = m, !.pc = p]
    BY <1>1
  <2> HIDE DEF m, p
  <2> QED
    BY <1>2, <2>1, <2>2 DEF Child
<1>5. /\ child'.body = child.body /\ child'.index = child.index
      /\ child'.site = child.site /\ child'.ran = child.ran
      /\ child'.pc \in {"execute", "body"}
      /\ child'.pc = "execute" => IsItsOwn(child, n)
      /\ IsItsOwn(child, n) => child'.at = n
  BY <1>1, <1>2, <1>3 DEF Child, IsItsOwn
<1>6. child'.pc = "execute" => AtItsOwn(child')
  BY <1>3, <1>5 DEF AtItsOwn, IsItsOwn
<1>7. UNCHANGED style
  BY <1>1 DEF parent
<1>8. PipeInv'
  BY <1>1, <1>5, <1>7, PipeIsKept DEF Wrote
<1> QED
  BY <1>1, <1>2, <1>4, <1>5, <1>6, <1>8, ChildFacts, ChildKeeps

LEMMA AppendToNothing == \A e : Append(<< >>, e) = <<e>>
BY SMT

LEMMA ExecuteStatementStep ==
  ASSUME DeathTestInv, ExecuteStatement
  PROVE  DeathTestInv'
<1> DEFINE s == child.body[child.at]
           c == [child EXCEPT !.ran = s.end]
<1>1. /\ child # None /\ child.pc = "execute" /\ UNCHANGED <<parent, event>>
      /\ \/ s.end = "dies" /\ Exit(c, s.code, s.says) /\ UNCHANGED pipe
         \/ /\ s.end = "internal error" /\ style = "fast"
            /\ AbortUnflagged(c) /\ UNCHANGED pipe
         \/ /\ s.end # "dies" /\ ~(s.end = "internal error" /\ style = "fast")
            /\ pipe' = Append(pipe, StatusByte(s.end))
            /\ Step([c EXCEPT !.says = s.says], "abort")
            /\ UNCHANGED writers
  BY DEF ExecuteStatement
<1>2. /\ child \in Child /\ child.ran = "nothing" /\ AtItsOwn(child)
      /\ "inherited" \in writers
  BY <1>1, ChildFacts
<1>3. s \in Statement
  BY <1>2, ChildType DEF AtItsOwn
<1>4. s.end \in End /\ s.code \in Code /\ s.says \in BOOLEAN
  BY <1>3 DEF Statement
<1> HIDE DEF s
<1>5. /\ c \in Child /\ c.body = child.body /\ c.at = child.at /\ c.index = child.index
      /\ c.site = child.site /\ c.ran = s.end
  BY <1>2, <1>4 DEF Child
<1>6. AtItsOwn(c)
  BY <1>2, <1>5 DEF AtItsOwn
<1> HIDE DEF c
<1>7. ~Wrote(child)
  BY <1>2 DEF Wrote
<1>8. CASE s.end = "dies" /\ Exit(c, s.code, s.says) /\ UNCHANGED pipe
  <2>1. ~Wrote(c)
    BY <1>5, <1>8 DEF Wrote
  <2> QED
    BY <1>1, <1>4, <1>5, <1>6, <1>7, <1>8, <2>1, ChildEnds
<1>9. CASE /\ s.end = "internal error" /\ style = "fast"
           /\ AbortUnflagged(c) /\ UNCHANGED pipe
  <2>1. ~Wrote(c)
    BY <1>5, <1>9 DEF Wrote
  <2> QED
    BY <1>1, <1>5, <1>6, <1>7, <1>9, <2>1, ChildEnds, AbortUnflaggedExits
<1>10. CASE /\ s.end # "dies" /\ ~(s.end = "internal error" /\ style = "fast")
            /\ pipe' = Append(pipe, StatusByte(s.end))
            /\ Step([c EXCEPT !.says = s.says], "abort")
            /\ UNCHANGED writers
  <2> DEFINE d == [c EXCEPT !.says = s.says]
  <2>1. /\ d \in Child /\ d.body = c.body /\ d.at = c.at /\ d.index = c.index
        /\ d.site = c.site /\ d.ran = c.ran
    BY <1>4, <1>5 DEF Child
  <2> HIDE DEF d
  <2>2. /\ child' \in Child /\ child'.pc = "abort"
        /\ child'.body = d.body /\ child'.at = d.at /\ child'.index = d.index
        /\ child'.site = d.site /\ child'.ran = d.ran
    <3>1. Step(d, "abort")
      BY <1>10 DEF d
    <3> QED
      BY <2>1, <3>1, StepType
  <2>3. AtItsOwn(child')
    BY <1>6, <2>1, <2>2 DEF AtItsOwn
  <2>4. UNCHANGED <<style, pc, outcome>>
    BY <1>1 DEF parent
  <2>5. Wrote(child)'
    BY <1>4, <1>5, <1>10, <2>1, <2>2, <2>4 DEF Wrote, End
  <2>6. s.end \in {"lives", "returns", "throws", "internal error"}
    BY <1>4, <1>10 DEF End
  <2>7. pc \in {"wait", "read", "aborted"} /\ (pc # "aborted" => pipe = << >>)
    BY <1>1, <1>7 DEF DeathTestInv, ChildIsAwaited, Awaiting, PipeInv
  <2>8. PipeInv'
    <3>1. pc # "aborted" => pipe' = <<StatusByte(s.end)>>
      BY <1>10, <2>7, AppendToNothing
    <3> QED
      BY <1>5, <2>1, <2>2, <2>4, <2>5, <2>7, <3>1 DEF PipeInv
  <2>9. pipe' \in Seq({"L", "R", "T", "I"})
    <3>1. StatusByte(s.end) \in {"L", "R", "T", "I"}
      BY <2>6 DEF StatusByte
    <3> QED
      BY <1>1, <1>10, <3>1, ChildFacts, AppendProperties
  <2> QED
    BY <1>1, <1>2, <1>5, <1>10, <2>1, <2>2, <2>3, <2>8, <2>9, ChildFacts, ChildKeeps
<1> QED
  BY <1>1, <1>8, <1>9, <1>10

LEMMA AbortExitsStep ==
  ASSUME DeathTestInv, AbortExits
  PROVE  DeathTestInv'
<1>1. /\ child # None /\ child.pc = "abort" /\ UNCHANGED <<parent, pipe, event>>
      /\ Exit(child, 1, child.says)
  BY DEF AbortExits
<1>2. child \in Child /\ (child.ran # "nothing" => AtItsOwn(child))
  BY <1>1, ChildFacts
<1>3. 1 \in Code /\ child.says \in BOOLEAN
  BY <1>2, CodeType DEF Child
<1> QED
  BY <1>1, <1>2, <1>3, ChildEnds

-----------------------------------------------------------------------------
LEMMA DeathTestNext ==
  ASSUME DeathTestInv, [Next]_vars
  PROVE  DeathTestInv'
<1>1. CASE ParentStep
  BY <1>1, BodySteps, Launches, WaitSteps, ReadStatusByteStep, JudgeStep DEF ParentStep
<1>2. CASE ChildStep
  BY <1>2, StartupSteps, ComeToStatementStep, ExecuteStatementStep, AbortExitsStep
     DEF ChildStep
<1>3. CASE UNCHANGED vars
  BY <1>3 DEF vars, parent, DeathTestInv, TypeOK, ChildIsAwaited, HandlesInv,
     OwnStatementInv, PipeInv, Wrote
<1> QED
  BY <1>1, <1>2, <1>3 DEF Next

LEMMA DeathTestInvariant == Spec => []DeathTestInv
<1>1. Init => DeathTestInv
  BY DeathTestInit
<1>2. DeathTestInv /\ [Next]_vars => DeathTestInv'
  BY DeathTestNext
<1> QED
  BY <1>1, <1>2, PTL DEF Spec

(* Every variable keeps its type, and there is a child while it is waited  *)
(* for, on every platform and in every style.                              *)
THEOREM DeathTestsType == Spec => []TypeOK
BY DeathTestInvariant, PTL DEF DeathTestInv

(* No child is left without the handles it is to duplicate or has          *)
(* inherited while it starts up: the parent on Windows waits for the event *)
(* before it closes its own.                                               *)
THEOREM HandlesOutlive == Spec => []HandlesOutliveStartup
<1>1. DeathTestInv => HandlesOutliveStartup
  BY DEF DeathTestInv, TypeOK, HandlesInv, HandlesOutliveStartup
<1> QED
  BY <1>1, DeathTestInvariant, PTL

(* A child that ran a statement ran the one it was started for, whatever   *)
(* way the test body took in it.                                           *)
THEOREM OwnStatementOnly == Spec => []RunsItsOwnStatement
<1>1. DeathTestInv => RunsItsOwnStatement
  BY DEF DeathTestInv, ChildIsAwaited, OwnStatementInv, AtItsOwn, RunsItsOwnStatement
<1> QED
  BY <1>1, DeathTestInvariant, PTL

(* The outcome that Passed judges is how the statement ended.              *)
THEOREM OutcomeTellsTheEnd == Spec => []OutcomeIsWhatHappened
<1>1. DeathTestInv => OutcomeIsWhatHappened
  <2> SUFFICES ASSUME DeathTestInv, pc = "judge", child.ran # "nothing"
               PROVE  outcome = CASE child.ran \in {"dies", "internal error"} -> "DIED"
                                  [] child.ran = "lives" -> "LIVED"
                                  [] child.ran = "returns" -> "RETURNED"
                                  [] child.ran = "throws" -> "THREW"
    BY DEF OutcomeIsWhatHappened
  <2>1. child.ran \in End
    BY DEF DeathTestInv, TypeOK, Child
  <2>2. IF Wrote(child)
          THEN /\ child.ran # "internal error"
               /\ outcome = StatusOutcome(StatusByte(child.ran))
          ELSE outcome = "DIED"
    BY DEF DeathTestInv, PipeInv
  <2>3. CASE Wrote(child)
    <3>1. child.ran \in {"lives", "returns", "throws"}
      BY <2>2, <2>3 DEF Wrote
    <3> QED
      BY <2>2, <2>3, <3>1 DEF StatusByte, StatusOutcome
  <2>4. CASE ~Wrote(child)
    <3>1. child.ran \in {"dies", "internal error"}
      BY <2>1, <2>4 DEF Wrote, End
    <3> QED
      BY <2>2, <2>4, <3>1
  <2> QED
    BY <2>3, <2>4
<1> QED
  BY <1>1, DeathTestInvariant, PTL

-----------------------------------------------------------------------------
(***************************************************************************)
(* The tables of SimpleRegexes: there are functions for their equations.   *)
(***************************************************************************)
MatchTable(regex, str, f) ==
  \A i \in 1 .. Len(regex) + 2, j \in 1 .. Len(str) + 1 :
    f[i][j] = MatchesFrom(regex, str, f, i, j)

(* A row is made from those after it.                                      *)
LEMMA LaterRowsDecide ==
  ASSUME NEW regex \in Seq(Character), NEW str, NEW f, NEW g,
         NEW i \in 1 .. Len(regex) + 2, NEW j,
         \A k \in i + 1 .. Len(regex) + 2 : f[k] = g[k]
  PROVE  MatchesFrom(regex, str, f, i, j) = MatchesFrom(regex, str, g, i, j)
<1>1. CASE i > Len(regex)
  BY <1>1 DEF MatchesFrom
<1>2. CASE i <= Len(regex)
  <2> DEFINE a == IF regex[i] = "\\" THEN i + 1 ELSE i
  <2>0. Len(regex) \in Nat
    OBVIOUS
  <2>1. a \in i .. i + 1
    OBVIOUS
  <2>2. a + 1 \in i + 1 .. Len(regex) + 2
    BY <1>2, <2>0, <2>1
  <2>3. a < Len(regex) => a + 2 \in i + 1 .. Len(regex) + 2
    BY <1>2, <2>0, <2>1
  <2>4. f[a + 1] = g[a + 1] /\ (a < Len(regex) => f[a + 2] = g[a + 2])
    BY <2>2, <2>3
  <2> QED
    BY <1>2, <2>4 DEF MatchesFrom
<1> QED
  BY <1>1, <1>2

(* An answer of the matching is yes or no.                                 *)
LEMMA MatchIsBoolean ==
  ASSUME NEW regex, NEW str, NEW f, NEW i, NEW j
  PROVE  MatchesFrom(regex, str, f, i, j) \in BOOLEAN
<1> DEFINE a == IF regex[i] = "\\" THEN i + 1 ELSE i
           B == MatchesFrom(regex, str, f, i, j)
<1>1. CASE i > Len(regex)
  BY <1>1 DEF MatchesFrom
<1>2. CASE ~ (i > Len(regex)) /\ regex[i] = "$"
  <2>1. B = (j > Len(str))
    BY <1>2 DEF MatchesFrom
  <2>2. (j > Len(str)) \in BOOLEAN
    OBVIOUS
  <2> QED
    BY <2>1, <2>2
<1>3. CASE ~ (i > Len(regex)) /\ regex[i] # "$" /\ a < Len(regex) /\ regex[a + 1] \in Repeats
  BY <1>3, Zenon DEF MatchesFrom
<1>4. CASE /\ ~ (i > Len(regex)) /\ regex[i] # "$"
           /\ ~ (a < Len(regex) /\ regex[a + 1] \in Repeats)
  BY <1>4, Zenon DEF MatchesFrom
<1> QED
  BY <1>1, <1>2, <1>3, <1>4

(* What MatchRegexAtHead answers is an entry of such a table.              *)
LEMMA MatchTableAtHead ==
  ASSUME NEW regex \in Seq(Character), NEW str \in Seq(Character)
  PROVE  \E f : /\ MatchTable(regex, str, f)
                /\ \A i, j : MatchRegexAtHead(regex, i, str, j) = f[i][j]
<1> DEFINE n == Len(regex) + 2
           J == 1 .. Len(str) + 1
           V == [J -> BOOLEAN]
           row(f, i) == [j \in J |-> MatchesFrom(regex, str, f, i, j)]
           F == [i \in 1 .. n |-> [f \in [1 .. n -> V] |-> row(f, i)]]
           Rows(f) == f = [i \in 1 .. n |-> row(f, i)]
<1>0. n \in Nat
  OBVIOUS
<1>1. \A i \in 1 .. n, f \in [1 .. n -> V] : row(f, i) \in V
  <2> SUFFICES ASSUME NEW i \in 1 .. n, NEW f PROVE row(f, i) \in V
    OBVIOUS
  <2>1. \A j \in J : MatchesFrom(regex, str, f, i, j) \in BOOLEAN
    BY MatchIsBoolean
  <2> QED
    BY <2>1
<1>2. \A i \in 1 .. n, f \in [1 .. n -> V] : F[i][f] = row(f, i)
  <2> HIDE DEF n, V, row
  <2> QED
    OBVIOUS
<1>3. \A i \in 1 .. n, f \in [1 .. n -> V], g \in [1 .. n -> V] :
        (\A k \in i + 1 .. n : f[k] = g[k]) => row(f, i) = row(g, i)
  <2> SUFFICES ASSUME NEW i \in 1 .. n, NEW f \in [1 .. n -> V], NEW g \in [1 .. n -> V],
                      \A k \in i + 1 .. n : f[k] = g[k]
               PROVE  row(f, i) = row(g, i)
    OBVIOUS
  <2>1. \A j \in J : MatchesFrom(regex, str, f, i, j) = MatchesFrom(regex, str, g, i, j)
    BY LaterRowsDecide
  <2> QED
    BY <2>1
<1> DEFINE v == [j \in J |-> TRUE]
<1>4. v \in V
  OBVIOUS
<1>5. \E f : Rows(f)
  <2> HIDE DEF n, V, row, F, v, J
  <2>0. MadeFromLater(n, V, F)
    BY <1>1, <1>2, <1>3 DEF MadeFromLater
  <2>1. HasTable(n, V, F)
    BY <1>0, <1>4, <2>0, DownwardRecursion
  <2>4. PICK f \in [1 .. n -> V] : \A i \in 1 .. n : f[i] = F[i][f]
    BY <2>1 DEF HasTable
  <2>2. \A i \in 1 .. n : f[i] = row(f, i)
    BY <1>2, <2>4
  <2>3. f = [i \in 1 .. n |-> row(f, i)]
    BY <2>2
  <2> QED
    BY <2>3
<1> DEFINE matches == CHOOSE f : Rows(f)
<1>6. \A i, j : MatchRegexAtHead(regex, i, str, j) = matches[i][j]
  BY DEF MatchRegexAtHead
<1>7. Rows(matches)
  BY <1>5
<1> HIDE DEF matches
<1>8. \A i \in 1 .. n : matches[i] = row(matches, i)
  <2> HIDE DEF n, row
  <2> DEFINE h == [i \in 1 .. n |-> row(matches, i)]
  <2>1. matches = h
    BY <1>7
  <2>2. \A i \in 1 .. n : h[i] = row(matches, i)
    OBVIOUS
  <2> HIDE DEF h
  <2> QED
    BY <2>1, <2>2
<1>9. \A i \in 1 .. n, j \in J : matches[i][j] = MatchesFrom(regex, str, matches, i, j)
  BY <1>8
<1> QED
  BY <1>6, <1>9 DEF MatchTable

(* The same for what is valid from each place on.                          *)
ValidTable(regex, f) ==
  \A i \in 1 .. Len(regex) + 1, prev_repeatable \in BOOLEAN :
    f[i][prev_repeatable] = ValidFrom(regex, f, i, prev_repeatable)

(* ValidateRegex asks such a table.                                        *)
LEMMA ValidTableOf ==
  ASSUME NEW regex \in Seq(Character)
  PROVE  \E f : ValidTable(regex, f) /\ ValidateRegex(regex) = f[1][FALSE]
<1> DEFINE n == Len(regex) + 1
           V == [BOOLEAN -> BOOLEAN]
           row(f, i) == [prev_repeatable \in BOOLEAN |-> ValidFrom(regex, f, i, prev_repeatable)]
           F == [i \in 1 .. n |-> [f \in [1 .. n -> V] |-> row(f, i)]]
           Rows(f) == f = [i \in 1 .. n |-> row(f, i)]
<1>0. n \in Nat
  OBVIOUS
<1>1. ASSUME NEW i \in 1 .. n, NEW f PROVE row(f, i) \in V
  <2>1. \A prev_repeatable \in BOOLEAN : ValidFrom(regex, f, i, prev_repeatable) \in BOOLEAN
    BY Zenon DEF ValidFrom
  <2> QED
    BY <2>1
<1>2. \A i \in 1 .. n, f \in [1 .. n -> V] : F[i][f] = row(f, i)
  <2> HIDE DEF n, V, row
  <2> QED
    OBVIOUS
<1>3. \A i \in 1 .. n, f \in [1 .. n -> V], g \in [1 .. n -> V] :
        (\A k \in i + 1 .. n : f[k] = g[k]) => row(f, i) = row(g, i)
  <2> SUFFICES ASSUME NEW i \in 1 .. n, NEW f \in [1 .. n -> V], NEW g \in [1 .. n -> V],
                      \A k \in i + 1 .. n : f[k] = g[k]
               PROVE  row(f, i) = row(g, i)
    OBVIOUS
  <2>1. i <= Len(regex) => f[i + 1] = g[i + 1]
    BY <1>0
  <2>2. i < Len(regex) => f[i + 2] = g[i + 2]
    BY <1>0
  <2>3. \A prev_repeatable \in BOOLEAN :
          ValidFrom(regex, f, i, prev_repeatable) = ValidFrom(regex, g, i, prev_repeatable)
    <3> SUFFICES ASSUME NEW prev_repeatable \in BOOLEAN
                 PROVE  ValidFrom(regex, f, i, prev_repeatable)
                          = ValidFrom(regex, g, i, prev_repeatable)
      OBVIOUS
    <3>1. i \in Nat /\ Len(regex) \in Nat
      BY <1>0
    <3>2. CASE i > Len(regex)
      BY <3>2 DEF ValidFrom
    <3>3. CASE ~ (i > Len(regex)) /\ regex[i] = "\\"
      <4> DEFINE Escape(rest) == i < Len(regex) /\ IsValidEscape(regex[i + 1]) /\ rest[TRUE]
      <4>1. \A h : ValidFrom(regex, h, i, prev_repeatable) = Escape(h[i + 2])
        BY <3>3 DEF ValidFrom
      <4>2. CASE i < Len(regex)
        <5>1. f[i + 2] = g[i + 2]
          BY <2>2, <4>2
        <5> HIDE DEF Escape
        <5> QED
          BY <4>1, <5>1
      <4>3. CASE ~ (i < Len(regex))
        BY <4>1, <4>3
      <4> QED
        BY <4>2, <4>3
    <3>4. CASE ~ (i > Len(regex)) /\ regex[i] # "\\"
      <4>1. f[i + 1] = g[i + 1]
        BY <2>1, <3>1, <3>4
      <4> QED
        BY <3>4, <4>1 DEF ValidFrom
    <3> QED
      BY <3>2, <3>3, <3>4
  <2> QED
    BY <2>3
<1> DEFINE v == [prev_repeatable \in BOOLEAN |-> TRUE]
<1>4. v \in V
  OBVIOUS
<1>5. \E f : Rows(f)
  <2> HIDE DEF n, V, row, F, v
  <2>0. MadeFromLater(n, V, F)
    BY <1>1, <1>2, <1>3 DEF MadeFromLater
  <2>1. HasTable(n, V, F)
    BY <1>0, <1>4, <2>0, DownwardRecursion
  <2>4. PICK f \in [1 .. n -> V] : \A i \in 1 .. n : f[i] = F[i][f]
    BY <2>1 DEF HasTable
  <2>2. \A i \in 1 .. n : f[i] = row(f, i)
    BY <1>2, <2>4
  <2>3. f = [i \in 1 .. n |-> row(f, i)]
    BY <2>2
  <2> QED
    BY <2>3
<1> DEFINE valid == CHOOSE f : Rows(f)
<1>6. ValidateRegex(regex) = valid[1][FALSE]
  BY DEF ValidateRegex
<1>7. Rows(valid)
  BY <1>5
<1> HIDE DEF valid
<1>8. \A i \in 1 .. n : valid[i] = row(valid, i)
  <2> HIDE DEF n, row
  <2> DEFINE h == [i \in 1 .. n |-> row(valid, i)]
  <2>1. valid = h
    BY <1>7
  <2>2. \A i \in 1 .. n : h[i] = row(valid, i)
    OBVIOUS
  <2> HIDE DEF h
  <2> QED
    BY <2>1, <2>2
<1>9. \A i \in 1 .. n, prev_repeatable \in BOOLEAN :
        valid[i][prev_repeatable] = ValidFrom(regex, valid, i, prev_repeatable)
  BY <1>8
<1> QED
  BY <1>6, <1>9 DEF ValidTable

(* And for the atoms.                                                      *)
Atom(regex) ==
  [escaped : BOOLEAN, ch : {regex[k] : k \in 1 .. Len(regex) + 1}, repeat : Repeats \cup {"once"}]

AtomTable(regex, f) ==
  \A i \in 1 .. Len(regex) + 2 : f[i] = AtomsFrom(regex, f, i) /\ f[i] \in Seq(Atom(regex))

(* Atoms is the first entry of such a table.                               *)
LEMMA AtomTableOf ==
  ASSUME NEW regex \in Seq(Character)
  PROVE  \E f : AtomTable(regex, f) /\ Atoms(regex) = f[1]
<1> DEFINE n == Len(regex) + 2
           V == Seq(Atom(regex))
           row(f, i) == AtomsFrom(regex, f, i)
           F == [i \in 1 .. n |-> [f \in [1 .. n -> V] |-> row(f, i)]]
           Rows(f) == f = [i \in 1 .. n |-> row(f, i)]
<1>0. n \in Nat /\ Len(regex) \in Nat
  OBVIOUS
<1>1. ASSUME NEW i \in 1 .. n, NEW f \in [1 .. n -> V],
             NEW g, \A k \in i + 1 .. n : f[k] = g[k]
      PROVE  row(f, i) \in V /\ row(f, i) = row(g, i) /\ row(g, i) \in V
  <2>1. CASE i > Len(regex)
    BY <2>1 DEF AtomsFrom
  <2>2. CASE ~ (i > Len(regex)) /\ regex[i] \in {"^", "$"}
    <3>1. row(f, i) = f[i + 1] /\ row(g, i) = g[i + 1]
      BY <2>2 DEF AtomsFrom
    <3>2. i + 1 \in i + 1 .. n /\ i + 1 \in 1 .. n
      BY <1>0, <2>2
    <3> QED
      BY <1>1, <3>1, <3>2
  <2>3. CASE ~ (i > Len(regex)) /\ regex[i] \notin {"^", "$"}
    <3> DEFINE a == IF regex[i] = "\\" THEN i + 1 ELSE i
               repeat == IF a < Len(regex) /\ regex[a + 1] \in Repeats THEN regex[a + 1] ELSE "once"
               next == IF repeat = "once" THEN a + 1 ELSE a + 2
               first == [escaped |-> regex[i] = "\\", ch |-> regex[a], repeat |-> repeat]
    <3>1. row(f, i) = <<first>> \o f[next] /\ row(g, i) = <<first>> \o g[next]
      BY <2>3 DEF AtomsFrom
    <3>2. a \in i .. i + 1 /\ a \in 1 .. Len(regex) + 1
      BY <1>0, <2>3
    <3>3. next \in i + 1 .. n /\ next \in 1 .. n
      BY <1>0, <2>3, <3>2
    <3>4. repeat \in Repeats \cup {"once"} /\ (regex[i] = "\\") \in BOOLEAN
      OBVIOUS
    <3>5. first \in Atom(regex)
      BY <3>2, <3>4 DEF Atom
    <3> HIDE DEF first, next
    <3>6. f[next] = g[next] /\ f[next] \in V
      BY <1>1, <3>3
    <3> HIDE DEF row
    <3>7. <<first>> \o f[next] \in V
      BY <3>5, <3>6
    <3> QED
      BY <3>1, <3>6, <3>7
  <2> QED
    BY <2>1, <2>2, <2>3
<1>2. \A i \in 1 .. n, f \in [1 .. n -> V] : F[i][f] = row(f, i)
  <2> HIDE DEF n, V, row
  <2> QED
    OBVIOUS
<1>4. << >> \in V
  OBVIOUS
<1>5. \E f \in [1 .. n -> V] : Rows(f)
  <2> HIDE DEF n, V, row, F
  <2>0. MadeFromLater(n, V, F)
    BY <1>1, <1>2 DEF MadeFromLater
  <2>1. HasTable(n, V, F)
    BY <1>0, <1>4, <2>0, DownwardRecursion
  <2>4. PICK f \in [1 .. n -> V] : \A i \in 1 .. n : f[i] = F[i][f]
    BY <2>1 DEF HasTable
  <2>2. \A i \in 1 .. n : f[i] = row(f, i)
    BY <1>2, <2>4
  <2>3. f = [i \in 1 .. n |-> row(f, i)]
    BY <2>2
  <2> QED
    BY <2>3
<1> DEFINE atoms == CHOOSE f : Rows(f)
<1>6. Atoms(regex) = atoms[1]
  BY DEF Atoms
<1>7. Rows(atoms)
  BY <1>5
<1> HIDE DEF atoms
<1>8. \A i \in 1 .. n : atoms[i] = row(atoms, i)
  <2> HIDE DEF n, row
  <2> DEFINE h == [i \in 1 .. n |-> row(atoms, i)]
  <2>1. atoms = h
    BY <1>7
  <2>2. \A i \in 1 .. n : h[i] = row(atoms, i)
    OBVIOUS
  <2> HIDE DEF h
  <2> QED
    BY <2>1, <2>2
<1> DEFINE T == {i \in 1 .. n : atoms[i] \in V}
<1>9. \A i \in 1 .. n : (\A k \in i + 1 .. n : k \in T) => i \in T
  <2> SUFFICES ASSUME NEW i \in 1 .. n, \A k \in i + 1 .. n : k \in T PROVE i \in T
    OBVIOUS
  <2> HIDE DEF n, row, V
  <2>1. PICK f \in [1 .. n -> V] : \A k \in i + 1 .. n : f[k] = atoms[k]
    <3> DEFINE f == [k \in 1 .. n |-> IF k \in T THEN atoms[k] ELSE << >>]
    <3>1. f \in [1 .. n -> V]
      BY <1>4
    <3>2. \A k \in i + 1 .. n : f[k] = atoms[k]
      BY <1>0
    <3> HIDE DEF f
    <3> QED
      BY <3>1, <3>2
  <2>2. row(atoms, i) \in V
    BY <1>1, <2>1
  <2> QED
    BY <1>8, <2>2
<1>10. \A i \in 1 .. n : i \in T
  <2> HIDE DEF n, T
  <2> QED
    BY <1>0, <1>9, DownwardInduction, Zenon
<1>11. \A i \in 1 .. n : atoms[i] = AtomsFrom(regex, atoms, i) /\ atoms[i] \in Seq(Atom(regex))
  BY <1>8, <1>10
<1> QED
  BY <1>6, <1>11 DEF AtomTable

-----------------------------------------------------------------------------
(***************************************************************************)
(* Words: of no atom, and of one more.                                     *)
(***************************************************************************)
LEMMA WordOfNone ==
  ASSUME NEW str, NEW from \in Nat, NEW to \in Nat
  PROVE  AreWord(<< >>, str, from, to) <=> from = to
<1>1. Len(<< >>) = 0 /\ DOMAIN << >> = {}
  OBVIOUS
<1>2. ASSUME AreWord(<< >>, str, from, to) PROVE from = to
  BY <1>1, <1>2 DEF AreWord
<1>3. ASSUME from = to PROVE AreWord(<< >>, str, from, to)
  <2> DEFINE cut == [k \in 0 .. 0 |-> from]
  <2>1. cut \in [0 .. 0 -> from .. to] /\ cut[0] = from
    BY <1>3
  <2> HIDE DEF cut
  <2> QED
    BY <1>1, <1>3, <2>1 DEF AreWord
<1> QED
  BY <1>2, <1>3

(* One more atom in front takes a piece in front.                          *)
LEMMA WordOfOneMore ==
  ASSUME NEW X, NEW atom \in X, NEW rest \in Seq(X), NEW str,
         NEW from \in Nat, NEW to \in Nat
  PROVE  AreWord(<<atom>> \o rest, str, from, to) <=>
           \E mid \in from .. to : IsPiece(atom, str, from, mid) /\ AreWord(rest, str, mid, to)
<1> DEFINE atoms == <<atom>> \o rest
           n == Len(rest)
<1>1. /\ n \in Nat /\ Len(atoms) = n + 1
      /\ DOMAIN atoms = 1 .. n + 1 /\ DOMAIN rest = 1 .. n
      /\ atoms[1] = atom /\ \A i \in 1 .. n : atoms[i + 1] = rest[i]
  OBVIOUS
<1> HIDE DEF atoms, n
<1>2. ASSUME AreWord(atoms, str, from, to)
      PROVE  \E mid \in from .. to : IsPiece(atom, str, from, mid) /\ AreWord(rest, str, mid, to)
  <2>1. PICK cut \in [0 .. n + 1 -> from .. to] :
          /\ cut[0] = from /\ cut[n + 1] = to
          /\ \A i \in 1 .. n + 1 : IsPiece(atoms[i], str, cut[i - 1], cut[i])
    BY <1>1, <1>2 DEF AreWord
  <2> DEFINE mid == cut[1]
             T == {k \in 0 .. n : mid <= cut[k + 1]}
  <2>2. mid \in from .. to
    BY <1>1, <2>1
  <2>3. 0 \in T
    BY <1>1, <2>2
  <2>4. ASSUME NEW k \in 0 .. n, k # n, k \in T PROVE k + 1 \in T
    <3>1. k + 2 \in 1 .. n + 1 /\ k + 1 \in 0 .. n + 1 /\ k + 2 - 1 = k + 1 /\ k + 1 + 1 = k + 2
      BY <1>1, <2>4
    <3>2. cut[k + 1] <= cut[k + 2]
      BY <2>1, <3>1 DEF IsPiece
    <3>3. cut[k + 1] \in from .. to /\ cut[k + 2] \in from .. to
      BY <1>1, <2>1, <3>1
    <3> QED
      BY <1>1, <2>2, <2>4, <3>1, <3>2, <3>3
  <2>5. \A k \in 0 .. n : k \in T
    <3> HIDE DEF T
    <3> QED
      BY <1>1, <2>3, <2>4, UpwardInduction
  <2> DEFINE after == [k \in 0 .. n |-> cut[k + 1]]
  <2>6. after \in [0 .. n -> mid .. to]
    <3> SUFFICES ASSUME NEW k \in 0 .. n PROVE cut[k + 1] \in mid .. to
      OBVIOUS
    <3>1. k + 1 \in 0 .. n + 1
      BY <1>1
    <3>2. cut[k + 1] \in from .. to
      BY <2>1, <3>1
    <3> QED
      BY <2>2, <2>5, <3>2
  <2>7. after[0] = mid /\ after[n] = to
    BY <1>1, <2>1
  <2>8. ASSUME NEW i \in 1 .. n PROVE IsPiece(rest[i], str, after[i - 1], after[i])
    <3>1. i + 1 \in 1 .. n + 1 /\ i - 1 \in 0 .. n /\ i \in 0 .. n /\ i + 1 - 1 = i /\ i - 1 + 1 = i
      BY <1>1
    <3>2. IsPiece(atoms[i + 1], str, cut[i], cut[i + 1])
      BY <2>1, <3>1
    <3>3. after[i - 1] = cut[i] /\ after[i] = cut[i + 1] /\ atoms[i + 1] = rest[i]
      BY <1>1, <3>1
    <3> QED
      BY <3>2, <3>3
  <2>9. AreWord(rest, str, mid, to)
    <3> HIDE DEF after, mid
    <3> QED
      BY <1>1, <2>6, <2>7, <2>8 DEF AreWord, n
  <2>10. IsPiece(atom, str, from, mid)
    <3>1. 1 \in 1 .. n + 1 /\ 1 - 1 = 0
      BY <1>1
    <3>2. IsPiece(atoms[1], str, cut[0], cut[1])
      BY <2>1, <3>1
    <3> QED
      BY <1>1, <2>1, <3>2
  <2> QED
    BY <2>2, <2>9, <2>10
<1>3. ASSUME NEW mid \in from .. to, IsPiece(atom, str, from, mid), AreWord(rest, str, mid, to)
      PROVE  AreWord(atoms, str, from, to)
  <2>1. PICK after \in [0 .. n -> mid .. to] :
          /\ after[0] = mid /\ after[n] = to
          /\ \A i \in 1 .. n : IsPiece(rest[i], str, after[i - 1], after[i])
    BY <1>1, <1>3 DEF AreWord, n
  <2> DEFINE cut == [k \in 0 .. n + 1 |-> IF k = 0 THEN from ELSE after[k - 1]]
  <2>2. cut \in [0 .. n + 1 -> from .. to]
    <3> SUFFICES ASSUME NEW k \in 0 .. n + 1, k # 0 PROVE after[k - 1] \in from .. to
      BY <1>3
    <3>1. k - 1 \in 0 .. n
      BY <1>1
    <3>2. after[k - 1] \in mid .. to
      BY <2>1, <3>1
    <3> QED
      BY <1>3, <3>2
  <2>3. cut[0] = from /\ \A k \in 0 .. n : cut[k + 1] = after[k]
    BY <1>1
  <2> HIDE DEF cut
  <2>4. ASSUME NEW i \in 1 .. n + 1 PROVE IsPiece(atoms[i], str, cut[i - 1], cut[i])
    <3>1. CASE i = 1
      <4>1. cut[1] = mid
        BY <1>1, <2>1, <2>3
      <4> QED
        BY <1>1, <1>3, <2>3, <3>1, <4>1
    <3>2. CASE i # 1
      <4> DEFINE l == i - 1
      <4>1. l \in 1 .. n /\ l \in 0 .. n /\ l - 1 \in 0 .. n /\ l + 1 = i /\ l - 1 + 1 = l
        BY <1>1, <3>2
      <4> HIDE DEF l
      <4>2. cut[i] = after[l] /\ cut[l] = after[l - 1] /\ atoms[i] = rest[l]
        BY <1>1, <2>3, <4>1
      <4>3. IsPiece(rest[l], str, after[l - 1], after[l])
        BY <2>1, <4>1
      <4> QED
        BY <4>2, <4>3 DEF l
    <3> QED
      BY <3>1, <3>2
  <2>5. cut[n + 1] = to
    BY <1>1, <2>1, <2>3
  <2> QED
    BY <1>1, <2>2, <2>3, <2>4, <2>5 DEF AreWord
<1> QED
  BY <1>2, <1>3 DEF atoms

-----------------------------------------------------------------------------
(***************************************************************************)
(* The places of a valid expression where an atom begins, or it ends.      *)
(***************************************************************************)
IsEscaped(regex, i) == Cardinality(BackslashesBefore(regex, i)) % 2 = 1

(* A place is escaped iff a backslash that is not escaped is before it.    *)
LEMMA EscapedNext ==
  ASSUME NEW regex \in Seq(Character), NEW i \in 1 .. Len(regex)
  PROVE  IsEscaped(regex, i + 1) <=> regex[i] = "\\" /\ ~ IsEscaped(regex, i)
<1> DEFINE B == BackslashesBefore(regex, i)
           C == BackslashesBefore(regex, i + 1)
<1>0. i \in Nat /\ i + 1 - 1 = i
  OBVIOUS
<1>1. CASE regex[i] = "\\"
  <2>1. C = B \cup {i}
    <3>1. ASSUME NEW k \in C PROVE k \in B \cup {i}
      BY <1>0 DEF BackslashesBefore
    <3>2. ASSUME NEW k \in B PROVE k \in C
      BY <1>0, <1>1 DEF BackslashesBefore
    <3>3. i \in C
      BY <1>0, <1>1 DEF BackslashesBefore
    <3> QED
      BY <3>1, <3>2, <3>3
  <2>2. B \subseteq 1 .. i - 1 /\ i \notin B
    BY <1>0 DEF BackslashesBefore
  <2>3. IsFiniteSet(B)
    <3>1. IsFiniteSet(1 .. i - 1)
      BY <1>0, FS_Interval
    <3> QED
      BY <2>2, <3>1, FS_Subset
  <2> HIDE DEF B, C
  <2>4. Cardinality(B) \in Nat /\ Cardinality(C) = Cardinality(B) + 1
    BY <2>1, <2>2, <2>3, FS_AddElement, FS_CardinalityType
  <2>5. (Cardinality(B) + 1) % 2 = 1 <=> ~ (Cardinality(B) % 2 = 1)
    <3> DEFINE m == Cardinality(B)
    <3>1. m \in Nat
      BY <2>4
    <3> HIDE DEF m
    <3>2. (m + 1) % 2 = 1 <=> ~ (m % 2 = 1)
      BY <3>1
    <3> QED
      BY <3>2 DEF m
  <2> QED
    BY <1>1, <2>4, <2>5 DEF IsEscaped, B, C
<1>2. CASE regex[i] # "\\"
  <2>1. C = {}
    BY <1>0, <1>2 DEF BackslashesBefore
  <2>2. Cardinality(C) = 0
    BY <2>1, FS_EmptySet
  <2>3. 0 % 2 = 0
    OBVIOUS
  <2> QED
    BY <1>2, <2>2, <2>3 DEF IsEscaped
<1> QED
  BY <1>1, <1>2

(* Nothing escapes the first character.                                    *)
LEMMA FirstIsNotEscaped ==
  ASSUME NEW regex
  PROVE  ~ IsEscaped(regex, 1)
<1>1. BackslashesBefore(regex, 1) = {}
  BY DEF BackslashesBefore
<1>2. Cardinality({}) = 0 /\ 0 % 2 # 1
  BY FS_EmptySet
<1> QED
  BY <1>1, <1>2 DEF IsEscaped

(* An atom of the valid expression, or its end, is at i.                   *)
Begins(regex, valid, i) ==
  /\ i \in 1 .. Len(regex) + 1
  /\ \E prev_repeatable \in BOOLEAN : valid[i][prev_repeatable]
  /\ ~ IsEscaped(regex, i)
  /\ i = 1 /\ regex # << >> => regex[1] # "^"
  /\ i = Len(regex) + 1 => ~ EndsInDollar(regex)

(* The character of the atom at i, whether it is repeated, and the next.   *)
AtomAt(regex, i) == IF regex[i] = "\\" THEN i + 1 ELSE i
IsRepeated(regex, i) ==
  AtomAt(regex, i) < Len(regex) /\ regex[AtomAt(regex, i) + 1] \in Repeats
NextAt(regex, i) == AtomAt(regex, i) + (IF IsRepeated(regex, i) THEN 2 ELSE 1)

(* From an atom of a valid expression to the next: no ^ is inside, and a $ *)
(* that begins one is the unescaped $ at the end.                          *)
LEMMA AtomsBegin ==
  ASSUME NEW regex \in Seq(Character), NEW valid, ValidTable(regex, valid),
         NEW i \in 1 .. Len(regex), Begins(regex, valid, i)
  PROVE  /\ regex[i] # "^"
         /\ regex[i] = "$" => i = Len(regex) /\ EndsInDollar(regex)
         /\ regex[i] # "$" => /\ AtomAt(regex, i) \in 1 .. Len(regex)
                              /\ NextAt(regex, i) \in i + 1 .. Len(regex) + 1
                              /\ Begins(regex, valid, NextAt(regex, i))
<1> DEFINE n == Len(regex)
           V(k) == \E prev_repeatable \in BOOLEAN : valid[k][prev_repeatable]
           a == AtomAt(regex, i)
<1>0. n \in Nat /\ i \in Nat /\ i <= n /\ ~ (i > n) /\ regex # << >> /\ ~ IsEscaped(regex, i)
  BY DEF Begins
<1>1. PICK prev_repeatable \in BOOLEAN : ValidFrom(regex, valid, i, prev_repeatable)
  BY DEF Begins, ValidTable
<1>2. regex[i] # "^"
  <2>1. regex[i] = "^" => i = 1
    BY <1>0, <1>1, Zenon DEF ValidFrom
  <2> QED
    BY <1>0, <2>1 DEF Begins
<1>3. ASSUME regex[i] = "$" PROVE i = n /\ EndsInDollar(regex)
  <2>1. i = n
    <3>1. "$" # "\\"
      OBVIOUS
    <3> QED
      BY <1>0, <1>1, <1>3, <3>1, Zenon DEF ValidFrom
  <2>2. n > 0
    BY <1>0
  <2>3. Cardinality(BackslashesBefore(regex, n)) % 2 = 0
    <3>1. BackslashesBefore(regex, n) \subseteq 1 .. n - 1
      BY DEF BackslashesBefore
    <3>2. IsFiniteSet(BackslashesBefore(regex, n))
      <4>1. IsFiniteSet(1 .. n - 1)
        BY <1>0, FS_Interval
      <4> QED
        BY <3>1, <4>1, FS_Subset
    <3> DEFINE m == Cardinality(BackslashesBefore(regex, n))
    <3>3. m \in Nat
      BY <3>2, FS_CardinalityType
    <3>4. ~ (m % 2 = 1)
      BY <1>0, <2>1 DEF IsEscaped
    <3> HIDE DEF m
    <3>5. m % 2 = 0
      BY <3>3, <3>4
    <3> QED
      BY <3>5 DEF m
  <2> QED
    BY <1>3, <2>1, <2>2, <2>3 DEF EndsInDollar
<1>4. ASSUME regex[i] # "$"
      PROVE  /\ a \in i .. n
             /\ V(a + 1) /\ ~ IsEscaped(regex, a + 1)
             /\ a = n => ~ EndsInDollar(regex)
  <2>1. CASE regex[i] = "\\"
    <3>1. i < n /\ valid[i + 2][TRUE]
      BY <1>0, <1>1, <2>1, Zenon DEF ValidFrom
    <3>2. a = i + 1 /\ a + 1 = i + 2 /\ a \in 1 .. n
      BY <1>0, <2>1, <3>1 DEF AtomAt
    <3>3. IsEscaped(regex, a)
      BY <1>0, <2>1, <3>2, EscapedNext
    <3>4. ~ IsEscaped(regex, a + 1)
      BY <3>2, <3>3, EscapedNext
    <3>5. ASSUME a = n PROVE ~ EndsInDollar(regex)
      BY <3>3, <3>5 DEF EndsInDollar, IsEscaped
    <3>6. V(a + 1)
      BY <3>1, <3>2
    <3> QED
      BY <1>0, <3>2, <3>4, <3>5, <3>6
  <2>2. CASE regex[i] # "\\"
    <3>1. \E p \in BOOLEAN : valid[i + 1][p]
      <4>1. valid[i + 1][regex[i] \notin {"^", "$"} \cup Repeats]
        BY <1>0, <1>1, <2>2, Zenon DEF ValidFrom
      <4> DEFINE p == regex[i] \notin {"^", "$"} \cup Repeats
      <4>2. p \in BOOLEAN
        OBVIOUS
      <4> HIDE DEF p
      <4> QED
        BY <4>1, <4>2 DEF p
    <3>2. a = i
      BY <2>2 DEF AtomAt
    <3>3. ~ IsEscaped(regex, i + 1)
      BY <2>2, EscapedNext
    <3>4. a = n => ~ EndsInDollar(regex)
      BY <1>4, <3>2 DEF EndsInDollar
    <3> QED
      BY <1>0, <3>1, <3>2, <3>3, <3>4
  <2> QED
    BY <2>1, <2>2
<1>5. ASSUME regex[i] # "$", IsRepeated(regex, i)
      PROVE  /\ V(a + 2) /\ ~ IsEscaped(regex, a + 2) /\ a + 1 <= n
             /\ a + 1 = n => ~ EndsInDollar(regex)
  <2> DEFINE b == a + 1
  <2>1. b \in 1 .. n /\ b + 1 = a + 2 /\ regex[b] \in Repeats /\ a \in i .. n
    BY <1>0, <1>4, <1>5 DEF IsRepeated
  <2> HIDE DEF b
  <2>2. regex[b] \notin {"\\", "$"}
    BY <2>1 DEF Repeats
  <2>3. PICK p \in BOOLEAN : ValidFrom(regex, valid, b, p)
    BY <1>4, <1>5, <2>1 DEF ValidTable, b
  <2>4. valid[b + 1][regex[b] \notin {"^", "$"} \cup Repeats]
    <3>1. ~ (b > n) /\ regex[b] # "\\"
      BY <2>1, <2>2
    <3> QED
      BY <2>3, <3>1, Zenon DEF ValidFrom
  <2>5. valid[b + 1][FALSE]
    BY <2>1, <2>4
  <2>6. ~ IsEscaped(regex, b + 1)
    BY <2>1, <2>2, EscapedNext
  <2>7. b = n => ~ EndsInDollar(regex)
    BY <2>2 DEF EndsInDollar
  <2>8. V(b + 1)
    BY <2>5
  <2>9. b <= n /\ b = a + 1
    BY <2>1 DEF b
  <2> HIDE DEF V, a
  <2> QED
    BY <2>1, <2>6, <2>7, <2>8, <2>9
<1>6. ASSUME regex[i] # "$"
      PROVE  /\ a \in 1 .. n
             /\ NextAt(regex, i) \in i + 1 .. n + 1
             /\ Begins(regex, valid, NextAt(regex, i))
  <2> DEFINE next == NextAt(regex, i)
  <2>1. a \in i .. n
    BY <1>4, <1>6
  <2>2. next \in i + 1 .. n + 1 /\ V(next) /\ ~ IsEscaped(regex, next)
        /\ (next = n + 1 => ~ EndsInDollar(regex))
    <3>1. CASE IsRepeated(regex, i)
      <4>1. next = a + 2
        BY <3>1 DEF NextAt
      <4>2. /\ V(a + 2) /\ ~ IsEscaped(regex, a + 2) /\ a + 1 <= n
            /\ a + 1 = n => ~ EndsInDollar(regex)
        BY <1>5, <1>6, <3>1
      <4> HIDE DEF V, a, next
      <4> QED
        BY <1>0, <2>1, <4>1, <4>2
    <3>2. CASE ~ IsRepeated(regex, i)
      <4>1. next = a + 1
        BY <3>2 DEF NextAt
      <4>2. /\ V(a + 1) /\ ~ IsEscaped(regex, a + 1)
            /\ a = n => ~ EndsInDollar(regex)
        BY <1>4, <1>6
      <4> HIDE DEF V, a, next
      <4> QED
        BY <1>0, <2>1, <4>1, <4>2
    <3> QED
      BY <3>1, <3>2
  <2>3. next # 1
    BY <1>0, <2>2
  <2>4. Begins(regex, valid, next)
    <3> HIDE DEF next
    <3> QED
      BY <1>0, <2>2, <2>3 DEF Begins
  <2> QED
    BY <1>0, <2>1, <2>2, <2>4
<1> QED
  BY <1>2, <1>3, <1>6

(* The atom at i.                                                          *)
AtomOf(regex, i) ==
  [escaped |-> regex[i] = "\\", ch |-> regex[AtomAt(regex, i)],
   repeat |-> IF IsRepeated(regex, i) THEN regex[AtomAt(regex, i) + 1] ELSE "once"]

(* The atoms from the beginning of one are it and the atoms from the next. *)
LEMMA AtomsFromHere ==
  ASSUME NEW regex \in Seq(Character), NEW f, NEW i \in 1 .. Len(regex), regex[i] \notin {"^", "$"}
  PROVE  AtomsFrom(regex, f, i) = <<AtomOf(regex, i)>> \o f[NextAt(regex, i)]
<1>0. ~ (i > Len(regex))
  OBVIOUS
<1>1. CASE IsRepeated(regex, i)
  <2>1. regex[AtomAt(regex, i) + 1] # "once"
    BY <1>1 DEF IsRepeated, Repeats
  <2> QED
    BY <1>0, <1>1, <2>1 DEF AtomsFrom, AtomOf, NextAt, IsRepeated, AtomAt
<1>2. CASE ~ IsRepeated(regex, i)
  BY <1>0, <1>2 DEF AtomsFrom, AtomOf, NextAt, IsRepeated, AtomAt
<1> QED
  BY <1>1, <1>2

(* An atom matches the pieces that its repetition allows.                  *)
LEMMA MatchesAPiece ==
  ASSUME NEW regex \in Seq(Character), NEW str \in Seq(Character), NEW f,
         NEW i \in 1 .. Len(regex), regex[i] # "$", NEW j \in 1 .. Len(str) + 1
  PROVE  MatchesFrom(regex, str, f, i, j) <=>
           \E mid \in j - 1 .. Len(str) :
             IsPiece(AtomOf(regex, i), str, j - 1, mid) /\ f[NextAt(regex, i)][mid + 1]
<1> DEFINE length == Len(str)
           atom == AtomOf(regex, i)
           a == AtomAt(regex, i)
           matched(k) == AtomMatchesChar(atom.escaped, atom.ch, str[k])
           next == NextAt(regex, i)
<1>0. ~ (i > Len(regex)) /\ length \in Nat /\ j \in Nat /\ j <= length + 1 /\ j >= 1
  OBVIOUS
<1>1. CASE IsRepeated(regex, i)
  <2> DEFINE repeat == regex[a + 1]
  <2>1. atom.repeat = repeat /\ repeat \in Repeats /\ next = a + 2
    BY <1>1 DEF AtomOf, IsRepeated, NextAt
  <2>2. MatchesFrom(regex, str, f, i, j) <=>
          \E count \in MinCount(repeat) .. MaxCount(repeat, length) :
             /\ j + count <= length + 1
             /\ \A k \in j .. j + count - 1 : matched(k)
             /\ f[next][j + count]
    BY <1>0, <1>1, <2>1, Zenon DEF MatchesFrom, IsRepeated, AtomAt, AtomOf
  <2> HIDE DEF next, matched, repeat, a
  <2>3. ASSUME NEW count \in MinCount(repeat) .. MaxCount(repeat, length),
               j + count <= length + 1, \A k \in j .. j + count - 1 : matched(k), f[next][j + count]
        PROVE  \E mid \in j - 1 .. length : IsPiece(atom, str, j - 1, mid) /\ f[next][mid + 1]
    <3> DEFINE mid == j - 1 + count
    <3>1. count \in Nat /\ mid \in j - 1 .. length /\ mid + 1 = j + count /\ j + count - 1 = mid
          /\ j - 1 + 1 = j /\ mid - (j - 1) = count /\ j - 1 <= mid
      BY <1>0, <2>1, <2>3 DEF MinCount, MaxCount, Repeats
    <3>2. Times(repeat, count)
      <4> HIDE DEF mid
      <4>1. CASE repeat = "?"
        BY <1>0, <2>3, <4>1 DEF Times, MinCount, MaxCount
      <4>2. CASE repeat = "+"
        BY <1>0, <2>3, <4>2 DEF Times, MinCount, MaxCount
      <4>3. CASE repeat = "*"
        BY <4>3 DEF Times
      <4> QED
        BY <2>1, <4>1, <4>2, <4>3 DEF Repeats
    <3> HIDE DEF mid, atom
    <3>3. IsPiece(atom, str, j - 1, mid)
      BY <2>1, <2>3, <3>1, <3>2 DEF IsPiece, matched
    <3> QED
      BY <2>3, <3>1, <3>3
  <2>4. ASSUME NEW mid \in j - 1 .. length, IsPiece(atom, str, j - 1, mid), f[next][mid + 1]
        PROVE  \E count \in MinCount(repeat) .. MaxCount(repeat, length) :
                 /\ j + count <= length + 1
                 /\ \A k \in j .. j + count - 1 : matched(k)
                 /\ f[next][j + count]
    <3> DEFINE count == mid - (j - 1)
    <3>1. count \in Nat /\ count <= length /\ mid + 1 = j + count /\ j + count - 1 = mid
          /\ j - 1 + 1 = j /\ j + count <= length + 1
      BY <1>0
    <3>2. Times(repeat, count)
      BY <2>1, <2>4 DEF IsPiece
    <3>3. count \in MinCount(repeat) .. MaxCount(repeat, length)
      <4> HIDE DEF count
      <4>1. CASE repeat = "?"
        BY <1>0, <3>1, <3>2, <4>1 DEF Times, MinCount, MaxCount
      <4>2. CASE repeat = "+"
        BY <1>0, <3>1, <3>2, <4>2 DEF Times, MinCount, MaxCount
      <4>3. CASE repeat = "*"
        BY <1>0, <3>1, <3>2, <4>3 DEF Times, MinCount, MaxCount
      <4> QED
        BY <2>1, <4>1, <4>2, <4>3 DEF Repeats
    <3> HIDE DEF count, atom
    <3>4. \A k \in j .. j + count - 1 : matched(k)
      BY <2>4, <3>1 DEF IsPiece, matched
    <3> QED
      BY <2>4, <3>1, <3>3, <3>4
  <2> QED
    BY <2>2, <2>3, <2>4 DEF next
<1>2. CASE ~ IsRepeated(regex, i)
  <2>1. atom.repeat = "once" /\ next = a + 1
    BY <1>2 DEF AtomOf, NextAt
  <2>2. MatchesFrom(regex, str, f, i, j) <=> j <= length /\ matched(j) /\ f[next][j + 1]
    BY <1>0, <1>2, <2>1, Zenon DEF MatchesFrom, IsRepeated, AtomAt, AtomOf
  <2> HIDE DEF next, matched, a
  <2>3. ASSUME j <= length, matched(j), f[next][j + 1]
        PROVE  \E mid \in j - 1 .. length : IsPiece(atom, str, j - 1, mid) /\ f[next][mid + 1]
    <3>1. j \in j - 1 .. length /\ j - (j - 1) = 1 /\ j - 1 + 1 = j
      BY <1>0, <2>3
    <3>2. \A k \in j .. j : matched(k)
      BY <1>0, <2>3
    <3> HIDE DEF atom
    <3>3. IsPiece(atom, str, j - 1, j)
      BY <1>0, <2>1, <3>1, <3>2 DEF IsPiece, Times, matched
    <3> QED
      BY <2>3, <3>1, <3>3
  <2>4. ASSUME NEW mid \in j - 1 .. length, IsPiece(atom, str, j - 1, mid), f[next][mid + 1]
        PROVE  j <= length /\ matched(j) /\ f[next][j + 1]
    <3> HIDE DEF atom
    <3>1. mid - (j - 1) = 1
      BY <2>1, <2>4 DEF IsPiece, Times
    <3>2. mid = j /\ j - 1 + 1 = j
      BY <1>0, <3>1
    <3>3. matched(j)
      BY <1>0, <2>4, <3>2 DEF IsPiece, matched
    <3> QED
      BY <2>4, <3>2, <3>3
  <2> QED
    BY <2>2, <2>3, <2>4 DEF next
<1> QED
  BY <1>1, <1>2

-----------------------------------------------------------------------------
(***************************************************************************)
(* An expression within a pattern: d characters before it, and e after it. *)
(***************************************************************************)
Within(regex, pattern, d, e) ==
  /\ d \in {0, 1} /\ e \in {0, 1}
  /\ Len(pattern) = d + Len(regex) + e
  /\ \A i \in 1 .. Len(regex) : pattern[d + i] = regex[i]
  /\ e = 1 => pattern[d + Len(regex) + 1] = "$"

(* A word that begins at j, and ends with the text if it has to.           *)
Found(atoms, str, anchored, j) ==
  \E to \in j - 1 .. Len(str) : AreWord(atoms, str, j - 1, to) /\ (anchored => to = Len(str))

(* Without atoms there is the empty word only.                             *)
LEMMA NoAtomFound ==
  ASSUME NEW str \in Seq(Character), NEW anchored \in BOOLEAN, NEW j \in 1 .. Len(str) + 1
  PROVE  Found(<< >>, str, anchored, j) <=> (anchored => j > Len(str))
<1>0. j - 1 \in Nat /\ Len(str) \in Nat /\ j - 1 <= Len(str) /\ j \in Nat
  OBVIOUS
<1>1. \A to \in j - 1 .. Len(str) : AreWord(<< >>, str, j - 1, to) <=> j - 1 = to
  BY <1>0, WordOfNone
<1>2. ASSUME Found(<< >>, str, anchored, j), anchored PROVE j > Len(str)
  BY <1>0, <1>1, <1>2 DEF Found
<1>3. ASSUME anchored => j > Len(str) PROVE Found(<< >>, str, anchored, j)
  <2>1. j - 1 \in j - 1 .. Len(str) /\ (j > Len(str) => j - 1 = Len(str))
    BY <1>0
  <2>2. AreWord(<< >>, str, j - 1, j - 1)
    BY <1>1, <2>1
  <2> QED
    BY <1>3, <2>1, <2>2 DEF Found
<1> QED
  BY <1>2, <1>3

(* A word of one more atom is its piece and a word of the others.          *)
LEMMA OneMoreAtomFound ==
  ASSUME NEW X, NEW atom \in X, NEW rest \in Seq(X), NEW str \in Seq(Character),
         NEW anchored \in BOOLEAN, NEW j \in 1 .. Len(str) + 1
  PROVE  Found(<<atom>> \o rest, str, anchored, j) <=>
           \E mid \in j - 1 .. Len(str) :
             IsPiece(atom, str, j - 1, mid) /\ Found(rest, str, anchored, mid + 1)
<1> DEFINE length == Len(str)
           W(from, to) == AreWord(rest, str, from, to)
           E(to) == anchored => to = length
<1>0. j - 1 \in Nat /\ length \in Nat
  OBVIOUS
<1>1. \A to \in j - 1 .. length :
        AreWord(<<atom>> \o rest, str, j - 1, to) <=>
          \E mid \in j - 1 .. to : IsPiece(atom, str, j - 1, mid) /\ W(mid, to)
  BY <1>0, WordOfOneMore
<1>2. \A mid \in j - 1 .. length :
        Found(rest, str, anchored, mid + 1) <=> \E to \in mid .. length : W(mid, to) /\ E(to)
  <2> SUFFICES ASSUME NEW mid \in j - 1 .. length
               PROVE  Found(rest, str, anchored, mid + 1) <=>
                        \E to \in mid .. length : W(mid, to) /\ E(to)
    OBVIOUS
  <2>1. mid + 1 - 1 = mid
    BY <1>0
  <2> QED
    BY <2>1 DEF Found
<1> HIDE DEF W, length
<1>3. ASSUME Found(<<atom>> \o rest, str, anchored, j)
      PROVE  \E mid \in j - 1 .. length :
               IsPiece(atom, str, j - 1, mid) /\ Found(rest, str, anchored, mid + 1)
  <2>1. PICK to \in j - 1 .. length : AreWord(<<atom>> \o rest, str, j - 1, to) /\ E(to)
    BY <1>3 DEF Found, length
  <2>2. PICK mid \in j - 1 .. to : IsPiece(atom, str, j - 1, mid) /\ W(mid, to)
    BY <1>1, <2>1
  <2>3. mid \in j - 1 .. length /\ to \in mid .. length
    BY <1>0, <2>1, <2>2
  <2> QED
    BY <1>2, <2>1, <2>2, <2>3
<1>4. ASSUME NEW mid \in j - 1 .. length, IsPiece(atom, str, j - 1, mid),
             Found(rest, str, anchored, mid + 1)
      PROVE  Found(<<atom>> \o rest, str, anchored, j)
  <2>1. PICK to \in mid .. length : W(mid, to) /\ E(to)
    BY <1>2, <1>4
  <2>2. to \in j - 1 .. length /\ mid \in j - 1 .. to
    BY <1>0, <1>4, <2>1
  <2>3. AreWord(<<atom>> \o rest, str, j - 1, to)
    BY <1>1, <1>4, <2>1, <2>2
  <2> QED
    BY <2>1, <2>2, <2>3 DEF Found, length
<1> QED
  BY <1>3, <1>4 DEF length

(* The table of what matches is the one of what is found.                  *)
TablesOf(regex, pattern, str, valid, atoms, matches) ==
  /\ ValidTable(regex, valid)
  /\ AtomTable(regex, atoms)
  /\ MatchTable(pattern, str, matches)

(* From i on, the matching finds exactly the words of the atoms from i on. *)
MatchesWhatIsFound(regex, atoms, matches, str, d, anchored, i) ==
  \A j \in 1 .. Len(str) + 1 : matches[d + i][j] <=> Found(atoms[i], str, anchored, j)

(* At the end of the expression, or its $, the matching finds the empty    *)
(* word, at the end of the text if it must.                                *)
LEMMA AtTheEnd ==
  ASSUME NEW regex \in Seq(Character), NEW pattern \in Seq(Character), NEW str \in Seq(Character),
         NEW d, NEW e, Within(regex, pattern, d, e), NEW valid, NEW atoms, NEW matches,
         TablesOf(regex, pattern, str, valid, atoms, matches),
         NEW i \in 1 .. Len(regex) + 1, Begins(regex, valid, i),
         i = Len(regex) + 1 \/ regex[i] = "$"
  PROVE  MatchesWhatIsFound(regex, atoms, matches, str, d, e = 1 \/ EndsInDollar(regex), i)
<1> DEFINE n == Len(regex)
           anchored == e = 1 \/ EndsInDollar(regex)
<1>0. n \in Nat /\ i \in Nat /\ d \in Nat /\ d + i \in 1 .. Len(pattern) + 2 /\ Len(pattern) \in Nat
  BY DEF Within
<1>1. i = n + 1 \/ (i = n /\ EndsInDollar(regex) /\ regex[n] = "$")
  <2>1. CASE i # n + 1
    <3>1. i \in 1 .. Len(regex)
      BY <1>0, <2>1
    <3> QED
      BY <3>1, <2>1, AtomsBegin DEF TablesOf
  <2> QED
    BY <2>1
<1>2. atoms[n + 1] = << >>
  <2>1. n + 1 \in 1 .. Len(regex) + 2 /\ n + 1 > Len(regex)
    BY <1>0
  <2>2. atoms[n + 1] = AtomsFrom(regex, atoms, n + 1)
    BY <2>1 DEF TablesOf, AtomTable
  <2> QED
    BY <2>1, <2>2 DEF AtomsFrom
<1>3. atoms[i] = << >>
  <2>1. CASE i = n /\ regex[n] = "$"
    <3>1. i \in 1 .. Len(regex) + 2 /\ ~ (i > Len(regex)) /\ i + 1 = n + 1
      BY <1>0, <2>1
    <3>2. atoms[i] = AtomsFrom(regex, atoms, i)
      BY <3>1 DEF TablesOf, AtomTable
    <3>3. AtomsFrom(regex, atoms, i) = atoms[i + 1]
      BY <2>1, <3>1 DEF AtomsFrom
    <3> QED
      BY <1>2, <3>1, <3>2, <3>3
  <2> QED
    BY <1>1, <1>2, <2>1
<1>4. ASSUME NEW j \in 1 .. Len(str) + 1
      PROVE  matches[d + i][j] <=> (anchored => j > Len(str))
  <2>1. matches[d + i][j] = MatchesFrom(pattern, str, matches, d + i, j)
    BY <1>0 DEF TablesOf, MatchTable
  <2>2. CASE i = n /\ EndsInDollar(regex) /\ regex[n] = "$"
    <3>1. pattern[d + i] = "$" /\ ~ (d + i > Len(pattern))
      BY <1>0, <2>2 DEF Within
    <3>2. MatchesFrom(pattern, str, matches, d + i, j) = (j > Len(str))
      BY <3>1 DEF MatchesFrom
    <3> QED
      BY <2>1, <2>2, <3>2
  <2>3. CASE i = n + 1 /\ e = 1
    <3>1. pattern[d + i] = "$" /\ ~ (d + i > Len(pattern))
      BY <1>0, <2>3 DEF Within
    <3>2. MatchesFrom(pattern, str, matches, d + i, j) = (j > Len(str))
      BY <3>1 DEF MatchesFrom
    <3> QED
      BY <2>1, <2>3, <3>2
  <2>4. CASE i = n + 1 /\ e = 0
    <3>1. d + i > Len(pattern)
      BY <1>0, <2>4 DEF Within
    <3>2. MatchesFrom(pattern, str, matches, d + i, j)
      BY <3>1 DEF MatchesFrom
    <3>3. ~ anchored
      BY <2>4 DEF Begins
    <3> QED
      BY <2>1, <3>2, <3>3
  <2> QED
    BY <1>1, <2>2, <2>3, <2>4 DEF Within
<1>5. ASSUME NEW j \in 1 .. Len(str) + 1
      PROVE  Found(atoms[i], str, anchored, j) <=> (anchored => j > Len(str))
  <2>1. anchored \in BOOLEAN
    OBVIOUS
  <2> HIDE DEF anchored
  <2> QED
    BY <1>3, <2>1, NoAtomFound
<1> QED
  BY <1>4, <1>5 DEF MatchesWhatIsFound

(* FullPattern moves the atoms of the expression, and leaves them as they  *)
(* are.                                                                    *)
LEMMA SameAtomWithin ==
  ASSUME NEW regex \in Seq(Character), NEW pattern \in Seq(Character), NEW d, NEW e,
         Within(regex, pattern, d, e), NEW i \in 1 .. Len(regex), AtomAt(regex, i) \in 1 .. Len(regex)
  PROVE  /\ d + i \in 1 .. Len(pattern)
         /\ pattern[d + i] = regex[i]
         /\ AtomOf(pattern, d + i) = AtomOf(regex, i)
         /\ NextAt(pattern, d + i) = d + NextAt(regex, i)
<1> DEFINE n == Len(regex)
           a == AtomAt(regex, i)
<1>0. n \in Nat /\ i \in Nat /\ d \in Nat /\ e \in {0, 1} /\ a \in Nat
      /\ Len(pattern) = d + n + e /\ a <= n
  BY DEF Within
<1>1. d + i \in 1 .. Len(pattern) /\ pattern[d + i] = regex[i]
  BY <1>0 DEF Within
<1>2. AtomAt(pattern, d + i) = d + a
  BY <1>0, <1>1 DEF AtomAt
<1> HIDE DEF a
<1>3. pattern[d + a] = regex[a]
  BY <1>0 DEF Within, a
<1>4. /\ IsRepeated(pattern, d + i) <=> IsRepeated(regex, i)
      /\ IsRepeated(regex, i) => pattern[d + a + 1] = regex[a + 1]
  <2>1. CASE a < n
    <3>1. a + 1 \in 1 .. n /\ d + a < Len(pattern) /\ d + (a + 1) = d + a + 1
      BY <1>0, <2>1
    <3>2. pattern[d + a + 1] = regex[a + 1]
      BY <3>1 DEF Within
    <3> QED
      BY <1>2, <2>1, <3>1, <3>2 DEF IsRepeated, a
  <2>2. CASE a = n
    <3>1. ~ IsRepeated(regex, i)
      BY <1>0, <2>2 DEF IsRepeated, a
    <3>2. ~ IsRepeated(pattern, d + i)
      <4>1. CASE e = 0
        BY <1>0, <1>2, <2>2, <4>1 DEF IsRepeated
      <4>2. CASE e = 1
        <5>1. pattern[d + a + 1] = "$"
          BY <1>0, <2>2, <4>2 DEF Within
        <5>2. "$" \notin Repeats
          BY DEF Repeats
        <5> QED
          BY <1>2, <5>1, <5>2 DEF IsRepeated
      <4> QED
        BY <1>0, <4>1, <4>2
    <3> QED
      BY <3>1, <3>2
  <2> QED
    BY <1>0, <2>1, <2>2
<1>5. AtomOf(pattern, d + i) = AtomOf(regex, i)
  BY <1>1, <1>2, <1>3, <1>4 DEF AtomOf, a
<1>6. NextAt(pattern, d + i) = d + NextAt(regex, i)
  BY <1>0, <1>2, <1>4 DEF NextAt, a
<1> QED
  BY <1>1, <1>5, <1>6

(* From each atom on, the matching finds exactly the words of the rest.    *)
LEMMA AtomsMatch ==
  ASSUME NEW regex \in Seq(Character), NEW pattern \in Seq(Character), NEW str \in Seq(Character),
         NEW d, NEW e, Within(regex, pattern, d, e), NEW valid, NEW atoms, NEW matches,
         TablesOf(regex, pattern, str, valid, atoms, matches)
  PROVE  \A i \in 1 .. Len(regex) + 1 :
           Begins(regex, valid, i) =>
             MatchesWhatIsFound(regex, atoms, matches, str, d, e = 1 \/ EndsInDollar(regex), i)
<1> DEFINE n == Len(regex)
           anchored == e = 1 \/ EndsInDollar(regex)
           Agree(i) == MatchesWhatIsFound(regex, atoms, matches, str, d, anchored, i)
           T == {i \in 1 .. n + 1 : Begins(regex, valid, i) => Agree(i)}
<1>0. n \in Nat /\ n + 1 \in Nat /\ d \in Nat /\ anchored \in BOOLEAN
  BY DEF Within
<1>1. ASSUME NEW i \in 1 .. n + 1, \A k \in i + 1 .. n + 1 : k \in T, Begins(regex, valid, i)
      PROVE  Agree(i)
  <2>1. CASE i = n + 1 \/ regex[i] = "$"
    BY <1>1, <2>1, AtTheEnd
  <2>2. CASE i # n + 1 /\ regex[i] # "$"
    <3> DEFINE next == NextAt(regex, i)
               atom == AtomOf(regex, i)
               p == d + i
    <3>1. i \in 1 .. Len(regex) /\ i \in Nat
      BY <1>0, <2>2
    <3>2. /\ regex[i] # "^" /\ AtomAt(regex, i) \in 1 .. n
          /\ next \in i + 1 .. n + 1 /\ Begins(regex, valid, next)
      BY <1>1, <2>2, <3>1, AtomsBegin DEF TablesOf
    <3>3. /\ p \in 1 .. Len(pattern) /\ pattern[p] # "$"
          /\ AtomOf(pattern, p) = atom /\ NextAt(pattern, p) = d + next
      BY <2>2, <3>1, <3>2, SameAtomWithin
    <3>4. atoms[i] = <<atom>> \o atoms[next]
      <4>1. i \in 1 .. Len(regex) + 2
        BY <1>0, <3>1
      <4>2. atoms[i] = AtomsFrom(regex, atoms, i)
        BY <4>1 DEF TablesOf, AtomTable
      <4> QED
        BY <2>2, <3>1, <3>2, <4>2, AtomsFromHere
    <3>5. atom \in Atom(regex)
      <4>1. AtomAt(regex, i) \in 1 .. Len(regex) + 1
        BY <1>0, <3>2
      <4>2. (IF IsRepeated(regex, i) THEN regex[AtomAt(regex, i) + 1] ELSE "once")
              \in Repeats \cup {"once"}
        BY DEF IsRepeated
      <4>3. (regex[i] = "\\") \in BOOLEAN
        OBVIOUS
      <4> QED
        BY <4>1, <4>2, <4>3 DEF Atom, AtomOf
    <3>6. atoms[next] \in Seq(Atom(regex))
      <4>1. next \in 1 .. Len(regex) + 2
        BY <1>0, <3>1, <3>2
      <4> QED
        BY <4>1 DEF TablesOf, AtomTable
    <3>7. Agree(next)
      BY <1>1, <3>2
    <3> HIDE DEF next, atom, p, anchored
    <3>8. ASSUME NEW j \in 1 .. Len(str) + 1
          PROVE  matches[p][j] <=> Found(atoms[i], str, anchored, j)
      <4>1. matches[p][j] = MatchesFrom(pattern, str, matches, p, j)
        <5>1. p \in 1 .. Len(pattern) + 2
          BY <3>3
        <5> QED
          BY <5>1 DEF TablesOf, MatchTable
      <4>2. MatchesFrom(pattern, str, matches, p, j) <=>
              \E mid \in j - 1 .. Len(str) :
                IsPiece(atom, str, j - 1, mid) /\ matches[d + next][mid + 1]
        BY <3>3, MatchesAPiece
      <4>3. \A mid \in j - 1 .. Len(str) :
              matches[d + next][mid + 1] <=> Found(atoms[next], str, anchored, mid + 1)
        <5>1. \A mid \in j - 1 .. Len(str) : mid + 1 \in 1 .. Len(str) + 1
          OBVIOUS
        <5> QED
          BY <3>7, <5>1 DEF MatchesWhatIsFound
      <4>4. Found(atoms[i], str, anchored, j) <=>
              \E mid \in j - 1 .. Len(str) :
                IsPiece(atom, str, j - 1, mid) /\ Found(atoms[next], str, anchored, mid + 1)
        BY <1>0, <3>4, <3>5, <3>6, OneMoreAtomFound
      <4> QED
        BY <4>1, <4>2, <4>3, <4>4
    <3> QED
      BY <3>8 DEF MatchesWhatIsFound, p
  <2> QED
    BY <2>1, <2>2
<1>2. \A i \in 1 .. n + 1 : (\A k \in i + 1 .. n + 1 : k \in T) => i \in T
  <2> HIDE DEF Agree
  <2> QED
    BY <1>1
<1>3. \A i \in 1 .. n + 1 : i \in T
  <2> HIDE DEF T, n
  <2> QED
    BY <1>0, <1>2, DownwardInduction
<1> QED
  BY <1>3

(* Where the matching of a valid expression begins.                        *)
StartAt(regex) == IF regex # << >> /\ regex[1] = "^" THEN 2 ELSE 1

(* A valid expression has an atom there, or its end.                       *)
LEMMA ValidBegins ==
  ASSUME NEW regex \in Seq(Character), NEW valid, ValidTable(regex, valid), valid[1][FALSE]
  PROVE  /\ StartAt(regex) \in 1 .. Len(regex) + 1
         /\ Begins(regex, valid, StartAt(regex))
<1> DEFINE n == Len(regex)
<1>0. n \in Nat /\ 1 \in 1 .. n + 1
  OBVIOUS
<1>1. CASE ~ (regex # << >> /\ regex[1] = "^")
  <2>1. n + 1 = 1 => ~ EndsInDollar(regex)
    BY <1>0 DEF EndsInDollar
  <2> QED
    BY <1>0, <1>1, <2>1, FirstIsNotEscaped DEF Begins, StartAt
<1>2. CASE regex # << >> /\ regex[1] = "^"
  <2>1. n >= 1 /\ 1 \in 1 .. n /\ 2 \in 1 .. n + 1
    BY <1>0, <1>2
  <2>2. \E p \in BOOLEAN : valid[2][p]
    <3>1. ValidFrom(regex, valid, 1, FALSE)
      BY <1>0 DEF ValidTable
    <3>2. ~ (1 > n) /\ regex[1] # "\\"
      BY <1>2, <2>1
    <3>3. valid[1 + 1][regex[1] \notin {"^", "$"} \cup Repeats]
      BY <3>1, <3>2, Zenon DEF ValidFrom
    <3> DEFINE p == regex[1] \notin {"^", "$"} \cup Repeats
    <3>4. p \in BOOLEAN /\ 1 + 1 = 2
      OBVIOUS
    <3> HIDE DEF p
    <3> QED
      BY <3>3, <3>4 DEF p
  <2>3. ~ IsEscaped(regex, 2)
    <3>1. ~ IsEscaped(regex, 1 + 1)
      BY <1>2, <2>1, EscapedNext
    <3> QED
      BY <3>1
  <2>4. n + 1 = 2 => ~ EndsInDollar(regex)
    BY <1>0, <1>2 DEF EndsInDollar
  <2>5. Begins(regex, valid, 2)
    BY <2>1, <2>2, <2>3, <2>4 DEF Begins
  <2>6. StartAt(regex) = 2
    BY <1>2 DEF StartAt
  <2> QED
    BY <2>1, <2>5, <2>6
<1> QED
  BY <1>1, <1>2

(* An anchor in front is no atom.                                          *)
LEMMA AtomsOfStart ==
  ASSUME NEW regex \in Seq(Character), NEW atoms, AtomTable(regex, atoms)
  PROVE  atoms[1] = atoms[StartAt(regex)]
<1>1. CASE regex # << >> /\ regex[1] = "^"
  <2>1. 1 \in 1 .. Len(regex) + 2 /\ ~ (1 > Len(regex)) /\ 1 + 1 = 2
    BY <1>1
  <2>2. atoms[1] = AtomsFrom(regex, atoms, 1)
    BY <2>1 DEF AtomTable
  <2>3. AtomsFrom(regex, atoms, 1) = atoms[2]
    BY <1>1, <2>1 DEF AtomsFrom
  <2> QED
    BY <1>1, <2>2, <2>3 DEF StartAt
<1> QED
  BY <1>1 DEF StartAt

(* MatchRegexAtHead finds the words of a valid expression.                 *)
LEMMA HeadFindsWords ==
  ASSUME NEW regex \in Seq(Character), ValidateRegex(regex),
         NEW pattern \in Seq(Character), NEW str \in Seq(Character),
         NEW d, NEW e, Within(regex, pattern, d, e), NEW j \in 1 .. Len(str) + 1
  PROVE  MatchRegexAtHead(pattern, d + StartAt(regex), str, j) <=>
           \E to \in j - 1 .. Len(str) :
             /\ IsWord(regex, str, j - 1, to)
             /\ (e = 1 \/ EndsInDollar(regex)) => to = Len(str)
<1> DEFINE anchored == e = 1 \/ EndsInDollar(regex)
           start == StartAt(regex)
<1>1. PICK valid : ValidTable(regex, valid) /\ ValidateRegex(regex) = valid[1][FALSE]
  BY ValidTableOf
<1>2. PICK atoms : AtomTable(regex, atoms) /\ Atoms(regex) = atoms[1]
  BY AtomTableOf
<1>3. PICK matches : /\ MatchTable(pattern, str, matches)
                     /\ \A i, k : MatchRegexAtHead(pattern, i, str, k) = matches[i][k]
  BY MatchTableAtHead
<1>4. TablesOf(regex, pattern, str, valid, atoms, matches)
  BY <1>1, <1>2, <1>3 DEF TablesOf
<1>5. start \in 1 .. Len(regex) + 1 /\ Begins(regex, valid, start)
  BY <1>1, ValidBegins
<1>6. MatchesWhatIsFound(regex, atoms, matches, str, d, anchored, start)
  BY <1>4, <1>5, AtomsMatch
<1> HIDE DEF anchored, start
<1>7. MatchRegexAtHead(pattern, d + start, str, j) <=> Found(atoms[start], str, anchored, j)
  BY <1>3, <1>6 DEF MatchesWhatIsFound
<1>8. atoms[start] = Atoms(regex)
  BY <1>2, AtomsOfStart DEF start
<1> QED
  BY <1>7, <1>8 DEF Found, IsWord, anchored, start

(* PartialMatch finds a valid expression where it is.                      *)
LEMMA PartialMatchFinds ==
  ASSUME NEW regex \in Seq(Character), ValidateRegex(regex), NEW str \in Seq(Character)
  PROVE  MatchRegexAnywhere(regex, str) <=> IsFound(regex, str)
<1> DEFINE E(to) == EndsInDollar(regex) => to = Len(str)
           W(from, to) == IsWord(regex, str, from, to)
           start == StartAt(regex)
           caret == regex # << >> /\ regex[1] = "^"
<1>0. Len(str) \in Nat
  OBVIOUS
<1>1. Within(regex, regex, 0, 0)
  BY DEF Within
<1>2. \A j \in 1 .. Len(str) + 1 :
        MatchRegexAtHead(regex, start, str, j) <=> \E to \in j - 1 .. Len(str) : W(j - 1, to) /\ E(to)
  <2> SUFFICES ASSUME NEW j \in 1 .. Len(str) + 1
               PROVE  MatchRegexAtHead(regex, start, str, j) <=>
                        \E to \in j - 1 .. Len(str) : W(j - 1, to) /\ E(to)
    OBVIOUS
  <2>1. 0 + start = start
    BY DEF StartAt
  <2>2. MatchRegexAtHead(regex, 0 + start, str, j) <=>
           \E to \in j - 1 .. Len(str) :
             /\ IsWord(regex, str, j - 1, to)
             /\ (0 = 1 \/ EndsInDollar(regex)) => to = Len(str)
    BY <1>1, HeadFindsWords
  <2> QED
    BY <2>1, <2>2
<1>3. IsFound(regex, str) <=>
        \E from \in 0 .. Len(str), to \in 0 .. Len(str) :
          from <= to /\ W(from, to) /\ (caret => from = 0) /\ E(to)
  BY DEF IsFound
<1>4. CASE caret
  <2>1. start = 2 /\ Head(regex) = "^"
    BY <1>4 DEF StartAt
  <2>2. MatchRegexAnywhere(regex, str) <=> MatchRegexAtHead(regex, start, str, 1)
    BY <1>4, <2>1 DEF MatchRegexAnywhere
  <2> HIDE DEF W, E, start, caret
  <2>3. MatchRegexAnywhere(regex, str) <=> \E to \in 0 .. Len(str) : W(0, to) /\ E(to)
    <3>1. 1 \in 1 .. Len(str) + 1 /\ 1 - 1 = 0
      BY <1>0
    <3> QED
      BY <1>2, <2>2, <3>1
  <2> QED
    BY <1>0, <1>3, <1>4, <2>3
<1>5. CASE ~ caret
  <2>1. start = 1
    BY <1>5 DEF StartAt
  <2>2. MatchRegexAnywhere(regex, str) <=>
          \E from \in 1 .. Len(str) + 1 : MatchRegexAtHead(regex, start, str, from)
    BY <1>5, <2>1 DEF MatchRegexAnywhere
  <2> HIDE DEF W, E, start, caret
  <2>3. ASSUME MatchRegexAnywhere(regex, str) PROVE IsFound(regex, str)
    <3>1. PICK j \in 1 .. Len(str) + 1 : MatchRegexAtHead(regex, start, str, j)
      BY <2>2, <2>3
    <3>2. PICK to \in j - 1 .. Len(str) : W(j - 1, to) /\ E(to)
      BY <1>2, <3>1
    <3>3. j - 1 \in 0 .. Len(str) /\ to \in 0 .. Len(str) /\ j - 1 <= to
      BY <1>0, <3>1, <3>2
    <3> QED
      BY <1>3, <1>5, <3>2, <3>3
  <2>4. ASSUME IsFound(regex, str) PROVE MatchRegexAnywhere(regex, str)
    <3>1. PICK from \in 0 .. Len(str), to \in 0 .. Len(str) : from <= to /\ W(from, to) /\ E(to)
      BY <1>3, <2>4
    <3>2. from + 1 \in 1 .. Len(str) + 1 /\ from + 1 - 1 = from /\ to \in from .. Len(str)
      BY <1>0, <3>1
    <3>3. MatchRegexAtHead(regex, start, str, from + 1)
      BY <1>2, <3>1, <3>2
    <3> QED
      BY <2>2, <3>2, <3>3
  <2> QED
    BY <2>3, <2>4
<1> QED
  BY <1>4, <1>5

(* A sequence of one element,                                              *)
LEMMA OneElement ==
  ASSUME NEW S, NEW c \in S
  PROVE  <<c>> \in Seq(S) /\ Len(<<c>>) = 1 /\ <<c>>[1] = c
OBVIOUS

(* and of one more behind the others.                                      *)
LEMMA OneMoreElement ==
  ASSUME NEW S, NEW s \in Seq(S), NEW c \in S
  PROVE  /\ s \o <<c>> \in Seq(S) /\ Len(s \o <<c>>) = Len(s) + 1
         /\ (s \o <<c>>)[Len(s) + 1] = c
OBVIOUS

(* FullMatch wants all of the text.                                        *)
LEMMA FullMatchTakesAll ==
  ASSUME NEW regex \in Seq(Character), ValidateRegex(regex), ~ EscapedDollarAtEnd(regex),
         NEW str \in Seq(Character)
  PROVE  MatchRegexAnywhere(FullPattern(regex), str) <=> IsWord(regex, str, 0, Len(str))
<1> DEFINE n == Len(regex)
           d == IF n > 0 /\ regex[1] = "^" THEN 0 ELSE 1
           e == IF n > 0 /\ regex[n] = "$" THEN 0 ELSE 1
           pattern == FullPattern(regex)
           front == IF n > 0 /\ regex[1] = "^" THEN << >> ELSE <<"^">>
           back == IF n > 0 /\ regex[n] = "$" THEN << >> ELSE <<"$">>
<1>0. n \in Nat /\ Len(str) \in Nat /\ (n > 0 <=> regex # << >>)
  OBVIOUS
<1>1. pattern = front \o regex \o back
  BY DEF FullPattern
<1>2. front \in Seq(Character) /\ back \in Seq(Character) /\ Len(front) = d /\ Len(back) = e
      /\ (d = 1 => front[1] = "^") /\ (e = 1 => back[1] = "$") /\ d \in {0, 1} /\ e \in {0, 1}
      /\ (d = 0 => n > 0 /\ regex[1] = "^") /\ (e = 0 => n > 0 /\ regex[n] = "$")
  <2>1. /\ front \in Seq(Character) /\ Len(front) = d /\ (d = 1 => front[1] = "^")
        /\ d \in {0, 1} /\ (d = 0 => n > 0 /\ regex[1] = "^")
    <3>1. CASE n > 0 /\ regex[1] = "^"
      <4>1. d = 0 /\ front = << >>
        BY <3>1
      <4> HIDE DEF d, front
      <4> QED
        BY <3>1, <4>1
    <3>2. CASE ~ (n > 0 /\ regex[1] = "^")
      <4>1. d = 1 /\ front = <<"^">>
        BY <3>2
      <4>2. <<"^">> \in Seq(Character) /\ Len(<<"^">>) = 1 /\ <<"^">>[1] = "^"
        <5>1. "^" \in Character
          BY TextsHaveCharacters DEF AsciiPunct
        <5> QED
          BY <5>1, OneElement
      <4> HIDE DEF d, front
      <4> QED
        BY <4>1, <4>2
    <3> QED
      BY <3>1, <3>2
  <2>2. /\ back \in Seq(Character) /\ Len(back) = e /\ (e = 1 => back[1] = "$")
        /\ e \in {0, 1} /\ (e = 0 => n > 0 /\ regex[n] = "$")
    <3>1. CASE n > 0 /\ regex[n] = "$"
      <4>1. e = 0 /\ back = << >>
        BY <3>1
      <4> HIDE DEF e, back
      <4> QED
        BY <3>1, <4>1
    <3>2. CASE ~ (n > 0 /\ regex[n] = "$")
      <4>1. e = 1 /\ back = <<"$">>
        BY <3>2
      <4>2. <<"$">> \in Seq(Character) /\ Len(<<"$">>) = 1 /\ <<"$">>[1] = "$"
        <5>1. "$" \in Character
          BY TextsHaveCharacters DEF AsciiPunct
        <5> QED
          BY <5>1, OneElement
      <4> HIDE DEF e, back
      <4> QED
        BY <4>1, <4>2
    <3> QED
      BY <3>1, <3>2
  <2> HIDE DEF d, e, front, back
  <2> QED
    BY <2>1, <2>2
<1> HIDE DEF front, back, d, e, pattern
<1> DEFINE most == front \o regex
<1>3. /\ most \in Seq(Character) /\ Len(most) = d + n
      /\ \A i \in 1 .. n : most[d + i] = regex[i]
      /\ d = 1 => most[1] = "^"
  <2>1. most \in Seq(Character) /\ Len(most) = d + n
    BY <1>0, <1>2
  <2>2. \A i \in 1 .. n : most[d + i] = regex[i]
    BY <1>0, <1>2
  <2>3. ASSUME d = 1 PROVE most[1] = "^"
    <3>1. 1 \in 1 .. Len(front) + Len(regex) /\ 1 <= Len(front)
      BY <1>0, <1>2, <2>3
    <3>2. most[1] = front[1]
      BY <1>2, <3>1, ConcatProperties
    <3> QED
      BY <1>2, <2>3, <3>2
  <2> QED
    BY <2>1, <2>2, <2>3
<1>4. pattern = most \o back
  BY <1>1
<1> HIDE DEF most
<1>5. /\ pattern \in Seq(Character) /\ Len(pattern) = d + n + e
      /\ \A i \in 1 .. d + n : pattern[i] = most[i]
      /\ e = 1 => pattern[d + n + 1] = "$"
  <2>1. pattern \in Seq(Character) /\ Len(pattern) = d + n + e
    BY <1>0, <1>2, <1>3, <1>4
  <2>2. \A i \in 1 .. d + n : pattern[i] = most[i]
    BY <1>0, <1>2, <1>3, <1>4
  <2>3. ASSUME e = 1 PROVE pattern[d + n + 1] = "$"
    <3>1. back = <<"$">>
      BY <2>3 DEF back, e
    <3>2. "$" \in Character
      BY TextsHaveCharacters DEF AsciiPunct
    <3>3. (most \o <<"$">>)[Len(most) + 1] = "$"
      BY <1>3, <3>2, OneMoreElement
    <3> QED
      BY <1>3, <1>4, <3>1, <3>3
  <2> QED
    BY <2>1, <2>2, <2>3
<1>6. Within(regex, pattern, d, e)
  <2>1. \A i \in 1 .. n : d + i \in 1 .. d + n
    BY <1>0, <1>2
  <2> QED
    BY <1>2, <1>3, <1>5, <2>1 DEF Within
<1>7. d + StartAt(regex) = 2 /\ pattern # << >> /\ Head(pattern) = "^"
  <2>1. d + StartAt(regex) = 2
    BY <1>0 DEF StartAt, d
  <2>2. Len(pattern) > 0 /\ 1 \in 1 .. d + n
    BY <1>0, <1>2, <1>5
  <2>3. pattern[1] = "^"
    <3>1. CASE d = 1
      BY <1>3, <1>5, <2>2, <3>1
    <3>2. CASE d = 0
      <4>1. n > 0 /\ regex[1] = "^" /\ 1 \in 1 .. n /\ d + 1 = 1
        BY <1>0, <1>2, <3>2
      <4> QED
        BY <1>3, <1>5, <2>2, <4>1
    <3> QED
      BY <1>2, <3>1, <3>2
  <2> QED
    BY <1>5, <2>1, <2>2, <2>3
<1>8. MatchRegexAnywhere(pattern, str) <=> MatchRegexAtHead(pattern, d + StartAt(regex), str, 1)
  BY <1>7 DEF MatchRegexAnywhere
<1>9. e = 1 \/ EndsInDollar(regex)
  BY <1>0, <1>2 DEF EscapedDollarAtEnd
<1>10. MatchRegexAtHead(pattern, d + StartAt(regex), str, 1) <=>
         \E to \in 1 - 1 .. Len(str) :
           /\ IsWord(regex, str, 1 - 1, to)
           /\ (e = 1 \/ EndsInDollar(regex)) => to = Len(str)
  <2>1. 1 \in 1 .. Len(str) + 1
    BY <1>0
  <2> QED
    BY <1>5, <1>6, <2>1, HeadFindsWords
<1>11. 1 - 1 = 0 /\ Len(str) \in 0 .. Len(str)
  BY <1>0
<1> QED
  BY <1>8, <1>9, <1>10, <1>11 DEF pattern

-----------------------------------------------------------------------------
(***************************************************************************)
(* The tables of the filters.                                              *)
(***************************************************************************)
LEMMA RowOfMatches ==
  ASSUME NEW pattern \in Seq(Character), NEW str \in Seq(Character), NEW next, NEW i
  PROVE  /\ MatchesRow(pattern, str, next, i) \in [1 .. Len(str) + 1 -> BOOLEAN]
         /\ \A j \in 1 .. Len(str) + 1 :
              MatchesRow(pattern, str, next, i)[j]
                = PatternMatchesFrom(pattern, str, MatchesRow(pattern, str, next, i), next, i, j)
<1> DEFINE n == Len(str) + 1
           V == BOOLEAN
           entry(f, j) == PatternMatchesFrom(pattern, str, f, next, i, j)
           F == [j \in 1 .. n |-> [f \in [1 .. n -> V] |-> entry(f, j)]]
           Row(f) == f = [j \in 1 .. n |-> entry(f, j)]
<1>0. n \in Nat
  OBVIOUS
<1>1. ASSUME NEW j \in 1 .. n, NEW f PROVE entry(f, j) \in V
  <2>1. CASE i > Len(pattern) \/ pattern[i] = ":"
    <3>1. entry(f, j) = (j > Len(str))
      BY <2>1 DEF PatternMatchesFrom
    <3>2. (j > Len(str)) \in BOOLEAN
      OBVIOUS
    <3> QED
      BY <3>1, <3>2
  <2>2. CASE ~ (i > Len(pattern) \/ pattern[i] = ":")
    BY <2>2, Zenon DEF PatternMatchesFrom
  <2> QED
    BY <2>1, <2>2
<1>2. \A j \in 1 .. n, f \in [1 .. n -> V] : F[j][f] = entry(f, j)
  <2> HIDE DEF n, V, entry
  <2> QED
    OBVIOUS
<1>3. \A j \in 1 .. n, f \in [1 .. n -> V], g \in [1 .. n -> V] :
        (\A k \in j + 1 .. n : f[k] = g[k]) => entry(f, j) = entry(g, j)
  <2> SUFFICES ASSUME NEW j \in 1 .. n, NEW f \in [1 .. n -> V], NEW g \in [1 .. n -> V],
                      \A k \in j + 1 .. n : f[k] = g[k]
               PROVE  entry(f, j) = entry(g, j)
    OBVIOUS
  <2>1. j <= Len(str) => f[j + 1] = g[j + 1]
    BY <1>0
  <2>2. CASE j <= Len(str)
    BY <2>1, <2>2 DEF PatternMatchesFrom
  <2>3. CASE ~ (j <= Len(str))
    BY <2>3 DEF PatternMatchesFrom
  <2> QED
    BY <2>2, <2>3
<1> DEFINE v == TRUE
<1>4. v \in V
  OBVIOUS
<1>5. \E f \in [1 .. n -> V] : Row(f)
  <2> HIDE DEF n, V, entry, F, v
  <2>0. MadeFromLater(n, V, F)
    BY <1>1, <1>2, <1>3 DEF MadeFromLater
  <2>1. HasTable(n, V, F)
    BY <1>0, <1>4, <2>0, DownwardRecursion
  <2>4. PICK f \in [1 .. n -> V] : \A i_1 \in 1 .. n : f[i_1] = F[i_1][f]
    BY <2>1 DEF HasTable
  <2>2. \A j \in 1 .. n : f[j] = entry(f, j)
    BY <1>2, <2>4
  <2>3. f = [j \in 1 .. n |-> entry(f, j)]
    BY <2>2
  <2> QED
    BY <2>3
<1> DEFINE row == CHOOSE f : Row(f)
<1>6. MatchesRow(pattern, str, next, i) = row
  BY DEF MatchesRow
<1>7. Row(row)
  BY <1>5
<1> HIDE DEF row
<1>8. \A j \in 1 .. n : row[j] = entry(row, j)
  <2> HIDE DEF n, entry
  <2> DEFINE h == [j \in 1 .. n |-> entry(row, j)]
  <2>1. row = h
    BY <1>7
  <2>2. \A j \in 1 .. n : h[j] = entry(row, j)
    OBVIOUS
  <2> HIDE DEF h
  <2> QED
    BY <2>1, <2>2
<1>9. row \in [1 .. n -> V]
  <2> HIDE DEF n, entry, V
  <2>1. \A j \in 1 .. n : entry(row, j) \in V
    BY <1>1
  <2> DEFINE h == [j \in 1 .. n |-> entry(row, j)]
  <2>2. h \in [1 .. n -> V]
    BY <2>1
  <2>3. row = h
    BY <1>7
  <2> QED
    BY <2>2, <2>3
<1> QED
  BY <1>6, <1>8, <1>9

(* The rows of the matching of a filter.                                   *)
FilterTable(pattern, str, f) ==
  \A i \in 1 .. Len(pattern) + 1 : f[i] = MatchesRow(pattern, str, f[i + 1], i)

(* PatternMatchesString asks such a table.                                 *)
LEMMA FilterTableOf ==
  ASSUME NEW pattern \in Seq(Character), NEW str \in Seq(Character)
  PROVE  \E f : /\ FilterTable(pattern, str, f)
                /\ \A first : PatternMatchesString(pattern, first, str) = f[first][1]
<1> DEFINE n == Len(pattern) + 1
           J == 1 .. Len(str) + 1
           V == [J -> BOOLEAN]
           row(f, i) == MatchesRow(pattern, str, f[i + 1], i)
           F == [i \in 1 .. n |-> [f \in [1 .. n -> V] |-> row(f, i)]]
           Rows(f) == f = [i \in 1 .. n |-> row(f, i)]
<1>0. n \in Nat
  OBVIOUS
<1>1. \A i \in 1 .. n, f \in [1 .. n -> V] : row(f, i) \in V
  BY RowOfMatches
<1>2. \A i \in 1 .. n, f \in [1 .. n -> V] : F[i][f] = row(f, i)
  <2> HIDE DEF n, V, row
  <2> QED
    OBVIOUS
<1>3. \A i \in 1 .. n, f \in [1 .. n -> V], g \in [1 .. n -> V] :
        (\A k \in i + 1 .. n : f[k] = g[k]) => row(f, i) = row(g, i)
  <2> SUFFICES ASSUME NEW i \in 1 .. n, NEW f \in [1 .. n -> V], NEW g \in [1 .. n -> V],
                      \A k \in i + 1 .. n : f[k] = g[k]
               PROVE  row(f, i) = row(g, i)
    OBVIOUS
  <2>1. CASE i <= Len(pattern)
    BY <1>0, <2>1
  <2>2. CASE i > Len(pattern)
    <3>1. \A h : /\ row(h, i) \in V
                 /\ \A j \in J : row(h, i)[j] = (j > Len(str))
      <4> SUFFICES ASSUME NEW h
                   PROVE  /\ row(h, i) \in V
                          /\ \A j \in J : row(h, i)[j] = (j > Len(str))
        OBVIOUS
      <4>1. row(h, i) \in V /\ \A j \in J :
               row(h, i)[j] = PatternMatchesFrom(pattern, str, row(h, i), h[i + 1], i, j)
        BY RowOfMatches
      <4> HIDE DEF row
      <4>2. \A j \in J : PatternMatchesFrom(pattern, str, row(h, i), h[i + 1], i, j) = (j > Len(str))
        BY <2>2 DEF PatternMatchesFrom
      <4> QED
        BY <4>1, <4>2
    <3> HIDE DEF row
    <3>2. row(f, i) \in V /\ row(g, i) \in V /\ \A j \in J : row(f, i)[j] = row(g, i)[j]
      BY <3>1
    <3> QED
      BY <3>2
  <2> QED
    BY <1>0, <2>1, <2>2
<1> DEFINE v == [j \in J |-> TRUE]
<1>4. v \in V
  OBVIOUS
<1>5. \E f : Rows(f)
  <2> HIDE DEF n, V, row, F, v, J
  <2>0. MadeFromLater(n, V, F)
    BY <1>1, <1>2, <1>3 DEF MadeFromLater
  <2>1. HasTable(n, V, F)
    BY <1>0, <1>4, <2>0, DownwardRecursion
  <2>4. PICK f \in [1 .. n -> V] : \A i \in 1 .. n : f[i] = F[i][f]
    BY <2>1 DEF HasTable
  <2>2. \A i \in 1 .. n : f[i] = row(f, i)
    BY <1>2, <2>4
  <2>3. f = [i \in 1 .. n |-> row(f, i)]
    BY <2>2
  <2> QED
    BY <2>3
<1> DEFINE matches == CHOOSE f : Rows(f)
<1>6. \A first : PatternMatchesString(pattern, first, str) = matches[first][1]
  BY DEF PatternMatchesString
<1>7. Rows(matches)
  BY <1>5
<1> HIDE DEF matches
<1>8. \A i \in 1 .. n : matches[i] = row(matches, i)
  <2> HIDE DEF n, row
  <2> DEFINE h == [i \in 1 .. n |-> row(matches, i)]
  <2>1. matches = h
    BY <1>7
  <2>2. \A i \in 1 .. n : h[i] = row(matches, i)
    OBVIOUS
  <2> HIDE DEF h
  <2> QED
    BY <2>1, <2>2
<1> QED
  BY <1>6, <1>8 DEF FilterTable

(* What a character of a pattern does: it takes a piece of the string.     *)
LEMMA MatchesAPieceFor ==
  ASSUME NEW pattern \in Seq(Character), NEW str \in Seq(Character), NEW f,
         FilterTable(pattern, str, f), NEW i \in 1 .. Len(pattern), pattern[i] # ":"
  PROVE  \A j \in 1 .. Len(str) + 1 :
           f[i][j] <=> \E mid \in j - 1 .. Len(str) :
                         IsPieceFor(pattern[i], str, j - 1, mid) /\ f[i + 1][mid + 1]
<1> DEFINE length == Len(str)
           row == MatchesRow(pattern, str, f[i + 1], i)
           next == f[i + 1]
           ch == pattern[i]
<1>0. length \in Nat /\ length + 1 \in Nat
  OBVIOUS
<1>1. f[i] = row
  BY DEF FilterTable
<1>2. /\ \A j \in 1 .. length + 1 : row[j] = PatternMatchesFrom(pattern, str, row, next, i, j)
      /\ \A j \in 1 .. length + 1 : row[j] \in BOOLEAN
  BY RowOfMatches
<1>3. ~ (i > Len(pattern) \/ pattern[i] = ":")
  OBVIOUS
<1> HIDE DEF row, next, length
<1>4. CASE ch = "*"
  <2>1. \A j \in 1 .. length + 1 : row[j] <=> (j <= length /\ row[j + 1]) \/ next[j]
    <3> SUFFICES ASSUME NEW j \in 1 .. length + 1
                 PROVE  row[j] <=> (j <= length /\ row[j + 1]) \/ next[j]
      OBVIOUS
    <3>1. row[j] = PatternMatchesFrom(pattern, str, row, next, i, j)
      BY <1>2
    <3>2. PatternMatchesFrom(pattern, str, row, next, i, j)
            = ((j <= length /\ row[j + 1]) \/ next[j])
      BY <1>3, <1>4, Zenon DEF PatternMatchesFrom, length
    <3> QED
      BY <3>1, <3>2
  <2> DEFINE T == {j \in 1 .. length + 1 : row[j] <=> \E mid \in j - 1 .. length : next[mid + 1]}
  <2>2. ASSUME NEW j \in 1 .. length + 1, \A k \in j + 1 .. length + 1 : k \in T PROVE j \in T
    <3>1. ASSUME row[j] PROVE \E mid \in j - 1 .. length : next[mid + 1]
      <4>1. CASE next[j]
        <5>1. j - 1 \in j - 1 .. length /\ j - 1 + 1 = j
          BY <1>0
        <5> QED
          BY <4>1, <5>1
      <4>2. CASE j <= length /\ row[j + 1]
        <5>1. j + 1 \in T /\ j + 1 - 1 = j
          BY <1>0, <2>2, <4>2
        <5>2. PICK mid \in j .. length : next[mid + 1]
          BY <4>2, <5>1
        <5>3. mid \in j - 1 .. length
          BY <1>0, <5>2
        <5> QED
          BY <5>2, <5>3
      <4> QED
        BY <2>1, <3>1, <4>1, <4>2
    <3>2. ASSUME NEW mid \in j - 1 .. length, next[mid + 1] PROVE row[j]
      <4>1. CASE mid = j - 1
        <5>1. mid + 1 = j
          BY <1>0, <4>1
        <5> QED
          BY <2>1, <3>2, <5>1
      <4>2. CASE mid # j - 1
        <5>1. j <= length /\ j + 1 \in j + 1 .. length + 1 /\ j + 1 - 1 = j /\ mid \in j .. length
          BY <1>0, <3>2, <4>2
        <5>2. row[j + 1]
          BY <2>2, <3>2, <5>1
        <5> QED
          BY <2>1, <5>1, <5>2
      <4> QED
        BY <4>1, <4>2
    <3> QED
      BY <3>1, <3>2
  <2>3. \A j \in 1 .. length + 1 : j \in T
    <3> DEFINE m == length + 1
    <3>1. m \in Nat /\ \A j \in 1 .. m : (\A k \in j + 1 .. m : k \in T) => j \in T
      BY <1>0, <2>2
    <3> HIDE DEF T, m
    <3>2. \A j \in 1 .. m : j \in T
      BY <3>1, DownwardInduction
    <3> QED
      BY <3>2 DEF m
  <2>4. \A j \in 1 .. length + 1 :
          \A mid \in j - 1 .. length : IsPieceFor(ch, str, j - 1, mid)
    BY <1>0, <1>4 DEF IsPieceFor
  <2> QED
    BY <1>1, <2>3, <2>4 DEF length, next
<1>5. CASE ch # "*"
  <2> SUFFICES ASSUME NEW j \in 1 .. length + 1
               PROVE  row[j] <=> \E mid \in j - 1 .. length :
                        IsPieceFor(ch, str, j - 1, mid) /\ next[mid + 1]
    BY <1>1 DEF length, next
  <2>1. row[j] <=> j <= length /\ ch \in {"?", str[j]} /\ next[j + 1]
    <3>1. PatternMatchesFrom(pattern, str, row, next, i, j)
            = (j <= length /\ ch \in {"?", str[j]} /\ next[j + 1])
      BY <1>3, <1>5, Zenon DEF PatternMatchesFrom, length
    <3> QED
      BY <1>2, <3>1
  <2>2. \A mid \in j - 1 .. length :
          IsPieceFor(ch, str, j - 1, mid) <=> mid = j /\ ch \in {"?", str[j]}
    <3> SUFFICES ASSUME NEW mid \in j - 1 .. length
                 PROVE  IsPieceFor(ch, str, j - 1, mid) <=> mid = j /\ ch \in {"?", str[j]}
      OBVIOUS
    <3>1. j - 1 + 1 = j
      BY <1>0
    <3> QED
      BY <1>5, <3>1 DEF IsPieceFor
  <2>3. j <= length => j \in j - 1 .. length
    BY <1>0
  <2>4. \A mid \in j - 1 .. length : mid = j => j <= length
    BY <1>0
  <2> QED
    BY <2>1, <2>2, <2>3, <2>4
<1> QED
  BY <1>4, <1>5

(* A string from a place to its end, cut into pieces for a pattern.        *)
CanBeCut(pattern, str, from) ==
  \E cut \in [0 .. Len(pattern) -> 0 .. Len(str)] :
    /\ cut[0] = from /\ cut[Len(pattern)] = Len(str)
    /\ \A i \in DOMAIN pattern : IsPieceFor(pattern[i], str, cut[i - 1], cut[i])

(* An empty pattern stands for what is empty.                              *)
LEMMA CutOfNone ==
  ASSUME NEW str \in Seq(Character), NEW from \in 0 .. Len(str)
  PROVE  CanBeCut(<< >>, str, from) <=> from = Len(str)
<1>1. Len(<< >>) = 0 /\ DOMAIN << >> = {} /\ Len(str) \in Nat
  OBVIOUS
<1>2. ASSUME CanBeCut(<< >>, str, from) PROVE from = Len(str)
  BY <1>1, <1>2 DEF CanBeCut
<1>3. ASSUME from = Len(str) PROVE CanBeCut(<< >>, str, from)
  <2> DEFINE cut == [k \in 0 .. 0 |-> from]
  <2>1. cut \in [0 .. 0 -> 0 .. Len(str)] /\ cut[0] = from
    OBVIOUS
  <2> HIDE DEF cut
  <2> QED
    BY <1>1, <1>3, <2>1 DEF CanBeCut
<1> QED
  BY <1>2, <1>3

(* One more character in front takes a piece in front.                     *)
LEMMA CutOfOneMore ==
  ASSUME NEW ch \in Character, NEW rest \in Seq(Character), NEW str \in Seq(Character),
         NEW from \in 0 .. Len(str)
  PROVE  CanBeCut(<<ch>> \o rest, str, from) <=>
           \E mid \in from .. Len(str) : IsPieceFor(ch, str, from, mid) /\ CanBeCut(rest, str, mid)
<1> DEFINE pattern == <<ch>> \o rest
           n == Len(rest)
           length == Len(str)
<1>1. /\ n \in Nat /\ Len(pattern) = n + 1 /\ length \in Nat
      /\ DOMAIN pattern = 1 .. n + 1 /\ DOMAIN rest = 1 .. n
      /\ pattern[1] = ch /\ \A i \in 1 .. n : pattern[i + 1] = rest[i]
  OBVIOUS
<1> HIDE DEF pattern, n, length
<1>2. ASSUME CanBeCut(pattern, str, from)
      PROVE  \E mid \in from .. length : IsPieceFor(ch, str, from, mid) /\ CanBeCut(rest, str, mid)
  <2>1. PICK cut \in [0 .. n + 1 -> 0 .. length] :
          /\ cut[0] = from /\ cut[n + 1] = length
          /\ \A i \in 1 .. n + 1 : IsPieceFor(pattern[i], str, cut[i - 1], cut[i])
    BY <1>1, <1>2 DEF CanBeCut, length
  <2> DEFINE mid == cut[1]
             after == [k \in 0 .. n |-> cut[k + 1]]
  <2>2. IsPieceFor(ch, str, from, mid)
    <3>1. 1 \in 1 .. n + 1 /\ 1 - 1 = 0
      BY <1>1
    <3>2. IsPieceFor(pattern[1], str, cut[0], cut[1])
      BY <2>1, <3>1
    <3> QED
      BY <1>1, <2>1, <3>2
  <2>3. mid \in from .. length
    <3>1. mid \in 0 .. length
      BY <1>1, <2>1
    <3> HIDE DEF mid
    <3>2. from <= mid
      BY <1>1, <2>2, <3>1 DEF IsPieceFor, length
    <3> QED
      BY <1>1, <3>1, <3>2 DEF length
  <2>4. after \in [0 .. n -> 0 .. length]
    <3>1. \A k \in 0 .. n : k + 1 \in 0 .. n + 1
      BY <1>1
    <3> QED
      BY <2>1, <3>1
  <2>5. after[0] = mid /\ after[n] = length
    BY <1>1, <2>1
  <2>6. ASSUME NEW i \in 1 .. n PROVE IsPieceFor(rest[i], str, after[i - 1], after[i])
    <3>1. i + 1 \in 1 .. n + 1 /\ i - 1 \in 0 .. n /\ i \in 0 .. n /\ i + 1 - 1 = i /\ i - 1 + 1 = i
      BY <1>1
    <3>2. IsPieceFor(pattern[i + 1], str, cut[i], cut[i + 1])
      BY <2>1, <3>1
    <3>3. after[i - 1] = cut[i] /\ after[i] = cut[i + 1] /\ pattern[i + 1] = rest[i]
      BY <1>1, <3>1
    <3> QED
      BY <3>2, <3>3
  <2>7. CanBeCut(rest, str, mid)
    <3> HIDE DEF after, mid
    <3> QED
      BY <1>1, <2>4, <2>5, <2>6 DEF CanBeCut, n, length
  <2> QED
    BY <2>2, <2>3, <2>7
<1>3. ASSUME NEW mid \in from .. length, IsPieceFor(ch, str, from, mid), CanBeCut(rest, str, mid)
      PROVE  CanBeCut(pattern, str, from)
  <2>1. PICK after \in [0 .. n -> 0 .. length] :
          /\ after[0] = mid /\ after[n] = length
          /\ \A i \in 1 .. n : IsPieceFor(rest[i], str, after[i - 1], after[i])
    BY <1>1, <1>3 DEF CanBeCut, n, length
  <2> DEFINE cut == [k \in 0 .. n + 1 |-> IF k = 0 THEN from ELSE after[k - 1]]
  <2>2. cut \in [0 .. n + 1 -> 0 .. length]
    <3> SUFFICES ASSUME NEW k \in 0 .. n + 1, k # 0 PROVE after[k - 1] \in 0 .. length
      BY DEF length
    <3>1. k - 1 \in 0 .. n
      BY <1>1
    <3> QED
      BY <2>1, <3>1
  <2>3. cut[0] = from /\ \A k \in 0 .. n : cut[k + 1] = after[k]
    BY <1>1
  <2> HIDE DEF cut
  <2>4. ASSUME NEW i \in 1 .. n + 1 PROVE IsPieceFor(pattern[i], str, cut[i - 1], cut[i])
    <3>1. CASE i = 1
      <4>1. cut[1] = mid
        BY <1>1, <2>1, <2>3
      <4> QED
        BY <1>1, <1>3, <2>3, <3>1, <4>1
    <3>2. CASE i # 1
      <4> DEFINE l == i - 1
      <4>1. l \in 1 .. n /\ l \in 0 .. n /\ l - 1 \in 0 .. n /\ l + 1 = i /\ l - 1 + 1 = l
        BY <1>1, <3>2
      <4> HIDE DEF l
      <4>2. cut[i] = after[l] /\ cut[l] = after[l - 1] /\ pattern[i] = rest[l]
        BY <1>1, <2>3, <4>1
      <4>3. IsPieceFor(rest[l], str, after[l - 1], after[l])
        BY <2>1, <4>1
      <4> QED
        BY <4>2, <4>3 DEF l
    <3> QED
      BY <3>1, <3>2
  <2>5. cut[n + 1] = length
    BY <1>1, <2>1, <2>3
  <2> QED
    BY <1>1, <2>2, <2>3, <2>4, <2>5 DEF CanBeCut, length
<1> QED
  BY <1>2, <1>3 DEF pattern, length

(* A part without elements,                                                *)
LEMMA SubSeqOfNone ==
  ASSUME NEW S, NEW s \in Seq(S), NEW i \in 1 .. Len(s) + 1
  PROVE  SubSeq(s, i, i - 1) = << >>
OBVIOUS

(* and one from its first element on.                                      *)
LEMMA SubSeqOfOneMore ==
  ASSUME NEW S, NEW s \in Seq(S), NEW i \in 1 .. Len(s), NEW l \in i .. Len(s)
  PROVE  /\ SubSeq(s, i + 1, l) \in Seq(S)
         /\ SubSeq(s, i, l) = <<s[i]>> \o SubSeq(s, i + 1, l)
<1> DEFINE rest == SubSeq(s, i + 1, l)
           t == SubSeq(s, i, l)
<1>1. /\ rest \in Seq(S) /\ Len(rest) = l - i
      /\ \A k \in 1 .. l - i : rest[k] = s[i + 1 + k - 1]
  OBVIOUS
<1>2. /\ t \in Seq(S) /\ Len(t) = l - i + 1
      /\ \A k \in 1 .. l - i + 1 : t[k] = s[i + k - 1]
  OBVIOUS
<1>3. s[i] \in S /\ l - i \in Nat /\ i \in Nat
  OBVIOUS
<1> HIDE DEF rest, t
<1> DEFINE u == <<s[i]>> \o rest
<1>4. /\ u \in Seq(S) /\ Len(u) = l - i + 1
      /\ u[1] = s[i] /\ \A k \in 1 .. l - i : u[k + 1] = rest[k]
  BY <1>1, <1>3
<1> HIDE DEF u
<1>5. ASSUME NEW k \in 1 .. l - i + 1 PROVE t[k] = u[k]
  <2>1. CASE k = 1
    <3>1. i + 1 - 1 = i
      BY <1>3
    <3> QED
      BY <1>2, <1>4, <2>1, <3>1
  <2>2. CASE k # 1
    <3> DEFINE m == k - 1
    <3>1. m \in 1 .. l - i /\ m + 1 = k /\ i + 1 + m - 1 = i + k - 1
      BY <1>3, <2>2
    <3> HIDE DEF m
    <3>2. u[k] = rest[m] /\ rest[m] = s[i + 1 + m - 1]
      BY <1>1, <1>4, <3>1
    <3> QED
      BY <1>2, <3>1, <3>2
  <2> QED
    BY <2>1, <2>2
<1>6. t = u
  BY <1>2, <1>4, <1>5
<1> QED
  BY <1>1, <1>6 DEF rest, t, u

(* The patterns of a filter are matched as what they stand for.            *)
LEMMA PatternMatches ==
  ASSUME NEW filter \in Seq(Character), NEW str \in Seq(Character), NEW f,
         FilterTable(filter, str, f), NEW e \in 1 .. Len(filter) + 1,
         e = Len(filter) + 1 \/ filter[e] = ":",
         NEW first \in 1 .. e, \A k \in first .. e - 1 : filter[k] # ":"
  PROVE  f[first][1] <=> StandsFor(SubSeq(filter, first, e - 1), str)
<1> DEFINE length == Len(str)
           n == Len(filter)
           Rest(i) == SubSeq(filter, i, e - 1)
           Agree(i) == \A j \in 1 .. length + 1 : f[i][j] <=> CanBeCut(Rest(i), str, j - 1)
           T == {i \in 1 .. e : i >= first => Agree(i)}
<1>0. length \in Nat /\ n \in Nat /\ e \in Nat /\ first \in Nat
  OBVIOUS
<1>1. Agree(e)
  <2> SUFFICES ASSUME NEW j \in 1 .. length + 1
               PROVE  f[e][j] <=> CanBeCut(Rest(e), str, j - 1)
    OBVIOUS
  <2>1. Rest(e) = << >>
    BY SubSeqOfNone
  <2>2. f[e][j] = PatternMatchesFrom(filter, str, f[e], f[e + 1], e, j)
    <3>1. f[e] = MatchesRow(filter, str, f[e + 1], e)
      BY DEF FilterTable
    <3> QED
      BY <3>1, RowOfMatches
  <2>3. PatternMatchesFrom(filter, str, f[e], f[e + 1], e, j) = (j > length)
    <3>1. e > Len(filter) \/ filter[e] = ":"
      BY <1>0
    <3> QED
      BY <3>1 DEF PatternMatchesFrom
  <2>4. j - 1 \in 0 .. Len(str) /\ (j - 1 = Len(str) <=> j > length)
    BY <1>0
  <2> QED
    BY <2>1, <2>2, <2>3, <2>4, CutOfNone
<1>2. ASSUME NEW i \in 1 .. e, \A k \in i + 1 .. e : k \in T, i >= first, i # e PROVE Agree(i)
  <2>1. /\ i \in 1 .. Len(filter) /\ filter[i] # ":" /\ i + 1 \in i + 1 .. e /\ i + 1 >= first
        /\ e - 1 \in i .. Len(filter) /\ i + 1 \in 1 .. e
    BY <1>0, <1>2
  <2>2. Agree(i + 1)
    BY <1>2, <2>1
  <2>3. filter[i] \in Character /\ Rest(i + 1) \in Seq(Character)
        /\ Rest(i) = <<filter[i]>> \o Rest(i + 1)
    BY <2>1, SubSeqOfOneMore
  <2> HIDE DEF Rest
  <2> SUFFICES ASSUME NEW j \in 1 .. length + 1
               PROVE  f[i][j] <=> CanBeCut(Rest(i), str, j - 1)
    OBVIOUS
  <2>4. f[i][j] <=> \E mid \in j - 1 .. Len(str) :
                      IsPieceFor(filter[i], str, j - 1, mid) /\ f[i + 1][mid + 1]
    BY <2>1, MatchesAPieceFor
  <2>5. \A mid \in j - 1 .. Len(str) : f[i + 1][mid + 1] <=> CanBeCut(Rest(i + 1), str, mid)
    <3> SUFFICES ASSUME NEW mid \in j - 1 .. Len(str)
                 PROVE  f[i + 1][mid + 1] <=> CanBeCut(Rest(i + 1), str, mid)
      OBVIOUS
    <3>1. mid + 1 \in 1 .. length + 1 /\ mid + 1 - 1 = mid
      BY <1>0
    <3> QED
      BY <2>2, <3>1
  <2>6. CanBeCut(<<filter[i]>> \o Rest(i + 1), str, j - 1) <=>
          \E mid \in j - 1 .. Len(str) :
            IsPieceFor(filter[i], str, j - 1, mid) /\ CanBeCut(Rest(i + 1), str, mid)
    <3>1. j - 1 \in 0 .. Len(str)
      BY <1>0
    <3> QED
      BY <2>3, <3>1, CutOfOneMore
  <2> QED
    BY <2>3, <2>4, <2>5, <2>6
<1>3. \A i \in 1 .. e : (\A k \in i + 1 .. e : k \in T) => i \in T
  <2> HIDE DEF Agree
  <2> QED
    BY <1>1, <1>2
<1>4. \A i \in 1 .. e : i \in T
  <2> HIDE DEF T
  <2> QED
    BY <1>0, <1>3, DownwardInduction
<1>5. f[first][1] <=> CanBeCut(Rest(first), str, 0)
  <2>1. first \in T /\ first >= first /\ 1 \in 1 .. length + 1 /\ 1 - 1 = 0
    BY <1>0, <1>4
  <2> QED
    BY <2>1
<1> QED
  BY <1>5 DEF CanBeCut, StandsFor

(* A filter selects what one of its patterns stands for.                   *)
LEMMA FilterSelects ==
  ASSUME NEW filter \in Seq(Character), NEW name \in Seq(Character)
  PROVE  MatchesFilter(name, filter) <=> Selects(filter, name)
<1> DEFINE n == Len(filter)
           ends == {0, n + 1} \cup {i \in DOMAIN filter : filter[i] = ":"}
           adjacent == {p \in ends \X ends : p[1] < p[2] /\ \A k \in ends : k <= p[1] \/ k >= p[2]}
           starts == {1} \cup {i + 1 : i \in {k \in DOMAIN filter : filter[k] = ":"}}
<1>0. n \in Nat /\ DOMAIN filter = 1 .. n
  OBVIOUS
<1>1. PICK f : /\ FilterTable(filter, name, f)
               /\ \A first : PatternMatchesString(filter, first, name) = f[first][1]
  BY FilterTableOf
<1>2. ASSUME NEW p \in adjacent
      PROVE  /\ p[1] + 1 \in starts
             /\ f[p[1] + 1][1] <=> StandsFor(SubSeq(filter, p[1] + 1, p[2] - 1), name)
  <2> DEFINE e == p[2]
             first == p[1] + 1
  <2>1. p[1] \in ends /\ e \in ends /\ p[1] < e /\ \A k \in ends : k <= p[1] \/ k >= e
    OBVIOUS
  <2>2. p[1] \in 0 .. n /\ e \in 1 .. n + 1 /\ first \in 1 .. e
    BY <1>0, <2>1
  <2>3. e = n + 1 \/ filter[e] = ":"
    BY <2>1, <2>2
  <2>4. ASSUME NEW k \in first .. e - 1, filter[k] = ":" PROVE FALSE
    <3>1. k \in ends /\ ~ (k <= p[1] \/ k >= e)
      BY <1>0, <2>2, <2>4
    <3> QED
      BY <2>1, <3>1
  <2>5. first \in starts
    BY <1>0, <2>1, <2>2
  <2> HIDE DEF e, first, starts, ends, adjacent
  <2>6. f[first][1] <=> StandsFor(SubSeq(filter, first, e - 1), name)
    BY <1>1, <2>2, <2>3, <2>4, PatternMatches
  <2> QED
    BY <2>5, <2>6 DEF e, first
<1>3. ASSUME NEW first \in starts PROVE \E p \in adjacent : p[1] + 1 = first
  <2> DEFINE after == {k \in ends : k >= first}
  <2>1. first - 1 \in ends /\ first \in 1 .. n + 1
    BY <1>0
  <2>2. ends \subseteq Nat
    BY <1>0
  <2>3. after \in SUBSET Nat /\ after # {}
    BY <1>0, <2>1, <2>2
  <2>4. PICK e \in after : \A k \in after : e <= k
    BY <2>3, LeastNatural
  <2> DEFINE p == <<first - 1, e>>
  <2>5. p[1] = first - 1 /\ p[2] = e /\ p \in ends \X ends
    BY <2>1, <2>4
  <2>6. first - 1 < e /\ \A k \in ends : k <= first - 1 \/ k >= e
    BY <1>0, <2>1, <2>2, <2>4
  <2> HIDE DEF p
  <2>7. p \in adjacent /\ p[1] + 1 = first
    BY <2>1, <2>5, <2>6
  <2> QED
    BY <2>7
<1> HIDE DEF n, ends, adjacent, starts
<1>4. MatchesFilter(name, filter) <=> \E first \in starts : f[first][1]
  BY <1>1 DEF MatchesFilter, starts
<1>5. Selects(filter, name) <=>
        \E p \in adjacent : StandsFor(SubSeq(filter, p[1] + 1, p[2] - 1), name)
  BY DEF Selects, Patterns, adjacent, ends, n
<1> QED
  BY <1>2, <1>3, <1>4, <1>5

(* The two parts of a filter are filters.                                  *)
LEMMA PartsAreFilters ==
  ASSUME NEW filter \in Seq(Character)
  PROVE  Positive(filter) \in Seq(Character) /\ Negative(filter) \in Seq(Character)
<1> DEFINE n == Len(filter)
           S == {i \in DOMAIN filter : filter[i] = "-"} \cup {n + 1}
           m == Min(S)
<1>0. n \in Nat /\ DOMAIN filter = 1 .. n
  OBVIOUS
<1>1. S \in SUBSET Nat /\ S # {} /\ S \subseteq 1 .. n + 1
  BY <1>0
<1> HIDE DEF S
<1>2. m \in S
  <2>1. \E i \in S : \A k \in S : i <= k
    BY <1>1, LeastNatural
  <2> QED
    BY <2>1 DEF Min
<1>3. m \in 1 .. n + 1
  BY <1>1, <1>2
<1> HIDE DEF m
<1>4. BeforeDash(filter) = SubSeq(filter, 1, m - 1)
  BY DEF BeforeDash, m, S
<1>5. BeforeDash(filter) \in Seq(Character) /\ Len(BeforeDash(filter)) = m - 1
  <2>1. m - 1 \in 0 .. n
    BY <1>0, <1>3
  <2> QED
    BY <1>4, <2>1
<1>6. Positive(filter) \in Seq(Character)
  <2>1. "*" \in Character
    BY TextsHaveCharacters DEF AsciiPunct
  <2>2. <<"*">> \in Seq(Character)
    BY <2>1, OneElement
  <2> QED
    BY <1>5, <2>2 DEF Positive
<1>7. Negative(filter) \in Seq(Character)
  <2>1. Negative(filter) = SubSeq(filter, m - 1 + 2, n)
    BY <1>5 DEF Negative
  <2>2. m - 1 + 2 \in 1 .. n + 2
    BY <1>0, <1>3
  <2> QED
    BY <1>0, <2>1, <2>2
<1> QED
  BY <1>6, <1>7

(* The RE object is that of an expression, and the answer is right.        *)
SearchInv ==
  /\ gtest_filter \in FilterTexts
  /\ re # NotConstructed => \E regex \in Expressions : re = RE(regex)
  /\ answer.call \in {"FullMatch", "PartialMatch"} => re # NotConstructed
  /\ PatternsFindTheirWords

(* The answer for a test is right,                                         *)
LEMMA FilterAnswers ==
  ASSUME SearchInv, NEW name \in FullNames, AskFilter(name)
  PROVE  SearchInv'
<1> DEFINE says == FilterMatchesTest(name, gtest_filter)
<1>1. /\ answer' = [call |-> "FilterMatchesTest", text |-> name, says |-> says]
      /\ gtest_filter' = gtest_filter /\ re' = re
  BY DEF AskFilter, Replies
<1>2. answer'.call = "FilterMatchesTest" /\ answer'.text = name /\ answer'.says = says
  <2> HIDE DEF says
  <2> QED
    BY <1>1
<1>3. says <=> Selects(Positive(gtest_filter), name) /\ ~ Selects(Negative(gtest_filter), name)
  <2>1. gtest_filter \in Seq(Character) /\ name \in Seq(Character)
    BY TextsHaveCharacters DEF SearchInv
  <2>2. Positive(gtest_filter) \in Seq(Character) /\ Negative(gtest_filter) \in Seq(Character)
    BY <2>1, PartsAreFilters
  <2>3. /\ MatchesFilter(name, Positive(gtest_filter)) <=> Selects(Positive(gtest_filter), name)
        /\ MatchesFilter(name, Negative(gtest_filter)) <=> Selects(Negative(gtest_filter), name)
    BY <2>1, <2>2, FilterSelects
  <2> QED
    BY <2>3 DEF FilterMatchesTest
<1> HIDE DEF says
<1>4. PatternsFindTheirWords'
  BY <1>1, <1>2, <1>3 DEF PatternsFindTheirWords
<1> QED
  BY <1>1, <1>2, <1>4 DEF SearchInv

(* and the answers for a text are.                                         *)
LEMMA ExpressionAnswers ==
  ASSUME SearchInv, NEW text \in SearchedTexts, AskFullMatch(text) \/ AskPartialMatch(text)
  PROVE  SearchInv'
<1>1. PICK regex \in Expressions : re = RE(regex)
  BY DEF SearchInv, AskFullMatch, AskPartialMatch
<1>2. regex \in Seq(Character) /\ text \in Seq(Character)
  BY TextsHaveCharacters
<1>3. /\ re.pattern_ = regex
      /\ re.is_valid_ = ValidateRegex(regex)
      /\ re.is_valid_ => re.full_pattern_ = FullPattern(regex)
  BY <1>1 DEF RE
<1>4. UNCHANGED <<gtest_filter, re>>
  BY DEF AskFullMatch, AskPartialMatch, Replies
<1>5. CASE AskFullMatch(text)
  <2> DEFINE says == FullMatch(text, re)
  <2>1. answer' = [call |-> "FullMatch", text |-> text, says |-> says] /\ re # NotConstructed
    BY <1>5 DEF AskFullMatch, Replies
  <2>2. answer'.call = "FullMatch" /\ answer'.text = text /\ answer'.says = says
    <3> HIDE DEF says
    <3> QED
      BY <2>1
  <2>3. ASSUME re.is_valid_, ~ EscapedDollarAtEnd(regex)
        PROVE  says <=> IsWord(regex, text, 0, Len(text))
    <3>1. ValidateRegex(regex)
      BY <1>3, <2>3
    <3>2. MatchRegexAnywhere(FullPattern(regex), text) <=> IsWord(regex, text, 0, Len(text))
      BY <1>2, <2>3, <3>1, FullMatchTakesAll
    <3> QED
      BY <1>3, <2>3, <3>2 DEF FullMatch
  <2> HIDE DEF says
  <2>4. PatternsFindTheirWords'
    BY <1>3, <1>4, <2>2, <2>3 DEF PatternsFindTheirWords
  <2> QED
    BY <1>4, <2>1, <2>2, <2>4 DEF SearchInv
<1>6. CASE AskPartialMatch(text)
  <2> DEFINE says == PartialMatch(text, re)
  <2>1. answer' = [call |-> "PartialMatch", text |-> text, says |-> says] /\ re # NotConstructed
    BY <1>6 DEF AskPartialMatch, Replies
  <2>2. answer'.call = "PartialMatch" /\ answer'.text = text /\ answer'.says = says
    <3> HIDE DEF says
    <3> QED
      BY <2>1
  <2>3. ASSUME re.is_valid_ PROVE says <=> IsFound(regex, text)
    <3>1. ValidateRegex(regex)
      BY <1>3, <2>3
    <3>2. MatchRegexAnywhere(regex, text) <=> IsFound(regex, text)
      BY <1>2, <3>1, PartialMatchFinds
    <3> QED
      BY <1>3, <2>3, <3>2 DEF PartialMatch
  <2> HIDE DEF says
  <2>4. PatternsFindTheirWords'
    BY <1>3, <1>4, <2>2, <2>3 DEF PatternsFindTheirWords
  <2> QED
    BY <1>4, <2>1, <2>2, <2>4 DEF SearchInv
<1> QED
  BY <1>5, <1>6

(* Whatever is asked, the filter selects the tests whose names its         *)
(* patterns stand for, and a valid expression is found where its words are.*)
THEOREM PatternsAreFound == SearchSpec => []PatternsFindTheirWords
<1>1. SearchInit => SearchInv
  BY DEF SearchInit, SearchInv, NoAnswer, PatternsFindTheirWords
<1>2. SearchInv /\ [SearchNext]_search_vars => SearchInv'
  <2> SUFFICES ASSUME SearchInv, [SearchNext]_search_vars PROVE SearchInv'
    OBVIOUS
  <2>1. ASSUME NEW name \in FullNames, AskFilter(name) PROVE SearchInv'
    BY <2>1, FilterAnswers
  <2>2. ASSUME NEW regex \in Expressions, Construct(regex) PROVE SearchInv'
    <3>1. re' = RE(regex) /\ UNCHANGED <<gtest_filter, answer>> /\ re = NotConstructed
      BY <2>2 DEF Construct
    <3>2. answer.call \notin {"FullMatch", "PartialMatch"}
      BY <3>1 DEF SearchInv
    <3>3. PatternsFindTheirWords'
      BY <3>1, <3>2 DEF SearchInv, PatternsFindTheirWords
    <3> QED
      BY <3>1, <3>2, <3>3 DEF SearchInv
  <2>3. ASSUME NEW text \in SearchedTexts, AskFullMatch(text) \/ AskPartialMatch(text)
        PROVE  SearchInv'
    BY <2>3, ExpressionAnswers
  <2>4. CASE UNCHANGED search_vars
    BY <2>4 DEF search_vars, SearchInv, PatternsFindTheirWords
  <2> QED
    BY <2>1, <2>2, <2>3, <2>4 DEF SearchNext
<1>3. SearchInv => PatternsFindTheirWords
  BY DEF SearchInv
<1> QED
  BY <1>1, <1>2, <1>3, PTL DEF SearchSpec

=============================================================================
