----------------------------- MODULE DeathTests ------------------------------
(***************************************************************************)
(* Death tests (gtest-death-test.cc) on Windows and, in their fast and     *)
(* threadsafe styles, on POSIX systems.  The body of a test holds          *)
(* EXPECT_DEATH, ASSERT_DEATH, EXPECT_EXIT... statements.  For each one it *)
(* comes to, the parent starts a child that is to run this one statement,  *)
(* and learns through a pipe and the exit code how it ended.  A fast child *)
(* is a fork of the parent; any other is the program started again, whose  *)
(* test body need not come to the same statements as the parent's (code    *)
(* may depend on the time, on files, on the process).  A child may die     *)
(* anywhere.                                                               *)
(***************************************************************************)
EXTENDS Naturals, Sequences, SequencesExt

CONSTANTS
  Site,         \* the places (file and line) of death tests
  Code,         \* exit codes
  Body,         \* the death tests the parent's test body comes to, in order
  ChildBodies,  \* those a child may come to
  Styles,       \* of death tests
  None

(* The class of death tests that the platform and --gtest_death_test_style *)
(* choose: none of them for a style that is not known.                     *)
ASSUME StylesType ==
  Styles \subseteq {"windows", "threadsafe", "fast", "unknown"}

(* How a statement may end. *)
End == {"dies", "lives", "returns", "throws", "internal error"}

(* ok: the exit codes its predicate accepts; says: whether the statement's *)
(* output matches; fatal: ASSERT_ rather than EXPECT_.                     *)
Statement == [site : Site, end : End, code : Code, ok : SUBSET Code,
              says : BOOLEAN, fatal : BOOLEAN]

ASSUME BodyType == Body \in Seq(Statement)
ASSUME ChildBodiesType ==
  ChildBodies # {} /\ ChildBodies \subseteq Seq(Statement)
(* 3 stands for the end by abort(): the exit code 3, or SIGABRT.           *)
ASSUME CodeType == {0, 1, 3} \subseteq Code

(* A child process: its body and where it is in it, the death test it was  *)
(* started for, what it ran, and how it ended.                             *)
Child == [pc : {"startup", "signal", "body", "execute", "abort", "exited"},
          body : ChildBodies \cup {Body}, at : Nat,
          index : 1 .. Len(Body), site : Site,
          ran : End \cup {"nothing"}, code : Code \cup {None}, says : BOOLEAN]

ASSUME NoneIsNoChild == None \notin Child

VARIABLES
  style,        \* never changes
  pc, at,       \* of the parent, and the death tests it has counted
  outcome,
  child,        \* the child process, or None
  writers,      \* open handles of the pipe's write end
  pipe,         \* the status bytes in the pipe
  event,        \* the child has signalled
  verdicts      \* what Passed has returned for the statements so far

parent == <<style, pc, at, outcome, verdicts>>
vars == <<parent, child, writers, pipe, event>>

Outcome == {"IN_PROGRESS", "DIED", "LIVED", "RETURNED", "THREW"}

-----------------------------------------------------------------------------
(* The parent. *)
Init ==
  /\ style \in Styles
  /\ pc = "body" /\ at = 0
  /\ outcome = "IN_PROGRESS"
  /\ child = None
  /\ writers = {} /\ pipe = << >> /\ event = FALSE
  /\ verdicts = << >>

(* Create in the parent: the index of this death test in its test.         *)
Create ==
  /\ pc = "body" /\ at < Len(Body)
  /\ style # "unknown"
  /\ at' = at + 1
  /\ outcome' = "IN_PROGRESS"
  /\ pc' = "assume"
  /\ UNCHANGED <<style, child, writers, pipe, event, verdicts>>

(* An unknown style fails the death test, and an ASSERT_ leaves the test.  *)
CreateFails ==
  /\ pc = "body" /\ at < Len(Body)
  /\ style = "unknown"
  /\ at' = at + 1
  /\ verdicts' = Append(verdicts, FALSE)
  /\ pc' = IF Body[at'].fatal THEN "done" ELSE "body"
  /\ UNCHANGED <<style, outcome, child, writers, pipe, event>>

NewChild(body, count) ==
  [pc |-> "startup", body |-> body, at |-> count,
   index |-> at, site |-> Body[at].site,
   ran |-> "nothing", code |-> None, says |-> FALSE]

(* Both ends of a new pipe are open in the parent, and the child gets the  *)
(* write end too.                                                          *)
Launch(newChild) ==
  /\ pc = "assume"
  /\ pipe' = << >> /\ event' = FALSE
  /\ child' = newChild
  /\ writers' = {"parent", "inherited"}
  /\ pc' = "wait"
  /\ UNCHANGED <<style, at, outcome, verdicts>>

(* AssumeRole on Windows: a pipe, an event and a child that inherits them. *)
AssumeRole ==
  /\ style = "windows"
  /\ \E body \in ChildBodies : Launch(NewChild(body, 0))

(* AssumeRole of the threadsafe style: fork or clone, and then exec. *)
AssumeRoleExec ==
  /\ style = "threadsafe"
  /\ \E body \in ChildBodies : Launch(NewChild(body, 0))

(* AssumeRole of the fast style: the child stands where its parent does. *)
AssumeRoleFork ==
  /\ style = "fast"
  /\ Launch(NewChild(Body, at))

(* A call of the system fails: a pipe, a stack or a process is not to be   *)
(* had, and GTEST_DEATH_TEST_CHECK_ aborts.                                *)
AssumeRoleFails ==
  /\ pc = "assume"
  /\ pc' = "aborted"
  /\ UNCHANGED <<style, at, outcome, verdicts, child, writers, pipe, event>>

(* Mutant: the parent lets go of its handles at once. *)
WaitForNothing ==
  /\ pc = "wait" /\ style = "windows"
  /\ writers' = writers \ {"parent"}
  /\ pc' = "read"
  /\ UNCHANGED <<style, at, outcome, verdicts, child, pipe, event>>

(* Mutant: the parent keeps its handles. *)
WaitKeepsHandles ==
  /\ pc = "wait" /\ style = "windows"
  /\ event \/ child.pc = "exited"
  /\ pc' = "read"
  /\ UNCHANGED <<style, at, outcome, verdicts, child, writers, pipe, event>>

(* Wait on Windows, up to the release of the parent's own handles. *)
Wait ==
  /\ pc = "wait" /\ style = "windows"
  /\ event \/ child.pc = "exited"
  /\ writers' = writers \ {"parent"}
  /\ pc' = "read"
  /\ UNCHANGED <<style, at, outcome, verdicts, child, pipe, event>>

(* On POSIX systems the parent closes its write end right after the fork.  *)
CloseWriteEnd ==
  /\ pc = "wait" /\ style \in {"threadsafe", "fast"}
  /\ writers' = writers \ {"parent"}
  /\ pc' = "read"
  /\ UNCHANGED <<style, at, outcome, verdicts, child, pipe, event>>

StatusOutcome(byte) ==
  CASE byte = "L" -> "LIVED" [] byte = "R" -> "RETURNED"
    [] byte = "T" -> "THREW"

(* Mutant: a child that has ended has died. *)
ReadStatusByteLate ==
  /\ pc = "read"
  /\ \/ pipe # << >> /\ Head(pipe) # "I" /\ outcome' = StatusOutcome(Head(pipe))
     \/ writers = {} /\ outcome' = "DIED"
  /\ pc' = "join"
  /\ UNCHANGED <<style, at, verdicts, child, writers, pipe, event>>

(* ReadAndInterpretStatusByte: the read blocks until there is a byte or no *)
(* handle is left to write one; after an I the message is read to its end. *)
ReadStatusByte ==
  /\ pc = "read"
  /\ \/ /\ pipe # << >> /\ Head(pipe) # "I"
        /\ outcome' = StatusOutcome(Head(pipe))
        /\ pipe' = Tail(pipe)
        /\ pc' = "join"
     \/ /\ pipe = << >> /\ writers = {}
        /\ outcome' = "DIED"
        /\ pc' = "join"
        /\ UNCHANGED pipe
     \/ /\ pipe # << >> /\ Head(pipe) = "I" /\ writers = {}
        /\ pc' = "aborted"
        /\ UNCHANGED <<outcome, pipe>>
  /\ UNCHANGED <<style, at, verdicts, child, writers, event>>

(* The rest of Wait: the child's exit code. *)
WaitForExit ==
  /\ pc = "join" /\ child.pc = "exited"
  /\ pc' = "judge"
  /\ UNCHANGED <<style, at, outcome, verdicts, child, writers, pipe, event>>

(* Passed, and the macro's jump to its failure.  *)
Passed == outcome = "DIED" /\ child.code \in Body[at].ok /\ child.says

Judge ==
  /\ pc = "judge"
  /\ verdicts' = Append(verdicts, Passed)
  /\ pc' = IF ~Passed /\ Body[at].fatal THEN "done" ELSE "body"
  /\ child' = None
  /\ UNCHANGED <<style, at, outcome, writers, pipe, event>>

EndOfBody ==
  /\ pc = "body" /\ at = Len(Body)
  /\ pc' = "done"
  /\ UNCHANGED <<style, at, outcome, verdicts, child, writers, pipe, event>>

-----------------------------------------------------------------------------
(* The child. *)
Step(c, p) == child' = [c EXCEPT !.pc = p]

(* The system closes the handles of a process that has ended. *)
Exit(c, code, says) ==
  /\ child' = [c EXCEPT !.pc = "exited", !.code = code, !.says = says]
  /\ writers' = writers \ {"inherited", "acquired"}

(* DeathTestAbort in a process that was started without the flag of a      *)
(* death test child, or has not parsed it yet.                             *)
AbortUnflagged(c) == \E says \in BOOLEAN : Exit(c, 3, says)

(* ExecDeathTestChildMain, in a copy of the parent's memory: the directory *)
(* and the program may be gone, or the program starts with the descriptor  *)
(* in its flag.                                                            *)
ExecChildMain ==
  /\ child # None /\ child.pc = "startup" /\ style = "threadsafe"
  /\ \/ Step(child, "body") /\ UNCHANGED writers
     \/ AbortUnflagged(child)
  /\ UNCHANGED <<parent, pipe, event>>

(* The forked child closes the read end and goes on to the statement.      *)
ForkedChild ==
  /\ child # None /\ child.pc = "startup" /\ style = "fast"
  /\ \/ Step(child, "execute") /\ UNCHANGED writers
     \/ AbortUnflagged(child)
  /\ UNCHANGED <<parent, pipe, event>>

(* GetStatusFileDescriptor: the handles are duplicated from the parent's,  *)
(* which must still be open, or DeathTestAbort finds no flag and aborts.   *)
AcquirePipe ==
  /\ child # None /\ child.pc = "startup" /\ style = "windows"
  /\ IF "parent" \in writers
       THEN writers' = writers \cup {"acquired"} /\ Step(child, "signal")
       ELSE AbortUnflagged(child)
  /\ UNCHANGED <<parent, pipe, event>>

SignalEvent ==
  /\ child # None /\ child.pc = "signal"
  /\ IF "parent" \in writers
       THEN event' = TRUE /\ Step(child, "body") /\ UNCHANGED writers
       ELSE AbortUnflagged(child) /\ UNCHANGED event
  /\ UNCHANGED <<parent, pipe>>

(* It crashes, exits or leaves main and has not come to its statement.     *)
EndElsewhere ==
  /\ child # None /\ child.pc \in {"startup", "signal", "body"}
  /\ \E code \in Code, says \in BOOLEAN : Exit(child, code, says)
  /\ UNCHANGED <<parent, pipe, event>>

(* Mutant: the index is not compared. *)
IsAtItsSite(c, n) == c.body[n].site = c.site

(* Create in a child that was given the flag: a count beyond the index     *)
(* fails the test, which an ASSERT_ leaves; another death test than its    *)
(* own is passed over.                                                     *)
IsItsOwn(c, n) == c.body[n].site = c.site /\ n = c.index

ComeToStatement ==
  /\ child # None /\ child.pc = "body" /\ child.at < Len(child.body)
  /\ LET n == child.at + 1
     IN  child' = [child EXCEPT
           !.at = IF n > child.index /\ child.body[n].fatal
                    THEN Len(child.body) ELSE n,
           !.pc = IF IsItsOwn(child, n) THEN "execute" ELSE "body"]
  /\ UNCHANGED <<parent, writers, pipe, event>>

(* The statement dies, or ReturnSentinel, the handler or the line behind   *)
(* it calls Abort, or a check fails: a byte, then _exit(1).  A check that  *)
(* fails in a fast child, which has no flag, ends in abort() instead.      *)
StatusByte(end) ==
  CASE end = "lives" -> "L" [] end = "returns" -> "R" [] end = "throws" -> "T"
    [] end = "internal error" -> "I"

ExecuteStatement ==
  /\ child # None /\ child.pc = "execute"
  /\ LET s == child.body[child.at]
         c == [child EXCEPT !.ran = s.end]
     IN  \/ /\ s.end = "dies"
            /\ Exit(c, s.code, s.says)
            /\ UNCHANGED pipe
         \/ /\ s.end = "internal error" /\ style = "fast"
            /\ AbortUnflagged(c)
            /\ UNCHANGED pipe
         \/ /\ s.end # "dies" /\ ~(s.end = "internal error" /\ style = "fast")
            /\ pipe' = Append(pipe, StatusByte(s.end))
            /\ Step([c EXCEPT !.says = s.says], "abort")
            /\ UNCHANGED writers
  /\ UNCHANGED <<parent, event>>

AbortExits ==
  /\ child # None /\ child.pc = "abort"
  /\ Exit(child, 1, child.says)
  /\ UNCHANGED <<parent, pipe, event>>

-----------------------------------------------------------------------------
ParentStep ==
  \/ Create \/ CreateFails
  \/ AssumeRole \/ AssumeRoleExec \/ AssumeRoleFork \/ AssumeRoleFails
  \/ Wait \/ CloseWriteEnd \/ ReadStatusByte \/ WaitForExit
  \/ Judge \/ EndOfBody

ChildStep ==
  \/ ExecChildMain \/ ForkedChild \/ AcquirePipe \/ SignalEvent \/ EndElsewhere
  \/ ComeToStatement \/ ExecuteStatement \/ AbortExits

Next == ParentStep \/ ChildStep

(* Both processes are scheduled. *)
Spec == Init /\ [][Next]_vars /\ WF_vars(ParentStep) /\ WF_vars(ChildStep)

-----------------------------------------------------------------------------
(* The type invariant: there is a child exactly while it is waited for. *)
TypeOK ==
  /\ style \in Styles
  /\ pc \in {"body", "assume", "wait", "read", "join", "judge", "done",
            "aborted"}
  /\ at \in 0 .. Len(Body)
  /\ outcome \in Outcome
  /\ child \in Child \cup {None}
  /\ writers \subseteq {"parent", "inherited", "acquired"}
  /\ pipe \in Seq({"L", "R", "T", "I"})
  /\ event \in BOOLEAN
  /\ verdicts \in Seq(BOOLEAN)
  /\ pc \in {"wait", "read", "join", "judge"} => child # None

(* Step 4 of the notes above WindowsDeathTest: the parent does not let go  *)
(* of its handles while the child has yet to duplicate them; elsewhere the *)
(* descriptor a child inherits outlives its exec.                          *)
HandlesOutliveStartup ==
  child # None /\ child.pc \in {"startup", "signal"} =>
    (IF style = "windows" THEN "parent" ELSE "inherited") \in writers

(* A child runs no statement but the one it was started for, also when one *)
(* place is passed many times or the child takes another way through the   *)
(* test.                                                                   *)
RunsItsOwnStatement ==
  child # None /\ child.ran # "nothing" =>
    /\ child.at = at
    /\ child.body[child.at].site = Body[at].site

(* The byte wins over the end of the pipe: if the statement ran, the       *)
(* outcome is how it ended, and a death test passes only if it died.       *)
OutcomeIsWhatHappened ==
  pc = "judge" /\ child.ran # "nothing" =>
    outcome = CASE child.ran \in {"dies", "internal error"} -> "DIED"
                [] child.ran = "lives" -> "LIVED"
                [] child.ran = "returns" -> "RETURNED"
                [] child.ran = "throws" -> "THREW"

(* Whatever the child does or wherever it dies, the parent hears of it and *)
(* comes to the end of its test, or aborts over an internal error.         *)
EveryDeathTestConcludes == <>(pc \in {"done", "aborted"})
=============================================================================
