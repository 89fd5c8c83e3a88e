-------------------------------- MODULE Mocks --------------------------------
(***************************************************************************)
(* Mock functions and their expectations (gmock-spec-builders.h and .cc):  *)
(* EXPECT_CALLs are declared, threads call the mock functions, and the     *)
(* expectations are verified and cleared, by the test or from inside an    *)
(* action.                                                                 *)
(*                                                                         *)
(* A critical section of g_gmock_mutex is one step (ThreadLocals shows     *)
(* that the mutex excludes); what the code does outside of it, reading     *)
(* whether there are expectations at all, performing the action, deleting  *)
(* cleared expectations and reporting, are steps of their own.             *)
(* An expectation is its place in the order of the EXPECT_CALL statements. *)
(***************************************************************************)
EXTENDS Naturals, Sequences, FiniteSets, SequencesExt

CONSTANTS
  Thread,
  Objects,          \* the mock objects, each with its function mockers
  Owned,            \* the objects that an expectation's actions own; the test
                    \* owns the others
  Argument,
  Declared,         \* the EXPECT_CALL statements
  Reaction,         \* on uninteresting calls: kAllow, kWarn or kFail
  Sequence,         \* the Sequence objects of the test
  ClearingActions,  \* <<expectation, action>> that verify and clear the mock
  Unbounded,        \* stands for the upper bound INT_MAX of AtLeast
  MaxCalls,         \* bounds the calls of mock functions
  None

Expectation == DOMAIN Declared
Mocker == UNION {Range(Objects[o]) : o \in DOMAIN Objects}
DefaultAction == 0    \* WillOnce actions follow, then the one of WillRepeatedly

ASSUME DeclaredType ==
  \A e \in Expectation :
    /\ Declared[e].mocker \in Mocker
    /\ Declared[e].arguments \subseteq Argument
    /\ Declared[e].times \in (Nat \X Nat) \cup {None}
    /\ Declared[e].once \in Nat             \* the number of WillOnce clauses
    /\ Declared[e].repeatedly \in BOOLEAN
    /\ Declared[e].retires \in BOOLEAN
    /\ Declared[e].sequences \subseteq Sequence
    /\ Declared[e].after \subseteq 1 .. e - 1
    /\ Declared[e].owns \subseteq Owned
    /\ Declared[e].times = None \/ Declared[e].times[2] < Unbounded
    /\ Declared[e].once < Unbounded

(* The constructor of BetweenCardinalityImpl raises max_ to min_.          *)
ASSUME LowerIsNotAboveUpper ==
  \A e \in Expectation :
    Declared[e].times # None => Declared[e].times[1] <= Declared[e].times[2]

(* The statements are a list. *)
ASSUME DeclaredIsAList == Declared \in Seq(Range(Declared))

Call == [mocker : Mocker, argument : Argument, exp : Expectation \cup {None},
         action : Nat \cup {None},
         kind : {"found", "expected", "excessive", "unexpected"},
         throws : BOOLEAN]

(* A null pointer is no expectation, no thread and no call. *)
ASSUME NoneIsNothing ==
  None \notin Expectation /\ None \notin Thread /\ None \notin Call

ASSUME ObjectsType ==
  /\ IsFiniteSet(DOMAIN Objects) /\ Owned \subseteq DOMAIN Objects
  /\ \A o \in DOMAIN Objects : Objects[o] \in Seq(Range(Objects[o]))

(* A later expectation may keep e: it waits for it, or follows it in a     *)
(* sequence.                                                               *)
MayKeep(later, e) ==
  \/ e \in Declared[later].after
  \/ e < later /\ Declared[later].sequences \cap Declared[e].sequences # {}

(* Every owned object has an owner, and none is kept alive by expectations *)
(* of its own, which would leak it (gmock-spec-builders.cc:595): the       *)
(* expectations have levels.                                               *)
ASSUME OwnershipHasLevels ==
  /\ \A o \in Owned : \E e \in Expectation : o \in Declared[e].owns
  /\ \E level \in [Expectation -> Expectation] :
       /\ \A d, e \in Expectation : MayKeep(d, e) => level[d] <= level[e]
       /\ \A d, e \in Expectation : \A o \in Declared[e].owns :
            Declared[d].mocker \in Range(Objects[o]) => level[e] < level[d]

ASSUME ThreadsAreFinite == IsFiniteSet(Thread)
ASSUME ReactionType == Reaction \in {"kAllow", "kWarn", "kFail"}
ASSUME MaxCallsType ==
  MaxCalls \in Nat /\ Unbounded \in Nat /\ MaxCalls < Unbounded

VARIABLES
  declared,         \* how many EXPECT_CALLs have been made
  last,             \* last_expectation_ of each Sequence, 0 if none
  immediate,        \* immediate_prerequisites_
  untyped_expectations,     \* of each mocker
  call_count, retired,
  pc, call,         \* where each thread is, and its call
  mutex,            \* the thread that verifies and has locked g_gmock_mutex
  todo, trash,      \* of a verification: mockers left, expectations cleared
  freed,            \* the expectations that have been deleted
  reported,         \* a Google Test failure was reported
  over,             \* the test has verified its mock
  log               \* history: the calls in the order of their sections

specs == <<declared, last, immediate>>
counts == <<call_count, retired>>
verification == <<mutex, todo, trash, freed>>
vars == <<specs, untyped_expectations, counts, pc, call, verification,
          reported, over, log>>

-----------------------------------------------------------------------------
(* The cardinality: Times, or inferred from the actions.                   *)
Bounds(e) ==
  LET d == Declared[e]
  IN  IF d.times # None THEN d.times
      ELSE IF d.repeatedly THEN <<d.once, Unbounded>>
      ELSE IF d.once > 0 THEN <<d.once, d.once>> ELSE <<1, 1>>

IsSatisfied(e) == Bounds(e)[1] <= call_count[e] /\ call_count[e] <= Bounds(e)[2]
IsSaturated(e) == call_count[e] >= Bounds(e)[2]
IsOverSaturated(e) == call_count[e] > Bounds(e)[2]

(* All prerequisites, immediate or not; they are older expectations.       *)
Prerequisites ==
  LET P[e \in Expectation] == immediate[e] \cup UNION {P[d] : d \in immediate[e]}
  IN  P

(* Mutant: only the immediate prerequisites are looked at. *)
ImmediateAreSatisfied(e) == \A d \in immediate[e] : IsSatisfied(d)

AllPrerequisitesAreSatisfied(e) == \A d \in Prerequisites[e] : IsSatisfied(d)

(* What RetireAllPreRequisites retires: it looks no further behind an      *)
(* expectation that is retired.                                            *)
ToRetire ==
  LET active(e) == {d \in immediate[e] : ~retired[d]}
      R[e \in Expectation] == active(e) \cup UNION {R[d] : d \in active(e)}
  IN  R

ShouldHandleArguments(e, a) ==
  ~retired[e] /\ AllPrerequisitesAreSatisfied(e) /\ a \in Declared[e].arguments

(* The newest expectation that should handle the call, or none.            *)
FindMatchingExpectation(m, a) ==
  LET es == {e \in Range(untyped_expectations[m]) : ShouldHandleArguments(e, a)}
  IN  IF es = {} THEN None ELSE CHOOSE e \in es : \A d \in es : d <= e

(* Mutant: off by one. *)
GetActionTooEarly(e, count) ==
  IF count < Declared[e].once THEN count
  ELSE IF Declared[e].repeatedly THEN Declared[e].once + 1 ELSE DefaultAction

(* GetCurrentAction for the count after the call. *)
GetCurrentAction(e, count) ==
  IF count <= Declared[e].once THEN count
  ELSE IF Declared[e].repeatedly THEN Declared[e].once + 1 ELSE DefaultAction

-----------------------------------------------------------------------------
Init ==
  /\ declared = 0
  /\ last = [s \in Sequence |-> 0]
  /\ immediate = [e \in Expectation |-> {}]
  /\ untyped_expectations = [m \in Mocker |-> << >>]
  /\ call_count = [e \in Expectation |-> 0]
  /\ retired = [e \in Expectation |-> FALSE]
  /\ pc = [t \in Thread |-> "idle"]
  /\ call = [t \in Thread |-> None]
  /\ mutex = None
  /\ todo = << >> /\ trash = {} /\ freed = {}
  /\ reported = FALSE /\ over = FALSE
  /\ log = << >>

(* EXPECT_CALL with its clauses: AddNewExpectation, InSequence, After.     *)
ExpectCall ==
  LET e == declared + 1
      d == Declared[e]
  IN  /\ declared < Len(Declared)
      /\ declared' = e
      /\ untyped_expectations' =
           [untyped_expectations EXCEPT ![d.mocker] = Append(@, e)]
      /\ immediate' = [immediate EXCEPT
           ![e] = d.after \cup ({last[s] : s \in d.sequences} \ {0})]
      /\ last' = [s \in Sequence |-> IF s \in d.sequences THEN e ELSE last[s]]
      /\ UNCHANGED <<counts, pc, call, verification, reported, over,
                     log>>

Goto(t, p) == pc' = [pc EXCEPT ![t] = p]
Verifying == {"lock", "verify", "delete"}

(* Invoke, UntypedInvokeWith: reads untyped_expectations_ without the lock.*)
(* As Google Mock asks of a test, its calls start when all expectations    *)
(* are set, go to objects that exist, and never race a verification.       *)
Invoke(t, m, a) ==
  /\ declared = Len(Declared) /\ ~over
  /\ pc[t] = "idle" /\ \A u \in Thread : pc[u] \notin Verifying
  /\ \A e \in freed, o \in DOMAIN Objects :
       o \in Declared[e].owns => m \notin Range(Objects[o])
  /\ Len(log) + Cardinality({u \in Thread : pc[u] \in {"find", "uninteresting"}})
       < MaxCalls
  /\ call' = [call EXCEPT ![t] = [mocker |-> m, argument |-> a, exp |-> None,
                                  action |-> None, kind |-> "found",
                                  throws |-> FALSE]]
  /\ Goto(t, IF untyped_expectations[m] = << >> THEN "uninteresting" ELSE "find")
  /\ UNCHANGED <<specs, untyped_expectations, counts, verification,
                 reported, over, log>>

(* throws: the action of the call will leave it with an exception.  Only   *)
(* of a call that is to be reported does that make a difference here.      *)
Logged(t, e, action, kind, throws) ==
  /\ log' = Append(log, [exp |-> e, action |-> action, kind |-> kind,
                         throws |-> throws])
  /\ call' = [call EXCEPT ![t] = [@ EXCEPT !.exp = e, !.action = action,
                                           !.kind = kind, !.throws = throws]]

(* The default action; unless it throws, ReportUninterestingCall.          *)
UninterestingCall(t) ==
  /\ pc[t] = "uninteresting"
  /\ Goto(t, "idle")
  /\ \E throws \in BOOLEAN :
       /\ reported' = (reported \/ (Reaction = "kFail" /\ ~throws))
       /\ log' = Append(log, [exp |-> None, action |-> DefaultAction,
                              kind |-> "uninteresting", throws |-> throws])
  /\ call' = [call EXCEPT ![t] = None]
  /\ UNCHANGED <<specs, untyped_expectations, counts, verification,
                 over>>

(* UntypedFindMatchingExpectation and GetActionForArguments, locked.       *)
UnexpectedCall(t) ==
  /\ pc[t] = "find" /\ mutex = None
  /\ FindMatchingExpectation(call[t].mocker, call[t].argument) = None
  /\ \E throws \in BOOLEAN : Logged(t, None, DefaultAction, "unexpected", throws)
  /\ Goto(t, "perform")
  /\ UNCHANGED <<specs, untyped_expectations, counts, verification,
                 reported, over>>

MatchingCall(t) ==
  /\ pc[t] = "find" /\ mutex = None
  /\ \E e \in {FindMatchingExpectation(call[t].mocker, call[t].argument)} \ {None} :
       LET count == call_count[e] + 1
       IN  /\ call_count' = [call_count EXCEPT ![e] = count]
           /\ IF IsSaturated(e)
                THEN /\ \E throws \in BOOLEAN :
                            Logged(t, e, DefaultAction, "excessive", throws)
                     /\ UNCHANGED retired
                ELSE /\ Logged(t, e, GetCurrentAction(e, count), "expected", FALSE)
                     /\ retired' = [d \in Expectation |->
                          \/ retired[d] \/ d \in ToRetire[e]
                          \/ (d = e /\ Declared[e].retires /\ count >= Bounds(e)[2])]
  /\ Goto(t, "perform")
  /\ UNCHANGED <<specs, untyped_expectations, verification, reported, over>>

(* Outside the lock: the action is copied from the expectation, then runs; *)
(* some actions verify and clear the mock object (or delete it).           *)
Clears(c) == <<c.exp, c.action>> \in ClearingActions
MockersOf(objects) == FlattenSeq(SetToSeq({Objects[o] : o \in objects}))

PerformAction(t) ==
  LET c == call[t]
  IN  /\ pc[t] = "perform"
      /\ IF Clears(c)
           THEN /\ \A u \in Thread \ {t} : pc[u] = "idle"
                /\ todo' = MockersOf(DOMAIN Objects \ Owned)
                /\ Goto(t, "lock")
           ELSE UNCHANGED todo /\ Goto(t, "report")
      /\ UNCHANGED <<specs, untyped_expectations, counts, call, mutex, trash,
                     freed, reported, over, log>>

(* The end of UntypedInvokeWith, which a call whose action throws does not *)
(* come to: it leaves without a report.                                    *)
ReportCall(t) ==
  /\ pc[t] = "report"
  /\ reported' = (reported \/ (call[t].kind # "expected" /\ ~call[t].throws))
  /\ call' = [call EXCEPT ![t] = None]
  /\ Goto(t, "idle")
  /\ UNCHANGED <<specs, untyped_expectations, counts, verification, over, log>>

-----------------------------------------------------------------------------
(* The end of the test, when no other thread uses its mocks any more: its  *)
(* Sequence objects go, then its mocks verify and clear their expectations.*)
EndTest(t) ==
  /\ declared = Len(Declared) /\ ~over
  /\ \A u \in Thread : pc[u] = "idle"
  /\ over' = TRUE
  /\ last' = [s \in Sequence |-> 0]
  /\ todo' = MockersOf(DOMAIN Objects \ Owned)
  /\ Goto(t, "lock")
  /\ UNCHANGED <<declared, immediate, untyped_expectations, counts, call, mutex,
                 trash, freed, reported, log>>

(* MutexLock of a verification, and the Lock() after a clear().            *)
Lock(t) ==
  /\ pc[t] = "lock" /\ mutex = None
  /\ mutex' = t
  /\ Goto(t, "verify")
  /\ UNCHANGED <<specs, untyped_expectations, counts, call, todo, trash, freed,
                 reported, over, log>>

(* Mutant: the mutex is not unlocked for the deletion. *)
VerifyMockerLocked(t) ==
  LET es == Range(untyped_expectations[Head(todo)])
  IN  /\ pc[t] = "verify" /\ todo # << >>
      /\ reported' = (reported \/ \E e \in es :
                        ~IsOverSaturated(e) /\ ~IsSatisfied(e))
      /\ untyped_expectations' =
           [untyped_expectations EXCEPT ![Head(todo)] = << >>]
      /\ trash' = es
      /\ Goto(t, "delete")
      /\ UNCHANGED <<specs, counts, call, mutex, todo, freed, over, log>>

(* VerifyAndClearExpectationsLocked of one mocker, up to its Unlock().     *)
VerifyMocker(t) ==
  LET m == Head(todo)
      es == Range(untyped_expectations[m])
  IN  /\ pc[t] = "verify" /\ todo # << >>
      /\ reported' = (reported \/ \E e \in es :
                        ~IsOverSaturated(e) /\ ~IsSatisfied(e))
      /\ untyped_expectations' = [untyped_expectations EXCEPT ![m] = << >>]
      /\ trash' = es
      /\ mutex' = None
      /\ Goto(t, "delete")
      /\ UNCHANGED <<specs, counts, call, todo, freed, over, log>>

(* An expectation is kept by its mocker, by a Sequence that it is the last *)
(* of, and by those it is a prerequisite of.                               *)
Held ==
  LET roots == UNION {Range(untyped_expectations[m]) : m \in Mocker}
                 \cup (Range(last) \ {0})
  IN  roots \cup UNION {Prerequisites[e] : e \in roots}

(* Mutant: the mocks that an expectation owns are not verified. *)
DeleteWithoutOwned(t) ==
  /\ pc[t] = "delete"
  /\ freed' = freed \cup (Expectation \ Held)
  /\ trash' = {}
  /\ todo' = Tail(todo)
  /\ Goto(t, "lock")
  /\ UNCHANGED <<specs, untyped_expectations, counts, call, mutex, reported,
                 over, log>>

(* expectations_to_delete.clear(), unlocked: what nothing keeps is deleted,*)
(* and the destructors of the mocks it owns verify these at once.          *)
DeleteExpectations(t) ==
  LET gone == (Expectation \ Held) \ freed
      owned == UNION {Declared[e].owns : e \in gone}
  IN  /\ pc[t] = "delete"
      /\ freed' = freed \cup gone
      /\ trash' = {}
      /\ todo' = MockersOf(owned) \o Tail(todo)
      /\ Goto(t, "lock")
      /\ UNCHANGED <<specs, untyped_expectations, counts, call, mutex, reported,
                     over, log>>

VerificationDone(t) ==
  /\ pc[t] = "verify" /\ todo = << >>
  /\ mutex' = None
  /\ Goto(t, IF call[t] = None THEN "idle" ELSE "report")
  /\ UNCHANGED <<specs, untyped_expectations, counts, call, todo, trash, freed,
                 reported, over, log>>

Proceed(t) ==
  \/ UninterestingCall(t) \/ UnexpectedCall(t) \/ MatchingCall(t)
  \/ PerformAction(t) \/ ReportCall(t)
  \/ Lock(t) \/ VerifyMocker(t) \/ DeleteExpectations(t) \/ VerificationDone(t)

Next ==
  \/ ExpectCall
  \/ \E t \in Thread :
       \/ Proceed(t) \/ EndTest(t)
       \/ \E m \in Mocker, a \in Argument : Invoke(t, m, a)

(* Every thread that is inside a call of gmock goes on. *)
Spec == Init /\ [][Next]_vars /\ \A t \in Thread : WF_vars(Proceed(t))

-----------------------------------------------------------------------------
Entry == [exp : Expectation \cup {None}, action : Nat,
          kind : {"expected", "excessive", "unexpected", "uninteresting"},
          throws : BOOLEAN]

(* The type invariant of the mock object and its callers. *)
TypeOK ==
  /\ declared \in 0 .. Len(Declared)
  /\ last \in [Sequence -> 0 .. declared]
  /\ immediate \in [Expectation -> SUBSET Expectation]
  /\ \A e \in Expectation : immediate[e] \subseteq 1 .. e - 1
  /\ untyped_expectations \in [Mocker -> Seq(Expectation)]
  /\ call_count \in [Expectation -> 0 .. MaxCalls]
  /\ retired \in [Expectation -> BOOLEAN]
  /\ pc \in [Thread -> {"idle", "find", "uninteresting", "perform", "report"}
                         \cup Verifying]
  /\ \A t \in Thread : call[t] = None => pc[t] \in Verifying \cup {"idle"}
  /\ \A t \in Thread : mutex = t <=> pc[t] = "verify"
  /\ todo \in Seq(Mocker) /\ trash \subseteq Expectation
  /\ freed \subseteq Expectation
  /\ reported \in BOOLEAN /\ over \in BOOLEAN
  /\ log \in Seq(Entry)

(* Sequences hold whatever the threads do: when a call is taken by an      *)
(* expectation, each of its prerequisites has had enough calls, and none   *)
(* of them takes a call afterwards.  No expectation is retired before all  *)
(* its prerequisites are, which the comment at gmock-spec-builders.cc:107  *)
(* says to justify the short cut of RetireAllPreRequisites.                *)
CallsTakenBy(e, n) ==
  Cardinality({i \in 1 .. n : log[i].exp = e /\ log[i].kind = "expected"})

SequencesRespected ==
  /\ LET P == Prerequisites
     IN  \A i \in DOMAIN log : log[i].kind = "expected" =>
           \A d \in P[log[i].exp] :
             /\ CallsTakenBy(d, i) >= Bounds(d)[1]
             /\ CallsTakenBy(d, Len(log)) = CallsTakenBy(d, i)
  /\ \A e \in Expectation : retired[e] => \A d \in immediate[e] : retired[d]

(* A WillOnce action is handed to one call only, and no call that is       *)
(* expected goes without one while some are left.                          *)
EachActionOnce ==
  \A e \in Expectation :
    LET taken == {i \in DOMAIN log : log[i].exp = e /\ log[i].kind = "expected"}
        once == {i \in taken : log[i].action \in 1 .. Declared[e].once}
    IN  /\ Cardinality({log[i].action : i \in once}) = Cardinality(once)
        /\ once # taken => Cardinality(once) = Declared[e].once

(* Once the mocks are verified, every error of the test has been reported, *)
(* however often they were verified and cleared in between: a call that no *)
(* expectation takes, a call beyond the upper bound of its expectation, an *)
(* expectation that had too few; and nothing is reported without an error. *)
(* Of a call in error whose action throws nothing is claimed: the comment  *)
(* in VerifyAndClearExpectationsLocked says that a violated upper bound    *)
(* was reported when it occurred, but UntypedInvokeWith reports it only    *)
(* after the action has returned.                                          *)
CallsOf(e, n) == Cardinality({i \in 1 .. n : log[i].exp = e})

IsError(i) ==
  \/ log[i].kind = "unexpected"
  \/ log[i].kind = "uninteresting" /\ Reaction = "kFail"
  \/ \E e \in Expectation : log[i].exp = e /\ CallsOf(e, i) > Bounds(e)[2]

TooFewCalls == \E e \in Expectation : CallsOf(e, Len(log)) < Bounds(e)[1]

ErrorsAreReported ==
  over /\ (\A t \in Thread : pc[t] = "idle") =>
    /\ TooFewCalls => reported
    /\ \A i \in DOMAIN log : IsError(i) /\ ~log[i].throws => reported
    /\ reported => TooFewCalls \/ \E i \in DOMAIN log : IsError(i)

(* No call of a mock function or verification hangs. *)
CallsReturn == \A t \in Thread : pc[t] # "idle" ~> pc[t] = "idle"
=============================================================================
