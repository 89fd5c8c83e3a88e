---------------------------- MODULE MockRegistry -----------------------------
(***************************************************************************)
(* What gmock knows of the mock objects that are alive                     *)
(* (gmock-spec-builders.cc, gmock-nice-strict.h): their mockers, whether   *)
(* they may leak, and how they react to uninteresting calls.  All of it is *)
(* found by the address of the object, which another may have later.       *)
(*                                                                         *)
(* An object of class NiceMock<MockClass>, or of MockClass itself, runs    *)
(* the constructor of MockClass first and its destructor last, and then    *)
(* its mockers are destroyed one by one; both bodies may use the mock.     *)
(* Every action is one critical section of g_gmock_mutex.                  *)
(***************************************************************************)
EXTENDS Integers, FiniteSets

CONSTANTS
  Mockable,      \* objects the program may construct: at, kind, methods
  MockUse,       \* its ON_CALLs and EXPECT_CALLs: at, method, line
  Behaviors,     \* values of --gmock_default_mock_behavior
  Setters        \* bounds the statements under way: one for each thread

Kinds == {"plain", "NiceMock", "NaggyMock", "StrictMock"}

(* A class has methods to mock, and a statement names one of its object's. *)
ASSUME MocksHaveMethods ==
  \A m \in Mockable : m.kind \in Kinds /\ m.methods # {}

NoLine == "no line"

ASSUME LinesAreLines == \A u \in MockUse : u.line # NoLine

VARIABLES
  states_,                        \* of g_mock_object_registry, by address
  g_uninteresting_call_reaction,  \* by address
  default_mock_behavior,          \* the flag
  being_set,                      \* statements between their two sections
  mock_objects                    \* history: what is at each address

registry_vars == <<states_, g_uninteresting_call_reaction, default_mock_behavior, being_set,
                   mock_objects>>

-----------------------------------------------------------------------------
(* The tables. *)
DefaultReaction(behavior) ==
  CASE behavior = 0 -> "kAllow" [] behavior = 2 -> "kFail" [] OTHER -> "kWarn"

NewState == [leakable |-> FALSE, function_mockers |-> {}, first_used_line |-> NoLine]

(* operator[] of the map: the entry, made if there is none. *)
StateAt(address) == IF address \in DOMAIN states_ THEN states_[address] ELSE NewState

Stored(map, address, value) ==
  [a \in DOMAIN map \cup {address} |-> IF a = address THEN value ELSE map[a]]

Erased(map, address) == [a \in DOMAIN map \ {address} |-> map[a]]

SetState(address, state) == states_' = Stored(states_, address, state)

GetReactionOnUninterestingCalls(address) ==
  IF address \in DOMAIN g_uninteresting_call_reaction
    THEN g_uninteresting_call_reaction[address]
    ELSE DefaultReaction(default_mock_behavior)

(* What is reported when the program exits: address and first use.         *)
LeakedObjects ==
  {<<a, states_[a].first_used_line>> : a \in {b \in DOMAIN states_ : ~states_[b].leakable}}

-----------------------------------------------------------------------------
(* What is at an address: which of its constructors and destructors has    *)
(* come, the mockers it still has, those of them a statement was made for, *)
(* whether one was made at all, the line of the first, whether it may leak;*)
(* and whether an object before it left the permission to leak behind.     *)
Addresses == {m.at : m \in Mockable}

Unused(phase, kind, methods, left) ==
  [phase |-> phase, kind |-> kind, methods |-> methods, registered |-> {},
   used |-> FALSE, first_line |-> NoLine, may_leak |-> FALSE, left |-> left]

NoObject(left) == Unused("none", "plain", {}, left)

Now(a, phase) == mock_objects[a].phase = phase

(* A body of MockClass runs or the object is complete. *)
InBody(a) == mock_objects[a].phase \in {"MockClass()", "alive", "~MockClass()"}

NoStatementAt(a) == \A u \in being_set : u.at # a

RegistryInit ==
  /\ states_ = << >>
  /\ g_uninteresting_call_reaction = << >>
  /\ default_mock_behavior \in Behaviors
  /\ being_set = {}
  /\ mock_objects = [a \in Addresses |-> NoObject(FALSE)]

ConstructMockClass(m) ==
  /\ Now(m.at, "none")
  /\ mock_objects' = [mock_objects EXCEPT ![m.at] =
                         Unused("MockClass()", m.kind, m.methods, @.left)]
  /\ UNCHANGED <<states_, g_uninteresting_call_reaction, default_mock_behavior, being_set>>

(* The constructor of MockClass throws, and its members are destroyed.     *)
MockClassThrows(a) ==
  /\ Now(a, "MockClass()") /\ NoStatementAt(a)
  /\ mock_objects' = [mock_objects EXCEPT ![a].phase = "members"]
  /\ UNCHANGED <<states_, g_uninteresting_call_reaction, default_mock_behavior, being_set>>

(* The constructors of NiceMock, NaggyMock and StrictMock.                 *)
SetReactionOnUninterestingCalls(a, reaction) ==
  g_uninteresting_call_reaction' = Stored(g_uninteresting_call_reaction, a, reaction)

ConstructDerived(a) ==
  /\ Now(a, "MockClass()") /\ NoStatementAt(a)
  /\ \/ mock_objects[a].kind = "plain" /\ UNCHANGED g_uninteresting_call_reaction
     \/ mock_objects[a].kind = "NiceMock" /\ SetReactionOnUninterestingCalls(a, "kAllow")
     \/ mock_objects[a].kind = "NaggyMock" /\ SetReactionOnUninterestingCalls(a, "kWarn")
     \/ mock_objects[a].kind = "StrictMock" /\ SetReactionOnUninterestingCalls(a, "kFail")
  /\ mock_objects' = [mock_objects EXCEPT ![a].phase = "alive"]
  /\ UNCHANGED <<states_, default_mock_behavior, being_set>>

(* An ON_CALL or EXPECT_CALL registers the mocker first, and then its line.*)
RegisterMocker(u) ==
  /\ u \notin being_set /\ Cardinality(being_set) < Setters
  /\ u.at \in Addresses /\ InBody(u.at) /\ u.method \in mock_objects[u.at].methods
  /\ SetState(u.at, [StateAt(u.at) EXCEPT !.function_mockers = @ \cup {u.method}])
  /\ being_set' = being_set \cup {u}
  /\ mock_objects' = [mock_objects EXCEPT ![u.at].registered = @ \cup {u.method},
                                          ![u.at].used = TRUE]
  /\ UNCHANGED <<g_uninteresting_call_reaction, default_mock_behavior>>

RegisterUseByOnCallOrExpectCall(u) ==
  LET old == StateAt(u.at)
  IN  /\ SetState(u.at, [old EXCEPT !.first_used_line =
                           IF old.first_used_line = NoLine THEN u.line ELSE @])
      /\ being_set' = being_set \ {u}
      /\ mock_objects' = [mock_objects EXCEPT ![u.at].first_line =
                            IF @ = NoLine THEN u.line ELSE @]
      /\ UNCHANGED <<g_uninteresting_call_reaction, default_mock_behavior>>

AllowLeak(a) ==
  /\ InBody(a)
  /\ SetState(a, [StateAt(a) EXCEPT !.leakable = TRUE])
  /\ mock_objects' = [mock_objects EXCEPT ![a].may_leak = TRUE]
  /\ UNCHANGED <<g_uninteresting_call_reaction, default_mock_behavior, being_set>>

(* Mutant: the reaction is left behind. *)
KeepCallReaction(a) == UNCHANGED g_uninteresting_call_reaction

(* In the destructors of the three. *)
UnregisterCallReaction(a) ==
  g_uninteresting_call_reaction' = Erased(g_uninteresting_call_reaction, a)

DestroyDerived(a) ==
  /\ Now(a, "alive") /\ NoStatementAt(a)
  /\ IF mock_objects[a].kind = "plain" THEN UNCHANGED g_uninteresting_call_reaction
     ELSE UnregisterCallReaction(a)
  /\ mock_objects' = [mock_objects EXCEPT ![a].phase = "~MockClass()"]
  /\ UNCHANGED <<states_, default_mock_behavior, being_set>>

DestroyMockClass(a) ==
  /\ Now(a, "~MockClass()") /\ NoStatementAt(a)
  /\ mock_objects' = [mock_objects EXCEPT ![a].phase = "members"]
  /\ UNCHANGED <<states_, g_uninteresting_call_reaction, default_mock_behavior, being_set>>

(* The entry goes with its last mocker. *)
UnregisterLocked(a, method) ==
  IF a \notin DOMAIN states_ \/ method \notin StateAt(a).function_mockers
    THEN UNCHANGED states_
    ELSE LET left == states_[a].function_mockers \ {method}
         IN  states_' = IF left = {} THEN Erased(states_, a)
                        ELSE [states_ EXCEPT ![a].function_mockers = left]

(* What is left of an object, and at last of the address. *)
WithoutMocker(object, method) ==
  IF object.methods = {method}
    THEN NoObject(~object.used /\ (object.may_leak \/ object.left))
    ELSE [object EXCEPT !.methods = @ \ {method}, !.registered = @ \ {method}]

DestroyMocker(a, method) ==
  /\ Now(a, "members") /\ method \in mock_objects[a].methods
  /\ UnregisterLocked(a, method)
  /\ mock_objects' = [mock_objects EXCEPT ![a] = WithoutMocker(@, method)]
  /\ UNCHANGED <<g_uninteresting_call_reaction, default_mock_behavior, being_set>>

RegistryNext ==
  \/ \E m \in Mockable : ConstructMockClass(m)
  \/ \E a \in Addresses :
       \/ MockClassThrows(a) \/ ConstructDerived(a) \/ AllowLeak(a)
       \/ DestroyDerived(a) \/ DestroyMockClass(a)
       \/ \E method \in mock_objects[a].methods : DestroyMocker(a, method)
  \/ \E u \in MockUse : RegisterMocker(u)
  \/ \E u \in being_set : RegisterUseByOnCallOrExpectCall(u)

RegistrySpec == RegistryInit /\ [][RegistryNext]_registry_vars

-----------------------------------------------------------------------------
(* What a mock object is to do with an uninteresting call: to the bodies   *)
(* of MockClass it is of that class only (CookBook.md:299).                *)
ReactionOf(a) ==
  LET object == mock_objects[a]
  IN  CASE object.phase = "alive" /\ object.kind = "NiceMock" -> "kAllow"
        [] object.phase = "alive" /\ object.kind = "NaggyMock" -> "kWarn"
        [] object.phase = "alive" /\ object.kind = "StrictMock" -> "kFail"
        [] OTHER -> DefaultReaction(default_mock_behavior)

(* The lines of the objects that were used, are not destroyed and may not  *)
(* be ignored, among the addresses as.                                     *)
LeaksAt(as) ==
  {<<a, mock_objects[a].first_line>> :
     a \in {b \in as : mock_objects[b].registered # {} /\ ~mock_objects[b].may_leak}}

(* A mock object meets an uninteresting call as it was declared to,        *)
(* whichever object had its address before and however it ended; and the   *)
(* program reports at its exit only objects that were used, with the line  *)
(* of their first use, and are neither destroyed nor to be ignored.        *)
(* It reports all of these, but nothing is claimed of an object that has   *)
(* the address of one that was allowed to leak and was destroyed without   *)
(* having been used: the comment at gmock-spec-builders.cc:581 says that an*)
(* object is removed from the registry in its destructor, while            *)
(* UnregisterLocked, at line 803, removes the entry only with a mocker.    *)
RegistryKnowsTheLiving ==
  /\ \A a \in Addresses : InBody(a) => GetReactionOnUninterestingCalls(a) = ReactionOf(a)
  /\ LeakedObjects \subseteq LeaksAt(Addresses)
  /\ LeaksAt({a \in Addresses : ~mock_objects[a].left}) \subseteq LeakedObjects
=============================================================================
