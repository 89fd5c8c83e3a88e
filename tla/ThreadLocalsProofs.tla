------------------------- MODULE ThreadLocalsProofs -------------------------
(***************************************************************************)
(* Theorems about ThreadLocals: the mutex excludes however its first users *)
(* race, and each value has one owner, for any number of threads, IDs and  *)
(* ThreadLocal objects.                                                    *)
(***************************************************************************)
EXTENDS ThreadLocals, FiniteSetTheorems, TLAPS

-----------------------------------------------------------------------------
(***************************************************************************)
(* The mutex.  One process at most is between its test of the phase and    *)
(* the publication of the section; the section it makes is the only one,   *)
(* and whoever is inside it is its holder.                                 *)
(***************************************************************************)
PC == {"idle", "init", "create", "publish", "spin", "enter", "entered",
       "locked", "unlock", "leave", "unlocked"}
Initialising == {"create", "publish"}
Inside == {"entered", "locked", "unlock", "leave"}

MutexTypeOK ==
  /\ phase \in 0 .. 2 /\ section \in 0 .. 1
  /\ holder \in [0 .. Cardinality(Process) -> Process \cup {None}]
  /\ owner \in Process \cup {None}
  /\ pc \in [Process -> PC]
  /\ in \in [Process -> 0 .. Cardinality(Process)]

OneInitialises ==
  /\ phase = 0 => section = 0
  /\ phase = 2 => section = 1
  /\ \A p \in Process : pc[p] \in Initialising =>
       /\ phase = 1
       /\ section = IF pc[p] = "create" THEN 0 ELSE 1
       /\ \A q \in Process : pc[q] \in Initialising => q = p

HolderIsInside ==
  \A p \in Process :
    /\ pc[p] = "enter" => phase = 2
    /\ pc[p] \in Inside => phase = 2 /\ holder[1] = p /\ in[p] = 1
    /\ pc[p] \in {"locked", "unlock"} => owner = p

MutexInv == MutexTypeOK /\ OneInitialises /\ HolderIsInside

LEMMA ProcessesAreMany == Cardinality(Process) \in Nat \ {0}
<1> DEFINE f == [t \in Thread |-> <<"watcher", t>>]
<1>1. IsFiniteSet(Watcher)
  <2>1. f \in Surjection(Thread, Watcher)
    BY DEF Surjection, Watcher
  <2> QED
    BY <2>1, ThreadsAreFinite, FS_Surjection
<1>2. IsFiniteSet(Process)
  BY <1>1, ThreadsAreFinite, FS_Union DEF Process
<1>3. Process # {}
  BY MainIsAThread DEF Process
<1> QED
  BY <1>2, <1>3, FS_CardinalityType, FS_EmptySet

(* The steps that only move a process, from a place outside the section to *)
(* another outside the section.                                            *)
Moves(p, from, to) == pc[p] \in from /\ \E l \in to : pc' = [pc EXCEPT ![p] = l]

LEMMA MovesOutside ==
  ASSUME MutexInv, NEW p \in Process, UNCHANGED mutexVars,
         Moves(p, {"idle", "unlocked"}, {"idle", "init"})
  PROVE  MutexInv'
BY DEF MutexInv, MutexTypeOK, OneInitialises, HolderIsInside, Moves, mutexVars,
       PC, Initialising, Inside

LEMMA MutexInit == Init => MutexInv
BY ProcessesAreMany
   DEF Init, MutexInv, MutexTypeOK, OneInitialises, HolderIsInside, PC,
       Initialising, Inside, Process

LEMMA MutexStep ==
  ASSUME MutexInv, NEW p \in Process, Step(p)
  PROVE  MutexInv'
<1> USE ProcessesAreMany, NamesAreDistinct
    DEF MutexInv, MutexTypeOK, OneInitialises, HolderIsInside, PC,
        Initialising, Inside, Goto, mutexVars
<1>1. CASE TestPhase(p)
  BY <1>1 DEF TestPhase
<1>2. CASE CreateSection(p)
  BY <1>2 DEF CreateSection
<1>3. CASE Publish(p)
  BY <1>3 DEF Publish
<1>4. CASE Spin(p)
  BY <1>4 DEF Spin
<1>5. CASE EnterSection(p)
  BY <1>5 DEF EnterSection
<1>6. CASE SetOwner(p)
  BY <1>6 DEF SetOwner
<1>7. CASE ClearOwner(p)
  BY <1>7 DEF ClearOwner
<1>8. CASE LeaveSection(p)
  BY <1>8 DEF LeaveSection
<1>9. ASSUME pc[p] = "locked", WhileHeld(p, "unlock")
      PROVE  MutexInv'
  BY <1>9 DEF WhileHeld
<1>10. CASE FindOrInsert(p) \/ EraseLocal(p) \/ EraseThread(p)
  BY <1>9, <1>10 DEF FindOrInsert, EraseLocal, EraseThread, Locked
<1>11. CASE UseValue(p) \/ LocalDestroyed(p) \/ ThreadCleaned(p)
  BY <1>11, MovesOutside
     DEF UseValue, LocalDestroyed, ThreadCleaned, Finish, Moves
<1> QED
  BY <1>1, <1>2, <1>3, <1>4, <1>5, <1>6, <1>7, <1>8, <1>10, <1>11 DEF Step

LEMMA MutexInductive == MutexInv /\ [Next]_vars => MutexInv'
<1> SUFFICES ASSUME MutexInv, [Next]_vars
             PROVE  MutexInv'
  OBVIOUS
<1>1. ASSUME UNCHANGED <<mutexVars, pc>>
      PROVE  MutexInv'
  BY <1>1 DEF MutexInv, MutexTypeOK, OneInitialises, HolderIsInside, mutexVars
<1>2. CASE UNCHANGED vars
  BY <1>1, <1>2 DEF vars
<1>3. ASSUME NEW t \in Thread, StartThread(t) \/ ExitThread(t)
      PROVE  MutexInv'
  BY <1>1, <1>3 DEF StartThread, ExitThread
<1>4. ASSUME NEW t \in Thread, NEW l \in Local, GetValue(t, l) \/ DestroyLocal(t, l)
      PROVE  MutexInv'
  BY <1>4, MovesOutside
     DEF GetValue, DestroyLocal, BeginCall, Idle, Moves, Process
<1>5. ASSUME NEW t \in Thread, WatcherWakes(t)
      PROVE  MutexInv'
  BY <1>5, MovesOutside DEF WatcherWakes, BeginCall, Moves, Process, Watcher
<1> QED
  BY <1>2, <1>3, <1>4, <1>5, MutexStep DEF Next

LEMMA MutexCorrect == Spec => []MutexInv
<1> QED
  BY MutexInit, MutexInductive, PTL DEF Spec

(* Whoever wins the race for the phase, one process at a time is inside    *)
(* the section, and no GTEST_CHECK_ of the mutex fails (gtest-port.cc:417).*)
THEOREM LockExcludes == Spec => []MutexExcludes
<1>1. MutexInv => MutexExcludes
  BY DEF MutexInv, MutexTypeOK, HolderIsInside, MutexExcludes, PC, Inside
<1> QED
  BY <1>1, MutexCorrect, PTL

-----------------------------------------------------------------------------
(***************************************************************************)
(* The calls.  A process that is not idle is in a call of its own kind; a  *)
(* watcher's is about its thread, which has exited and whose ID is not     *)
(* given away while the watcher keeps its handle.                          *)
(***************************************************************************)
CallsTypeOK ==
  /\ op \in [Process -> Call \cup {None}]
  /\ id \in [Thread -> Id \cup {None}]
  /\ status \in [Thread -> {"new", "running", "exited"}]
  /\ handle \subseteq Watcher
  /\ gen \in [Local -> 0 .. MaxGen]
  /\ users \in [Local -> SUBSET Thread]
  /\ gets \in [Thread -> 0 .. MaxGets]

CallsAreTheirs ==
  /\ \A p \in Process : pc[p] = "idle" <=> op[p] = None
  /\ \A t \in Thread :
       /\ op[t] # None => /\ status[t] = "running"
                          /\ \E l \in Local : op[t] \in {<<"get", l>>, <<"destroy", l>>}
       /\ op[<<"watcher", t>>] # None =>
            /\ op[<<"watcher", t>>] = <<"exit", id[t]>>
            /\ status[t] = "exited" /\ <<"watcher", t>> \in handle

IdsAreOnesOwn ==
  /\ \A t \in Thread : status[t] # "new" => id[t] \in Id
  /\ \A t \in Thread : <<"watcher", t>> \in handle => status[t] # "new"
  /\ \A t, u \in Thread :
       /\ status[t] = "running" \/ <<"watcher", t>> \in handle
       /\ status[u] = "running" \/ <<"watcher", u>> \in handle
       /\ id[t] = id[u]
       => t = u

(* Nobody uses a ThreadLocal that is being destroyed, or destroys it too. *)
DestroyedAlone ==
  \A t \in Thread, l \in Local :
    /\ op[t] = <<"get", l>> => t \in users[l]
    /\ op[t] = <<"destroy", l>> =>
         /\ gen[l] < MaxGen
         /\ \A u \in Thread \ {t} : op[u] \notin {<<"get", l>>, <<"destroy", l>>}

CallsInv == CallsTypeOK /\ CallsAreTheirs /\ IdsAreOnesOwn /\ DestroyedAlone

(* The kinds of calls differ, and the processes that make them. *)
LEMMA CallKinds ==
  /\ \A l, m : <<"get", l>> # <<"destroy", m>> /\ <<"get", l>> # <<"exit", m>>
             /\ <<"destroy", l>> # <<"exit", m>>
  /\ \A l, m : /\ <<"get", l>> = <<"get", m>> => l = m
             /\ <<"destroy", l>> = <<"destroy", m>> => l = m
  /\ \A l \in Local : <<"get", l>> # None /\ <<"destroy", l>> # None
  /\ \A i \in Id : <<"exit", i>> # None
  /\ \A t, u : <<"watcher", t>> = <<"watcher", u>> => t = u
  /\ \A t \in Thread : t \in Process /\ <<"watcher", t>> \in Process
                      /\ \A u \in Thread : t # <<"watcher", u>>
  /\ \A p \in Process : p \in Thread \/ \E t \in Thread : p = <<"watcher", t>>
<1>1. /\ \A l \in Local : <<"get", l>> \in Call /\ <<"destroy", l>> \in Call
      /\ \A i \in Id : <<"exit", i>> \in Call
      /\ \A t \in Thread : <<"watcher", t>> \in Watcher
  BY DEF Call, Watcher
<1> QED
  BY <1>1, NamesAreDistinct DEF Process, Watcher

(* A call and its caller: of one kind only, with what it is about. *)
Getting(p, l) == p \in Thread /\ op[p] = <<"get", l>>
Destroys(p, l) == p \in Thread /\ op[p] = <<"destroy", l>>
Watching(p, t) == p = <<"watcher", t>> /\ op[p] = <<"exit", id[t]>>

LEMMA WhoCalls ==
  ASSUME CallsAreTheirs, NEW p \in Process, op[p] # None
  PROVE  \/ \E l \in Local : Getting(p, l) /\ op[p][1] = "get" /\ op[p][2] = l
         \/ \E l \in Local : Destroys(p, l) /\ op[p][1] = "destroy" /\ op[p][2] = l
         \/ \E t \in Thread : /\ Watching(p, t) /\ op[p][1] = "exit"
                              /\ op[p][2] = id[t] /\ status[t] = "exited"
                              /\ p \in handle
<1>1. CASE p \in Thread
  <2>1. PICK l \in Local : op[p] = <<"get", l>> \/ op[p] = <<"destroy", l>>
    BY <1>1 DEF CallsAreTheirs
  <2> QED
    BY <1>1, <2>1 DEF Getting, Destroys
<1>2. ASSUME NEW t \in Thread, p = <<"watcher", t>>
      PROVE  /\ Watching(p, t) /\ op[p][1] = "exit" /\ op[p][2] = id[t]
             /\ status[t] = "exited" /\ p \in handle
  BY <1>2 DEF CallsAreTheirs, Watching
<1> QED
  BY <1>1, <1>2, CallKinds

LEMMA CallsInit == Init => CallsInv
<1> SUFFICES ASSUME Init
             PROVE  CallsInv
  OBVIOUS
<1>1. CallsTypeOK
  BY MainIsAThread, BoundsType DEF Init, CallsTypeOK
<1>2. CallsAreTheirs
  BY CallKinds DEF Init, CallsAreTheirs
<1>3. IdsAreOnesOwn
  BY MainIsAThread DEF Init, IdsAreOnesOwn
<1>4. DestroyedAlone
  BY CallKinds DEF Init, DestroyedAlone
<1> QED
  BY <1>1, <1>2, <1>3, <1>4 DEF CallsInv

(* What a thread or a watcher does when it begins a call. *)
LEMMA CallsBegin ==
  ASSUME MutexInv, CallsInv, NEW t \in Thread,
         \/ \E l \in Local : GetValue(t, l) \/ DestroyLocal(t, l)
         \/ WatcherWakes(t)
  PROVE  CallsInv'
<1> USE CallKinds DEF MutexInv, MutexTypeOK, CallsInv, CallsTypeOK, Idle, BeginCall,
        threadVars, localVars
<1>1. ASSUME NEW l \in Local, GetValue(t, l)
      PROVE  CallsInv'
  <2> USE <1>1 DEF GetValue
  <2>1. CallsTypeOK'
    <3>1. op' \in [Process -> Call \cup {None}]
      BY DEF Call
    <3>2. gets' \in [Thread -> 0 .. MaxGets]
      BY BoundsType
    <3>3. users' \in [Local -> SUBSET Thread]
      OBVIOUS
    <3> QED
      BY <3>1, <3>2, <3>3
  <2>2. CallsAreTheirs'
    BY DEF CallsAreTheirs
  <2>3. IdsAreOnesOwn'
    BY DEF IdsAreOnesOwn
  <2>4. DestroyedAlone'
    BY DEF DestroyedAlone, Destroying
  <2> QED
    BY <2>1, <2>2, <2>3, <2>4
<1>2. ASSUME NEW l \in Local, DestroyLocal(t, l)
      PROVE  CallsInv'
  <2> USE <1>2 DEF DestroyLocal
  <2>1. CallsTypeOK'
    BY BoundsType DEF Call
  <2>2. CallsAreTheirs'
    BY DEF CallsAreTheirs
  <2>3. IdsAreOnesOwn'
    BY DEF IdsAreOnesOwn
  <2>4. DestroyedAlone'
    BY BoundsType DEF DestroyedAlone, Destroying, CallsAreTheirs
  <2> QED
    BY <2>1, <2>2, <2>3, <2>4
<1>3. CASE WatcherWakes(t)
  <2> USE <1>3 DEF WatcherWakes
  <2>0. id[t] \in Id
    BY DEF IdsAreOnesOwn
  <2>1. CallsTypeOK'
    BY <2>0, BoundsType DEF Call
  <2>2. CallsAreTheirs'
    BY <2>0 DEF CallsAreTheirs
  <2>3. IdsAreOnesOwn'
    BY DEF IdsAreOnesOwn
  <2>4. DestroyedAlone'
    BY DEF DestroyedAlone
  <2> QED
    BY <2>1, <2>2, <2>3, <2>4
<1> QED
  BY <1>1, <1>2, <1>3

LEMMA CallsStartOrExit ==
  ASSUME MutexInv, CallsInv, NEW t \in Thread, StartThread(t) \/ ExitThread(t)
  PROVE  CallsInv'
<1> USE CallKinds DEF MutexInv, MutexTypeOK, CallsInv, CallsTypeOK, Idle,
        threadVars, localVars
<1>1. CASE StartThread(t)
  <2> USE <1>1 DEF StartThread
  <2>1. CallsTypeOK'
    OBVIOUS
  <2>2. CallsAreTheirs'
    BY DEF CallsAreTheirs, IdsAreOnesOwn
  <2>3. IdsAreOnesOwn'
    <3>1. PICK i \in Id : ~Busy(i) /\ id' = [id EXCEPT ![t] = i]
      OBVIOUS
    <3>2. \A u \in Thread \ {t} : id'[u] = id[u] /\ status'[u] = status[u]
      BY <3>1
    <3>3. id'[t] = i /\ status'[t] = "running" /\ <<"watcher", t>> \notin handle
      BY <3>1 DEF IdsAreOnesOwn
    <3> QED
      BY <3>1, <3>2, <3>3 DEF IdsAreOnesOwn, Busy
  <2>4. DestroyedAlone'
    BY DEF DestroyedAlone
  <2> QED
    BY <2>1, <2>2, <2>3, <2>4
<1>2. CASE ExitThread(t)
  <2> USE <1>2 DEF ExitThread
  <2>1. CallsTypeOK'
    OBVIOUS
  <2>2. CallsAreTheirs'
    BY DEF CallsAreTheirs
  <2>3. IdsAreOnesOwn'
    BY DEF IdsAreOnesOwn
  <2>4. DestroyedAlone'
    BY DEF DestroyedAlone
  <2> QED
    BY <2>1, <2>2, <2>3, <2>4
<1> QED
  BY <1>1, <1>2

(* A step inside a call, which leaves the calls as they are. *)
LEMMA CallsInside ==
  ASSUME MutexInv, CallsInv, NEW p \in Process, NEW l, l # "idle", pc[p] # "idle",
         pc' = [pc EXCEPT ![p] = l],
         UNCHANGED <<op, threadVars, localVars>>
  PROVE  CallsInv'
BY DEF MutexInv, MutexTypeOK, CallsInv, CallsTypeOK, CallsAreTheirs, IdsAreOnesOwn,
       DestroyedAlone, threadVars, localVars

LEMMA CallsFinish ==
  ASSUME MutexInv, CallsInv, NEW p \in Process,
         UseValue(p) \/ LocalDestroyed(p) \/ ThreadCleaned(p)
  PROVE  CallsInv'
<1> USE CallKinds DEF MutexInv, MutexTypeOK, CallsInv, CallsTypeOK, Finish,
        threadVars, localVars
<1>1. CASE UseValue(p)
  <2> USE <1>1 DEF UseValue
  <2>1. CallsTypeOK'
    OBVIOUS
  <2>2. CallsAreTheirs'
    BY DEF CallsAreTheirs
  <2>3. IdsAreOnesOwn'
    BY DEF IdsAreOnesOwn
  <2>4. DestroyedAlone'
    BY DEF DestroyedAlone
  <2> QED
    BY <2>1, <2>2, <2>3, <2>4
<1>2. CASE LocalDestroyed(p)
  <2> USE <1>2 DEF LocalDestroyed
  <2>0. PICK l \in Local : p \in Thread /\ op[p] = <<"destroy", l>> /\ op[p][2] = l
    BY WhoCalls DEF CallsAreTheirs, Destroys
  <2>1. CallsTypeOK'
    <3>1. gen[l] < MaxGen
      BY <2>0 DEF DestroyedAlone
    <3>2. gen' = [gen EXCEPT ![l] = gen[l] + 1]
      BY <2>0
    <3>3. gen[l] + 1 \in 0 .. MaxGen
      <4>1. gen[l] \in 0 .. MaxGen
        OBVIOUS
      <4> QED
        BY <3>1, <4>1, BoundsType
    <3>4. gen' \in [Local -> 0 .. MaxGen]
      BY <3>2, <3>3
    <3>5. users' = [users EXCEPT ![l] = {}]
      BY <2>0
    <3>6. users' \in [Local -> SUBSET Thread]
      BY <3>5
    <3>7. UNCHANGED <<id, status, handle, gets>> /\ op' \in [Process -> Call \cup {None}]
      OBVIOUS
    <3> QED
      BY <3>4, <3>6, <3>7
  <2>2. CallsAreTheirs'
    BY DEF CallsAreTheirs
  <2>3. IdsAreOnesOwn'
    BY DEF IdsAreOnesOwn
  <2>4. DestroyedAlone'
    <3>1. /\ gen' = [gen EXCEPT ![l] = gen[l] + 1]
          /\ users' = [users EXCEPT ![l] = {}]
      BY <2>0
    <3>2. \A t \in Thread : op'[t] \in {<<"get", l>>, <<"destroy", l>>} => FALSE
      BY <2>0 DEF DestroyedAlone
    <3>3. \A t \in Thread, m \in Local :
            op'[t] \in {<<"get", m>>, <<"destroy", m>>} =>
              m # l /\ op[t] = op'[t] /\ gen'[m] = gen[m] /\ users'[m] = users[m]
      BY <3>1, <3>2
    <3>4. \A u \in Thread, m \in Local :
            op'[u] \in {<<"get", m>>, <<"destroy", m>>} => op[u] = op'[u]
      BY <3>3
    <3> QED
      BY <3>3, <3>4 DEF DestroyedAlone
  <2> QED
    BY <2>1, <2>2, <2>3, <2>4
<1>3. CASE ThreadCleaned(p)
  <2> USE <1>3 DEF ThreadCleaned
  <2>0. PICK t \in Thread : p = <<"watcher", t>> /\ status[t] = "exited"
    BY WhoCalls DEF CallsAreTheirs, Watching
  <2>1. CallsTypeOK'
    OBVIOUS
  <2>2. CallsAreTheirs'
    BY <2>0 DEF CallsAreTheirs
  <2>3. IdsAreOnesOwn'
    BY DEF IdsAreOnesOwn
  <2>4. DestroyedAlone'
    BY DEF DestroyedAlone
  <2> QED
    BY <2>1, <2>2, <2>3, <2>4
<1> QED
  BY <1>1, <1>2, <1>3

LEMMA CallsStep ==
  ASSUME MutexInv, CallsInv, NEW p \in Process, Step(p)
  PROVE  CallsInv'
<1>1. CASE TestPhase(p) \/ CreateSection(p) \/ Publish(p) \/ Spin(p)
           \/ EnterSection(p) \/ SetOwner(p) \/ ClearOwner(p) \/ LeaveSection(p)
  BY <1>1, CallsInside
     DEF TestPhase, CreateSection, Publish, Spin, EnterSection, SetOwner,
         ClearOwner, LeaveSection, Goto
<1>2. ASSUME pc[p] = "locked", WhileHeld(p, "unlock"), UNCHANGED handle
      PROVE  CallsInv'
  BY <1>2, CallsInside DEF WhileHeld, threadVars
<1>3. CASE EraseLocal(p) \/ EraseThread(p)
  BY <1>2, <1>3 DEF EraseLocal, EraseThread, Locked
<1>4. CASE FindOrInsert(p)
  <2> USE <1>4 DEF FindOrInsert, WhileHeld, Locked
  <2>1. p \in Thread /\ status[p] = "running"
    BY WhoCalls DEF CallsInv, CallsAreTheirs, Getting
  <2>2. handle' \subseteq handle \cup {<<"watcher", p>>}
    OBVIOUS
  <2>3. CallsTypeOK'
    BY <2>1, <2>2 DEF CallsInv, CallsTypeOK, Watcher, localVars
  <2>4. handle \subseteq handle'
    OBVIOUS
  <2>5. CallsAreTheirs'
    BY <2>4 DEF MutexInv, MutexTypeOK, CallsInv, CallsTypeOK, CallsAreTheirs
  <2>6. IdsAreOnesOwn'
    BY <2>1, <2>2, CallKinds DEF CallsInv, IdsAreOnesOwn
  <2>7. DestroyedAlone'
    BY DEF CallsInv, DestroyedAlone, localVars
  <2> QED
    BY <2>3, <2>5, <2>6, <2>7 DEF CallsInv
<1>5. CASE UseValue(p) \/ LocalDestroyed(p) \/ ThreadCleaned(p)
  BY <1>5, CallsFinish
<1> QED
  BY <1>1, <1>3, <1>4, <1>5 DEF Step

LEMMA CallsInductive == MutexInv /\ CallsInv /\ [Next]_vars => CallsInv'
<1> SUFFICES ASSUME MutexInv, CallsInv, [Next]_vars
             PROVE  CallsInv'
  OBVIOUS
<1>1. CASE UNCHANGED vars
  BY <1>1 DEF vars, threadVars, localVars, CallsInv, CallsTypeOK, CallsAreTheirs,
              IdsAreOnesOwn, DestroyedAlone
<1> QED
  BY <1>1, CallsStep, CallsBegin, CallsStartOrExit DEF Next

-----------------------------------------------------------------------------
(***************************************************************************)
(* The values.  Of a registered value's thread the ID is the one it is     *)
(* registered for, and the watcher keeps its handle.                       *)
(***************************************************************************)
After == {"unlock", "leave", "unlocked"}

ValuesTypeOK ==
  /\ registry \in [Id -> Entry \cup {None}]
  /\ held \in [Process -> SUBSET Value]
  /\ deleted \subseteq Value

(* A value of the object that lives at an address now. *)
MadeAt(v, l) == v.local = l /\ v.gen = gen[l]
MadeFor(v, t, l) == v.thread = t /\ MadeAt(v, l)

WatchedEntry(i, t) ==
  /\ id[t] = i /\ <<"watcher", t>> \in handle
  /\ \A l \in Local : registry[i][l] # None => MadeFor(registry[i][l], t, l)

RegisteredIsWatched ==
  \A i \in Id : registry[i] # None => \E t \in Thread : WatchedEntry(i, t)

(* What is gone from the registry stays away until the call is over. *)
Erased(l) == \A i \in Id : registry[i] # None => registry[i][l] = None

CleanedStaysClean ==
  /\ \A t \in Thread, l \in Local :
       op[t] = <<"destroy", l>> /\ pc[t] \in After => Erased(l)
  /\ \A t \in Thread :
       op[<<"watcher", t>>] # None /\ pc[<<"watcher", t>>] \in After =>
         registry[id[t]] = None

HeldByKind ==
  /\ \A p \in Process : pc[p] \notin After => held[p] = {}
  /\ \A t \in Thread, l \in Local :
       /\ op[t] = <<"get", l>> => \A v \in held[t] : MadeFor(v, t, l)
       /\ op[t] = <<"destroy", l>> => \A v \in held[t] : MadeAt(v, l)
  /\ \A t \in Thread : \A v \in held[<<"watcher", t>>] : v.thread = t

(* A deleted value cannot be made again. *)
DeletedIsPast ==
  \A v \in deleted : v.gen < gen[v.local] \/ status[v.thread] = "exited"

(* A cleaner alone has the values it is going to delete. *)
Registered(v) == \E i \in Id, l \in Local : registry[i] # None /\ registry[i][l] = v
Cleaning(p) == op[p] # None /\ op[p][1] # "get"
CleanersAreAlone ==
  /\ \A v \in deleted : ~Registered(v)
  /\ \A p \in Process : Cleaning(p) => \A v \in held[p] :
       /\ v \notin deleted /\ ~Registered(v)
       /\ \A q \in Process \ {p} : v \notin held[q]

ValuesInv ==
  /\ ValuesTypeOK /\ RegisteredIsWatched /\ CleanedStaysClean
  /\ HeldByKind /\ DeletedIsPast /\ CleanersAreAlone

LEMMA WhoCleans ==
  ASSUME CallsInv, NEW p \in Process, Cleaning(p)
  PROVE  \/ \E l \in Local : Destroys(p, l)
         \/ \E t \in Thread : Watching(p, t) /\ status[t] = "exited"
BY WhoCalls DEF Cleaning, CallsInv

LEMMA ValuesInit == Init => ValuesInv
<1> SUFFICES ASSUME Init
             PROVE  ValuesInv
  OBVIOUS
<1> QED
  BY CallKinds
     DEF Init, ValuesInv, ValuesTypeOK, RegisteredIsWatched, CleanedStaysClean,
         HeldByKind, DeletedIsPast, CleanersAreAlone, Cleaning, After

(* A step that touches no value, and of no process the call it cleans for. *)
LEMMA ValuesKept ==
  ASSUME ValuesInv, UNCHANGED <<handle, gen, registry, held, deleted>>,
         \A i \in Id, t \in Thread : WatchedEntry(i, t) => id'[t] = id[t],
         \A p \in Process :
           \/ op'[p] = op[p] /\ (pc'[p] \in After => pc[p] \in After)
           \/ pc'[p] \notin After,
         \A p \in Process : held[p] # {} => op'[p] = op[p] /\ pc'[p] \in After,
         \A t \in Thread :
           /\ status[t] = "exited" => status'[t] = "exited"
           /\ op[<<"watcher", t>>] # None => id'[t] = id[t]
  PROVE  ValuesInv'
<1> USE CallKinds DEF ValuesInv
<1>1. ValuesTypeOK'
  BY DEF ValuesTypeOK
<1>2. \A v, t, l : /\ MadeAt(v, l)' <=> MadeAt(v, l)
                  /\ MadeFor(v, t, l)' <=> MadeFor(v, t, l)
  BY DEF MadeAt, MadeFor
<1>3. \A v : Registered(v)' <=> Registered(v)
  BY DEF Registered
<1>4. \A l : Erased(l)' <=> Erased(l)
  BY DEF Erased
<1>5. RegisteredIsWatched'
  <2> SUFFICES ASSUME NEW i \in Id, registry[i] # None
               PROVE  \E t \in Thread : WatchedEntry(i, t)'
    BY DEF RegisteredIsWatched
  <2>1. PICK t \in Thread : WatchedEntry(i, t)
    BY DEF RegisteredIsWatched
  <2>2. WatchedEntry(i, t)'
    BY <1>2, <2>1 DEF WatchedEntry
  <2> QED
    BY <2>2
<1>6. CleanedStaysClean'
  BY <1>4 DEF CleanedStaysClean
<1>7. HeldByKind'
  <2>1. \A p \in Process : pc'[p] \notin After => held'[p] = {}
    OBVIOUS
  <2>2. ASSUME NEW t \in Thread, NEW v \in held[t]
        PROVE  op'[t] = op[t]
    BY <2>2
  <2>3. ASSUME NEW t \in Thread, NEW l \in Local
        PROVE  /\ op'[t] = <<"get", l>> => \A v \in held'[t] : MadeFor(v, t, l)'
               /\ op'[t] = <<"destroy", l>> => \A v \in held'[t] : MadeAt(v, l)'
    BY <2>2 DEF HeldByKind, MadeFor, MadeAt
  <2>4. \A t \in Thread : \A v \in held'[<<"watcher", t>>] : v.thread = t
    BY DEF HeldByKind
  <2> QED
    BY <2>1, <2>3, <2>4 DEF HeldByKind
<1>8. DeletedIsPast'
  BY DEF DeletedIsPast, ValuesTypeOK, Value
<1>9. CleanersAreAlone'
  BY <1>3 DEF CleanersAreAlone, Cleaning
<1> QED
  BY <1>1, <1>5, <1>6, <1>7, <1>8, <1>9

LEMMA ValuesInside ==
  ASSUME MutexInv, CallsInv, ValuesInv, NEW p \in Process, NEW l,
         pc[p] \in After <=> l \in After, pc' = [pc EXCEPT ![p] = l],
         UNCHANGED <<threadVars, localVars, registry, op, held, deleted>>
  PROVE  ValuesInv'
<1>1. \A q \in Process : pc'[q] \in After <=> pc[q] \in After
  BY DEF MutexInv, MutexTypeOK
<1>2. \A q \in Process : held[q] # {} => pc[q] \in After
  BY DEF ValuesInv, HeldByKind
<1> QED
  BY <1>1, <1>2, ValuesKept DEF threadVars, localVars

LEMMA ValuesStartOrExit ==
  ASSUME MutexInv, CallsInv, ValuesInv, NEW t \in Thread,
         StartThread(t) \/ ExitThread(t)
  PROVE  ValuesInv'
<1>1. /\ UNCHANGED <<localVars, handle, registry, pc, op, held, deleted>>
      /\ \A u \in Thread : status[u] = "exited" => status'[u] = "exited"
      /\ \A u \in Thread : status[u] # "new" => id'[u] = id[u]
  BY DEF StartThread, ExitThread, Idle, CallsInv, CallsTypeOK
<1>2. \A q \in Process : held[q] # {} => pc[q] \in After
  BY DEF ValuesInv, HeldByKind
<1>3. \A i \in Id, u \in Thread : WatchedEntry(i, u) => status[u] # "new"
  BY DEF WatchedEntry, CallsInv, IdsAreOnesOwn
<1>4. \A u \in Thread : op[<<"watcher", u>>] # None => status[u] # "new"
  BY DEF CallsInv, CallsAreTheirs
<1> QED
  BY <1>1, <1>2, <1>3, <1>4, ValuesKept DEF localVars

LEMMA ValuesBegin ==
  ASSUME MutexInv, CallsInv, ValuesInv, NEW p \in Process, NEW call,
         pc[p] = "idle", BeginCall(p, call), UNCHANGED gen
  PROVE  ValuesInv'
<1>1. UNCHANGED <<id, status, handle, gen, registry, held, deleted>>
  BY DEF BeginCall, threadVars
<1>2. held[p] = {} /\ pc'[p] \notin After
  BY DEF ValuesInv, HeldByKind, After, BeginCall, MutexInv, MutexTypeOK
<1>3. \A q \in Process \ {p} : op'[q] = op[q] /\ pc'[q] = pc[q]
  BY DEF BeginCall, MutexInv, MutexTypeOK, CallsInv, CallsTypeOK
<1>4. \A q \in Process : held[q] # {} => pc[q] \in After
  BY DEF ValuesInv, HeldByKind
<1> QED
  BY <1>1, <1>2, <1>3, <1>4, ValuesKept

(* The registry's entry of a thread that runs is its own, whoever had its  *)
(* ID before: the value found for the thread is the one it would be given. *)
FindsOwn(p, l, i) ==
  LET value == [thread |-> p, local |-> l, gen |-> gen[l]]
      entry == IF registry[i] = None THEN NewEntry ELSE registry[i]
  IN  /\ Getting(p, l) /\ status[p] = "running" /\ i = id[p]
      /\ registry[i] # None => WatchedEntry(i, p)
      /\ value \in Value /\ entry \in Entry
      /\ registry' = [registry EXCEPT ![i] = [entry EXCEPT ![l] = value]]
      /\ held' = [held EXCEPT ![p] = {value}]
      /\ pc' = [pc EXCEPT ![p] = "unlock"]
      /\ <<"watcher", p>> \in handle' /\ handle \subseteq handle'
      /\ UNCHANGED <<op, id, status, gen, deleted>>

LEMMA FoundIsOwn ==
  ASSUME MutexInv, CallsInv, ValuesInv, NEW p \in Process, FindOrInsert(p)
  PROVE  \E l \in Local, i \in Id : FindsOwn(p, l, i)
<1> DEFINE i == id[p]
           entry == IF registry[i] = None THEN NewEntry ELSE registry[i]
<1>1. pc[p] = "locked" /\ op[p] # None /\ op[p][1] = "get"
  BY DEF FindOrInsert, Locked
<1>2. PICK l \in Local : Getting(p, l) /\ op[p][2] = l
  BY <1>1, WhoCalls DEF CallsInv, Destroys, Watching
<1> DEFINE value == [thread |-> p, local |-> l, gen |-> gen[l]]
<1>3. status[p] = "running" /\ i \in Id /\ p \in Thread
  BY <1>1, <1>2 DEF CallsInv, CallsAreTheirs, IdsAreOnesOwn, Getting
<1>4. value \in Value
  BY <1>3 DEF Value, CallsInv, CallsTypeOK
<1>5. NewEntry \in Entry /\ entry \in Entry
  BY <1>3 DEF Entry, NewEntry, ValuesInv, ValuesTypeOK
<1>6. registry[i] # None => WatchedEntry(i, p)
  <2> SUFFICES ASSUME registry[i] # None
               PROVE  WatchedEntry(i, p)
    OBVIOUS
  <2>1. PICK t \in Thread : WatchedEntry(i, t)
    BY <1>3 DEF ValuesInv, RegisteredIsWatched
  <2>2. t = p
    BY <1>3, <2>1 DEF WatchedEntry, CallsInv, IdsAreOnesOwn
  <2> QED
    BY <2>1, <2>2
<1>7. entry[l] # None => entry[l] = value
  <2> SUFFICES ASSUME entry[l] # None
               PROVE  entry[l] = value
    OBVIOUS
  <2>1. registry[i] # None /\ entry = registry[i]
    BY DEF NewEntry
  <2>2. MadeFor(entry[l], p, l)
    BY <1>6, <2>1 DEF WatchedEntry
  <2>3. entry[l] \in Value
    BY <1>5 DEF Entry
  <2> QED
    BY <2>2, <2>3 DEF MadeFor, MadeAt, Value
<1>8. /\ registry' = [registry EXCEPT ![i] = [entry EXCEPT ![l] = value]]
      /\ held' = [held EXCEPT ![p] = {value}]
  <2>1. /\ registry' = [registry EXCEPT ![i] = [entry EXCEPT ![l] =
                          IF entry[l] = None THEN value ELSE entry[l]]]
        /\ held' = [held EXCEPT ![p] = {IF entry[l] = None THEN value ELSE entry[l]}]
    BY <1>2 DEF FindOrInsert
  <2> QED
    BY <1>7, <2>1
<1>9. pc' = [pc EXCEPT ![p] = "unlock"]
  BY <1>1 DEF FindOrInsert, WhileHeld, MutexInv, HolderIsInside
<1>10. <<"watcher", p>> \in handle' /\ handle \subseteq handle'
  BY <1>6 DEF FindOrInsert, WatchedEntry
<1>11. UNCHANGED <<op, id, status, gen, deleted>>
  BY DEF FindOrInsert, WhileHeld, localVars
<1> QED
  BY <1>2, <1>3, <1>4, <1>5, <1>6, <1>8, <1>9, <1>10, <1>11 DEF FindsOwn

LEMMA ValuesFind ==
  ASSUME MutexInv, CallsInv, ValuesInv, NEW p \in Process, FindOrInsert(p)
  PROVE  ValuesInv'
<1>1. PICK l \in Local, i \in Id : FindsOwn(p, l, i)
  BY FoundIsOwn
<1> DEFINE value == [thread |-> p, local |-> l, gen |-> gen[l]]
           entry == IF registry[i] = None THEN NewEntry ELSE registry[i]
<1>2. /\ p \in Thread /\ op[p] = <<"get", l>> /\ status[p] = "running" /\ i = id[p]
      /\ value \in Value /\ entry \in Entry
      /\ <<"watcher", p>> \in handle' /\ handle \subseteq handle'
      /\ UNCHANGED <<op, id, status, gen, deleted>>
  BY <1>1 DEF FindsOwn, Getting
<1>3. /\ registry'[i] \in Entry /\ registry'[i] # None
      /\ registry'[i] = [entry EXCEPT ![l] = value]
      /\ \A j \in Id \ {i} : registry'[j] = registry[j]
      /\ registry' \in [Id -> Entry \cup {None}]
  BY <1>1, NamesAreDistinct DEF FindsOwn, Entry, ValuesInv, ValuesTypeOK
<1>4. /\ held'[p] = {value} /\ \A q \in Process \ {p} : held'[q] = held[q]
      /\ held' \in [Process -> SUBSET Value]
  BY <1>1 DEF FindsOwn, ValuesInv, ValuesTypeOK
<1>5. pc'[p] = "unlock" /\ \A q \in Process \ {p} : pc'[q] = pc[q]
  BY <1>1 DEF FindsOwn, MutexInv, MutexTypeOK
<1>6. MadeFor(value, p, l)
  BY DEF MadeFor, MadeAt
<1>7. \A v, m, t : /\ MadeAt(v, m)' <=> MadeAt(v, m)
                  /\ MadeFor(v, t, m)' <=> MadeFor(v, t, m)
  BY <1>2 DEF MadeAt, MadeFor
<1>8. registry'[i][l] = value /\ \A m \in Local \ {l} :
         registry'[i][m] = IF registry[i] = None THEN None ELSE registry[i][m]
  BY <1>2, <1>3 DEF Entry, NewEntry
<1>9. registry[i] # None => WatchedEntry(i, p)
  BY <1>1 DEF FindsOwn
<1>10. \A t \in Thread : op[<<"watcher", t>>] # None => id[t] # i
  BY <1>2 DEF CallsInv, CallsAreTheirs, IdsAreOnesOwn
<1>11. ValuesTypeOK'
  BY <1>2, <1>3, <1>4 DEF ValuesInv, ValuesTypeOK
<1>12. RegisteredIsWatched'
  <2> SUFFICES ASSUME NEW j \in Id, registry'[j] # None
               PROVE  \E t \in Thread : WatchedEntry(j, t)'
    BY DEF RegisteredIsWatched
  <2>1. CASE j = i
    <3>1. ASSUME NEW m \in Local, registry'[i][m] # None
          PROVE  MadeFor(registry'[i][m], p, m)
      <4>1. CASE m = l
        BY <1>6, <1>8, <4>1
      <4>2. CASE m # l
        <5>1. registry[i] # None /\ registry'[i][m] = registry[i][m]
          BY <1>8, <3>1, <4>2
        <5> QED
          BY <1>9, <3>1, <5>1 DEF WatchedEntry
      <4> QED
        BY <4>1, <4>2
    <3>2. ASSUME NEW m \in Local, registry'[i][m] # None
          PROVE  MadeFor(registry[i][m], p, m)'
      BY <1>2, <3>1, <3>2 DEF MadeFor, MadeAt
    <3>3. WatchedEntry(i, p)'
      BY <1>2, <3>2 DEF WatchedEntry
    <3> QED
      BY <1>2, <2>1, <3>3
  <2>2. CASE j # i
    <3>1. registry'[j] = registry[j]
      BY <1>3, <2>2
    <3>2. PICK t \in Thread : WatchedEntry(j, t)
      BY <3>1 DEF ValuesInv, RegisteredIsWatched
    <3>3. WatchedEntry(j, t)'
      BY <1>2, <1>7, <3>1, <3>2 DEF WatchedEntry
    <3> QED
      BY <3>3
  <2> QED
    BY <2>1, <2>2
<1>13. CleanedStaysClean'
  <2>1. ASSUME NEW t \in Thread, NEW m \in Local,
               op[t] = <<"destroy", m>>, pc'[t] \in After
        PROVE  Erased(m)'
    <3>1. t # p /\ m # l
      BY <1>2, <2>1, CallKinds DEF CallsInv, DestroyedAlone
    <3>2. Erased(m)
      BY <1>5, <2>1, <3>1, CallKinds DEF ValuesInv, CleanedStaysClean
    <3> QED
      BY <1>3, <1>8, <3>1, <3>2 DEF Erased
  <2>2. ASSUME NEW t \in Thread,
               op[<<"watcher", t>>] # None, pc'[<<"watcher", t>>] \in After
        PROVE  registry'[id[t]] = None
    <3>1. registry[id[t]] = None
      BY <1>2, <1>5, <2>2, CallKinds DEF ValuesInv, CleanedStaysClean
    <3>2. id[t] \in Id \ {i}
      BY <1>10, <2>2 DEF CallsInv, CallsAreTheirs, IdsAreOnesOwn
    <3> QED
      BY <1>3, <3>1, <3>2
  <2> QED
    BY <1>2, <2>1, <2>2 DEF CleanedStaysClean
<1>14. HeldByKind'
  <2>1. \A q \in Process : pc'[q] \notin After => held'[q] = {}
    BY <1>4, <1>5 DEF After, ValuesInv, HeldByKind
  <2>2. ASSUME NEW t \in Thread, NEW m \in Local
        PROVE  /\ op'[t] = <<"get", m>> => \A v \in held'[t] : MadeFor(v, t, m)'
               /\ op'[t] = <<"destroy", m>> => \A v \in held'[t] : MadeAt(v, m)'
    <3>1. CASE t = p
      BY <1>2, <1>4, <1>6, <3>1, CallKinds DEF MadeFor, MadeAt
    <3>2. CASE t # p
      <4>1. held'[t] = held[t] /\ op'[t] = op[t]
        BY <1>2, <1>4, <3>2, CallKinds
      <4>2. /\ op[t] = <<"get", m>> => \A v \in held[t] : MadeFor(v, t, m)
            /\ op[t] = <<"destroy", m>> => \A v \in held[t] : MadeAt(v, m)
        BY DEF ValuesInv, HeldByKind
      <4> QED
        BY <1>2, <4>1, <4>2 DEF MadeFor, MadeAt
    <3> QED
      BY <3>1, <3>2
  <2>3. \A t \in Thread : \A v \in held'[<<"watcher", t>>] : v.thread = t
    BY <1>2, <1>4, CallKinds DEF ValuesInv, HeldByKind
  <2> QED
    BY <2>1, <2>2, <2>3 DEF HeldByKind
<1>15. DeletedIsPast'
  BY <1>2 DEF ValuesInv, DeletedIsPast
<1>16. value \notin deleted
  BY <1>2 DEF ValuesInv, DeletedIsPast, Value, CallsInv, CallsTypeOK
<1>17. ASSUME NEW v \in Value, Registered(v)'
       PROVE  v = value \/ Registered(v)
  <2>1. PICK j \in Id, m \in Local : registry'[j] # None /\ registry'[j][m] = v
    BY <1>17 DEF Registered
  <2>2. CASE j = i /\ m = l
    BY <1>8, <2>1, <2>2
  <2>3. CASE j = i /\ m # l /\ registry[i] # None
    BY <1>8, <2>1, <2>3 DEF Registered
  <2>4. CASE j = i /\ m # l /\ registry[i] = None
    BY <1>8, <2>1, <2>4, NamesAreDistinct
  <2>5. CASE j # i
    BY <1>3, <2>1, <2>5 DEF Registered
  <2> QED
    BY <2>2, <2>3, <2>4, <2>5
<1>18. ASSUME NEW q \in Process, Cleaning(q)
       PROVE  q # p /\ value \notin held[q]
  <2>1. CASE \E m \in Local : Destroys(q, m)
    <3>1. PICK m \in Local : Destroys(q, m)
      BY <2>1
    <3>2. q # p /\ m # l
      BY <1>2, <3>1, CallKinds DEF CallsInv, DestroyedAlone, Destroys
    <3>3. \A v \in held[q] : v.local = m
      BY <3>1 DEF Destroys, ValuesInv, HeldByKind, MadeAt
    <3> QED
      BY <3>2, <3>3
  <2>2. CASE \E t \in Thread : Watching(q, t) /\ status[t] = "exited"
    <3>1. PICK t \in Thread : Watching(q, t) /\ status[t] = "exited"
      BY <2>2
    <3>2. \A v \in held[q] : v.thread = t
      BY <3>1 DEF Watching, ValuesInv, HeldByKind
    <3> QED
      BY <1>2, <3>1, <3>2, CallKinds DEF Watching
  <2> QED
    BY <1>18, <2>1, <2>2, WhoCleans
<1>19. CleanersAreAlone'
  <2>1. \A q \in Process : Cleaning(q)' <=> Cleaning(q)
    BY <1>2 DEF Cleaning
  <2>2. \A v \in deleted : ~Registered(v)'
    BY <1>16, <1>17 DEF ValuesInv, ValuesTypeOK, CleanersAreAlone
  <2>3. ASSUME NEW q \in Process, Cleaning(q), NEW v \in held'[q]
        PROVE  /\ v \notin deleted /\ ~Registered(v)'
               /\ \A r \in Process \ {q} : v \notin held'[r]
    <3>1. v \in held[q] /\ v # value /\ v \in Value
      BY <1>4, <1>18, <2>3
    <3>2. /\ v \notin deleted /\ ~Registered(v)
          /\ \A r \in Process \ {q} : v \notin held[r]
      BY <2>3, <3>1 DEF ValuesInv, CleanersAreAlone
    <3> QED
      BY <1>4, <1>17, <3>1, <3>2
  <2> QED
    BY <1>2, <2>1, <2>2, <2>3 DEF CleanersAreAlone
<1> QED
  BY <1>11, <1>12, <1>13, <1>14, <1>15, <1>19 DEF ValuesInv

(* Whose a registered value is, and one that is held by its user. *)
LEMMA RegisteredMade ==
  ASSUME ValuesInv, NEW i \in Id, NEW l \in Local,
         registry[i] # None, registry[i][l] # None
  PROVE  /\ registry[i][l] \in Value /\ Registered(registry[i][l])
         /\ \E t \in Thread : WatchedEntry(i, t) /\ MadeFor(registry[i][l], t, l)
<1>1. registry[i] \in Entry
  BY DEF ValuesInv, ValuesTypeOK
<1>2. PICK t \in Thread : WatchedEntry(i, t)
  BY DEF ValuesInv, RegisteredIsWatched
<1>3. MadeFor(registry[i][l], t, l)
  BY <1>2 DEF WatchedEntry
<1> QED
  BY <1>1, <1>2, <1>3 DEF Entry, Registered

LEMMA HeldMade ==
  ASSUME MutexInv, CallsInv, ValuesInv, NEW p \in Process, ~Cleaning(p), NEW v \in held[p]
  PROVE  \E l \in Local : Getting(p, l) /\ MadeFor(v, p, l) /\ status[p] = "running"
<1>1. op[p] # None
  BY DEF CallsInv, CallsAreTheirs, ValuesInv, HeldByKind, After
<1>2. PICK l \in Local : Getting(p, l)
  BY <1>1, WhoCalls DEF Cleaning, CallsInv
<1>3. MadeFor(v, p, l)
  BY <1>2 DEF Getting, ValuesInv, HeldByKind
<1> QED
  BY <1>1, <1>2, <1>3 DEF Getting, CallsInv, CallsAreTheirs

(* Either clean-up takes values out of the registry into the hands of one  *)
(* cleaner.                                                                *)
LEMMA ValuesErased ==
  ASSUME MutexInv, CallsInv, ValuesInv, NEW p \in Process, Cleaning(p),
         UNCHANGED <<op, id, status, handle, gen, deleted>>,
         pc' = [pc EXCEPT ![p] = "unlock"],
         ValuesTypeOK',
         \A q \in Process \ {p} : held'[q] = held[q],
         \A i \in Id : registry'[i] # None =>
           /\ registry[i] # None
           /\ \A l \in Local : registry'[i][l] \in {registry[i][l], None},
         \A l \in Local : Destroys(p, l) => Erased(l)',
         \A t \in Thread : Watching(p, t) => registry'[id[t]] = None,
         \A v \in held'[p] :
           /\ Registered(v) /\ ~Registered(v)'
           /\ \A l \in Local : Destroys(p, l) => MadeAt(v, l)
           /\ \A t \in Thread : Watching(p, t) => v.thread = t
  PROVE  ValuesInv'
<1>1. pc'[p] = "unlock" /\ \A q \in Process \ {p} : pc'[q] = pc[q]
  BY DEF MutexInv, MutexTypeOK
<1>2. ASSUME NEW v \in Value, Registered(v)'
      PROVE  Registered(v)
  BY <1>2, NamesAreDistinct DEF Registered
<1>3. RegisteredIsWatched'
  <2> SUFFICES ASSUME NEW i \in Id, registry'[i] # None
               PROVE  \E t \in Thread : WatchedEntry(i, t)'
    BY DEF RegisteredIsWatched
  <2>1. PICK t \in Thread : WatchedEntry(i, t)
    BY DEF ValuesInv, RegisteredIsWatched
  <2>2. ASSUME NEW l \in Local, registry'[i][l] # None
        PROVE  MadeFor(registry[i][l], t, l)'
    <3>1. registry'[i][l] = registry[i][l] /\ MadeFor(registry[i][l], t, l)
      BY <2>1, <2>2 DEF WatchedEntry
    <3> QED
      BY <3>1 DEF MadeFor, MadeAt
  <2>3. WatchedEntry(i, t)'
    BY <2>1, <2>2 DEF WatchedEntry
  <2> QED
    BY <2>3
<1>4. CleanedStaysClean'
  <2>1. ASSUME NEW t \in Thread, NEW l \in Local,
               op[t] = <<"destroy", l>>, pc'[t] \in After
        PROVE  Erased(l)'
    <3>1. CASE t = p
      BY <2>1, <3>1 DEF Destroys
    <3>2. CASE t # p
      BY <1>1, <2>1, <3>2, CallKinds DEF ValuesInv, CleanedStaysClean, Erased
    <3> QED
      BY <3>1, <3>2
  <2>2. ASSUME NEW t \in Thread,
               op[<<"watcher", t>>] # None, pc'[<<"watcher", t>>] \in After
        PROVE  registry'[id[t]] = None
    <3>1. id[t] \in Id /\ op[<<"watcher", t>>] = <<"exit", id[t]>>
      BY <2>2 DEF CallsInv, CallsAreTheirs, IdsAreOnesOwn
    <3>2. CASE <<"watcher", t>> = p
      BY <3>1, <3>2 DEF Watching
    <3>3. CASE <<"watcher", t>> # p
      BY <1>1, <2>2, <3>1, <3>3, CallKinds DEF ValuesInv, CleanedStaysClean
    <3> QED
      BY <3>2, <3>3
  <2> QED
    BY <2>1, <2>2 DEF CleanedStaysClean
<1>5. HeldByKind'
  <2>1. \A q \in Process : pc'[q] \notin After => held'[q] = {}
    BY <1>1 DEF After, ValuesInv, HeldByKind
  <2>2. ASSUME NEW t \in Thread, NEW l \in Local
        PROVE  /\ op'[t] = <<"get", l>> => \A v \in held'[t] : MadeFor(v, t, l)'
               /\ op'[t] = <<"destroy", l>> => \A v \in held'[t] : MadeAt(v, l)'
    <3>1. CASE t = p
      <4>1. op[t] # <<"get", l>>
        BY <3>1 DEF Cleaning
      <4>2. op[t] = <<"destroy", l>> => \A v \in held'[t] : MadeAt(v, l)
        BY <3>1 DEF Destroys
      <4> QED
        BY <4>1, <4>2 DEF MadeAt
    <3>2. CASE t # p
      <4>1. /\ op[t] = <<"get", l>> => \A v \in held[t] : MadeFor(v, t, l)
            /\ op[t] = <<"destroy", l>> => \A v \in held[t] : MadeAt(v, l)
        BY DEF ValuesInv, HeldByKind
      <4> QED
        BY <3>2, <4>1, CallKinds DEF MadeFor, MadeAt
    <3> QED
      BY <3>1, <3>2
  <2>3. ASSUME NEW t \in Thread, NEW v \in held'[<<"watcher", t>>]
        PROVE  v.thread = t
    <3>1. CASE <<"watcher", t>> = p
      BY <2>3, <3>1 DEF Cleaning, CallsInv, CallsAreTheirs, Watching
    <3>2. CASE <<"watcher", t>> # p
      BY <2>3, <3>2, CallKinds DEF ValuesInv, HeldByKind
    <3> QED
      BY <3>1, <3>2
  <2> QED
    BY <2>1, <2>2, <2>3 DEF HeldByKind
<1>6. DeletedIsPast'
  BY DEF ValuesInv, DeletedIsPast
<1>7. CleanersAreAlone'
  <2>1. \A q \in Process : Cleaning(q)' <=> Cleaning(q)
    BY DEF Cleaning
  <2>2. \A v \in deleted : ~Registered(v)'
    BY <1>2 DEF ValuesInv, ValuesTypeOK, CleanersAreAlone
  <2>3. ASSUME NEW v \in held'[p], NEW q \in Process \ {p}
        PROVE  v \notin held[q]
    <3> SUFFICES ASSUME v \in held[q]
                 PROVE  FALSE
      OBVIOUS
    <3>1. ~Cleaning(q)
      BY DEF ValuesInv, CleanersAreAlone
    <3>2. PICK l \in Local : Getting(q, l) /\ MadeFor(v, q, l) /\ status[q] = "running"
      BY <3>1, HeldMade
    <3>3. CASE \E m \in Local : Destroys(p, m)
      <4>1. PICK m \in Local : Destroys(p, m)
        BY <3>3
      <4>2. MadeAt(v, m) /\ MadeAt(v, l)
        BY <2>3, <3>2, <4>1 DEF MadeFor
      <4>3. l = m
        BY <4>2 DEF MadeAt
      <4> QED
        BY <3>2, <4>1, <4>3 DEF CallsInv, DestroyedAlone, Destroys, Getting
    <3>4. CASE \E t \in Thread : Watching(p, t) /\ status[t] = "exited"
      BY <3>2, <3>4 DEF MadeFor
    <3> QED
      BY <3>3, <3>4, WhoCleans
  <2>4. ASSUME NEW q \in Process, Cleaning(q), NEW v \in held'[q]
        PROVE  /\ v \notin deleted /\ ~Registered(v)'
               /\ \A r \in Process \ {q} : v \notin held'[r]
    <3>1. CASE q = p
      BY <2>3, <2>4, <3>1 DEF ValuesInv, CleanersAreAlone
    <3>2. CASE q # p
      <4>1. v \in held[q] /\ v \in Value
        BY <3>2 DEF ValuesInv, ValuesTypeOK
      <4>2. /\ v \notin deleted /\ ~Registered(v)
            /\ \A r \in Process \ {q} : v \notin held[r]
        BY <2>4, <4>1 DEF ValuesInv, CleanersAreAlone
      <4> QED
        BY <1>2, <4>1, <4>2
    <3> QED
      BY <3>1, <3>2
  <2> QED
    BY <2>1, <2>2, <2>4 DEF CleanersAreAlone
<1> QED
  BY <1>3, <1>4, <1>5, <1>6, <1>7 DEF ValuesInv

LEMMA ValuesErase ==
  ASSUME MutexInv, CallsInv, ValuesInv, NEW p \in Process,
         EraseLocal(p) \/ EraseThread(p)
  PROVE  ValuesInv'
<1>1. /\ pc[p] = "locked" /\ op[p] # None
      /\ op[p][1] = "destroy" \/ op[p][1] = "exit"
      /\ Cleaning(p) /\ WhileHeld(p, "unlock") /\ UNCHANGED handle
  BY DEF EraseLocal, EraseThread, Locked, Cleaning
<1>2. pc' = [pc EXCEPT ![p] = "unlock"]
  BY <1>1 DEF WhileHeld, MutexInv, HolderIsInside
<1>3. UNCHANGED <<op, id, status, handle, gen, deleted>>
  BY <1>1 DEF WhileHeld, localVars
<1>4. CASE EraseLocal(p)
  <2>1. PICK l \in Local : Destroys(p, l) /\ op[p][2] = l
    BY <1>1, <1>4, WhoCalls DEF EraseLocal, Locked, CallsInv
  <2> DEFINE gone == {registry[i][l] : i \in {j \in Id : registry[j] # None}} \ {None}
  <2>2. /\ held' = [held EXCEPT ![p] = gone]
        /\ registry' = [i \in Id |-> IF registry[i] # None
                                      THEN [registry[i] EXCEPT ![l] = None] ELSE None]
    BY <1>4, <2>1 DEF EraseLocal
  <2>3. ASSUME NEW v \in gone
        PROVE  v \in Value /\ Registered(v) /\ MadeAt(v, l)
    BY RegisteredMade DEF MadeFor
  <2>4. ASSUME NEW i \in Id
        PROVE  IF registry[i] = None THEN registry'[i] = None
               ELSE /\ registry'[i] \in Entry /\ registry'[i][l] = None
                    /\ \A m \in Local \ {l} : registry'[i][m] = registry[i][m]
    BY <2>2 DEF ValuesInv, ValuesTypeOK, Entry
  <2>5. ValuesTypeOK'
    BY <1>3, <2>2, <2>3, <2>4 DEF ValuesInv, ValuesTypeOK
  <2>6. held'[p] = gone /\ \A q \in Process \ {p} : held'[q] = held[q]
    BY <2>2 DEF ValuesInv, ValuesTypeOK
  <2>7. Erased(l)'
    BY <2>4 DEF Erased
  <2>8. ASSUME NEW v \in gone, Registered(v)'
        PROVE  FALSE
    <3>1. PICK i \in Id, m \in Local : registry'[i] # None /\ registry'[i][m] = v
      BY <2>8 DEF Registered
    <3>2. registry[i] # None /\ registry[i][m] = v /\ m # l /\ v # None
      BY <2>3, <2>4, <3>1, NamesAreDistinct
    <3>3. v.local = m
      BY <3>2, RegisteredMade DEF MadeFor, MadeAt
    <3> QED
      BY <2>3, <3>2, <3>3 DEF MadeAt
  <2>9. \A i \in Id : registry'[i] # None =>
          /\ registry[i] # None
          /\ \A m \in Local : registry'[i][m] \in {registry[i][m], None}
    BY <2>4
  <2>10. /\ \A m \in Local : Destroys(p, m) => m = l
         /\ \A t \in Thread : ~Watching(p, t)
    BY <2>1, CallKinds DEF Destroys, Watching
  <2> QED
    BY <1>1, <1>2, <1>3, <2>3, <2>5, <2>6, <2>7, <2>8, <2>9, <2>10, ValuesErased
<1>5. CASE EraseThread(p)
  <2>1. PICK t \in Thread : Watching(p, t) /\ op[p][2] = id[t] /\ p \in handle
    BY <1>1, <1>5, WhoCalls DEF EraseThread, Locked, CallsInv
  <2>2. id[t] \in Id /\ p = <<"watcher", t>>
    BY <1>1, <2>1 DEF Watching, CallsInv, CallsAreTheirs, IdsAreOnesOwn
  <2> DEFINE i == id[t]
             gone == IF registry[i] = None THEN {}
                     ELSE {registry[i][l] : l \in Local} \ {None}
  <2>3. /\ held' = [held EXCEPT ![p] = gone]
        /\ registry' = [registry EXCEPT ![i] = None]
    BY <1>5, <2>1 DEF EraseThread
  <2>4. ASSUME NEW v \in gone
        PROVE  v \in Value /\ Registered(v) /\ v.thread = t
    <3>1. PICK l \in Local : registry[i] # None /\ v = registry[i][l] /\ v # None
      OBVIOUS
    <3>2. PICK u \in Thread : WatchedEntry(i, u) /\ MadeFor(v, u, l)
      BY <2>2, <3>1, RegisteredMade
    <3>3. u = t
      BY <2>1, <2>2, <3>2 DEF WatchedEntry, CallsInv, IdsAreOnesOwn
    <3> QED
      BY <2>2, <3>1, <3>2, <3>3, RegisteredMade DEF MadeFor
  <2>5. ValuesTypeOK'
    BY <1>3, <2>3, <2>4 DEF ValuesInv, ValuesTypeOK
  <2>6. held'[p] = gone /\ \A q \in Process \ {p} : held'[q] = held[q]
    BY <2>3 DEF ValuesInv, ValuesTypeOK
  <2>7. registry'[i] = None /\ \A j \in Id \ {i} : registry'[j] = registry[j]
    BY <2>2, <2>3 DEF ValuesInv, ValuesTypeOK
  <2>8. ASSUME NEW v \in gone, Registered(v)'
        PROVE  FALSE
    <3>1. PICK j \in Id, m \in Local : registry'[j] # None /\ registry'[j][m] = v
      BY <2>8 DEF Registered
    <3>2. j # i /\ registry[j] # None /\ registry[j][m] = v /\ v # None
      BY <2>4, <2>7, <3>1, NamesAreDistinct
    <3>3. PICK u \in Thread : WatchedEntry(j, u) /\ MadeFor(v, u, m)
      BY <3>2, RegisteredMade
    <3> QED
      BY <2>4, <3>2, <3>3 DEF MadeFor, WatchedEntry
  <2>9. \A j \in Id : registry'[j] # None =>
          /\ registry[j] # None
          /\ \A m \in Local : registry'[j][m] \in {registry[j][m], None}
    BY <2>7
  <2>10. /\ \A m \in Local : ~Destroys(p, m)
         /\ \A u \in Thread : Watching(p, u) => u = t
    BY <2>2, CallKinds DEF Destroys, Watching
  <2> QED
    BY <1>1, <1>2, <1>3, <2>4, <2>5, <2>6, <2>7, <2>8, <2>9, <2>10, ValuesErased
<1> QED
  BY <1>4, <1>5

(* The end of a call: a user has used its value, a cleaner deletes those   *)
(* it holds.  What else lives is of other objects and other threads.       *)
LEMMA FinishSpares ==
  ASSUME MutexInv, CallsInv, ValuesInv, NEW p \in Process,
         UseValue(p) \/ LocalDestroyed(p) \/ ThreadCleaned(p)
  PROVE  /\ deleted' = deleted \/ (Cleaning(p) /\ deleted' = deleted \cup held[p])
         /\ \A l \in Local : gen'[l] >= gen[l]
         /\ \A i \in Id, l \in Local :
              registry[i] # None /\ registry[i][l] # None => gen'[l] = gen[l]
         /\ \A q \in Process \ {p}, l \in Local :
              Getting(q, l) \/ Destroys(q, l) => gen'[l] = gen[l]
         /\ \A i \in Id, t \in Thread :
              registry[i] # None /\ WatchedEntry(i, t) => <<"watcher", t>> \in handle'
         /\ \A v \in deleted' : v \in deleted \/ v.gen < gen'[v.local]
                                \/ status[v.thread] = "exited"
<1>1. pc[p] = "unlocked" /\ op[p] # None /\ p \in Process
  BY DEF UseValue, LocalDestroyed, ThreadCleaned, Finish, CallsInv, CallsAreTheirs
<1>2. CASE UseValue(p)
  BY <1>2 DEF UseValue, localVars, CallsInv, CallsTypeOK, WatchedEntry
<1>3. CASE LocalDestroyed(p)
  <2>1. PICK l \in Local : Destroys(p, l) /\ op[p][2] = l /\ Cleaning(p)
    BY <1>1, <1>3, WhoCalls DEF LocalDestroyed, Finish, CallsInv, Cleaning
  <2>2. /\ gen' = [gen EXCEPT ![l] = gen[l] + 1]
        /\ handle' = handle /\ deleted' = deleted \cup held[p]
    BY <1>3, <2>1 DEF LocalDestroyed
  <2>3. /\ gen'[l] = gen[l] + 1 /\ gen[l] \in Nat
        /\ \A m \in Local \ {l} : gen'[m] = gen[m]
        /\ \A m \in Local : gen[m] \in Nat
    BY <2>2, BoundsType DEF CallsInv, CallsTypeOK
  <2>4. Erased(l)
    BY <1>1, <2>1 DEF Destroys, ValuesInv, CleanedStaysClean, After
  <2>5. ASSUME NEW q \in Process \ {p}, NEW m \in Local, Getting(q, m) \/ Destroys(q, m)
        PROVE  m # l
    BY <2>1, <2>5 DEF Getting, Destroys, CallsInv, DestroyedAlone
  <2>6. \A v \in held[p] : v.local = l /\ v.gen = gen[l]
    BY <2>1 DEF Destroys, ValuesInv, HeldByKind, MadeAt
  <2>7. \A v \in held[p] : v.gen < gen'[v.local]
    BY <2>3, <2>6
  <2> QED
    BY <2>1, <2>2, <2>3, <2>4, <2>5, <2>7 DEF Erased, WatchedEntry
<1>4. CASE ThreadCleaned(p)
  <2>1. PICK t \in Thread : Watching(p, t) /\ status[t] = "exited" /\ Cleaning(p)
    BY <1>1, <1>4, WhoCalls DEF ThreadCleaned, Finish, CallsInv, Cleaning
  <2>2. gen' = gen /\ handle' = handle \ {p} /\ deleted' = deleted \cup held[p]
    BY <1>4 DEF ThreadCleaned, localVars
  <2>3. registry[id[t]] = None /\ p = <<"watcher", t>>
    BY <1>1, <2>1 DEF Watching, ValuesInv, CleanedStaysClean, After
  <2>4. ASSUME NEW i \in Id, NEW u \in Thread, registry[i] # None, WatchedEntry(i, u)
        PROVE  <<"watcher", u>> \in handle'
    <3>1. u # t
      BY <2>3, <2>4 DEF WatchedEntry
    <3> QED
      BY <2>2, <2>3, <2>4, <3>1, CallKinds DEF WatchedEntry
  <2>5. \A v \in held[p] : status[v.thread] = "exited"
    BY <2>1, <2>3 DEF ValuesInv, HeldByKind
  <2>6. \A l \in Local : gen'[l] >= gen[l]
    BY <2>2, BoundsType DEF CallsInv, CallsTypeOK
  <2> QED
    BY <2>1, <2>2, <2>4, <2>5, <2>6
<1> QED
  BY <1>2, <1>3, <1>4

LEMMA ValuesFinish ==
  ASSUME MutexInv, CallsInv, ValuesInv, NEW p \in Process,
         UseValue(p) \/ LocalDestroyed(p) \/ ThreadCleaned(p)
  PROVE  ValuesInv'
<1>1. /\ pc' = [pc EXCEPT ![p] = "idle"] /\ op' = [op EXCEPT ![p] = None]
      /\ held' = [held EXCEPT ![p] = {}] /\ UNCHANGED <<id, status, registry>>
  BY DEF UseValue, LocalDestroyed, ThreadCleaned, Finish
<1>2. /\ op'[p] = None /\ pc'[p] \notin After /\ held'[p] = {}
      /\ \A q \in Process \ {p} : op'[q] = op[q] /\ pc'[q] = pc[q] /\ held'[q] = held[q]
      /\ ValuesTypeOK'
  <2>1. deleted' \subseteq Value
    BY FinishSpares DEF ValuesInv, ValuesTypeOK
  <2> QED
    BY <1>1, <2>1
       DEF After, MutexInv, MutexTypeOK, CallsInv, CallsTypeOK, ValuesInv, ValuesTypeOK
<1>3. RegisteredIsWatched'
  <2> SUFFICES ASSUME NEW i \in Id, registry[i] # None
               PROVE  \E t \in Thread : WatchedEntry(i, t)'
    BY <1>1 DEF RegisteredIsWatched
  <2>1. PICK t \in Thread : WatchedEntry(i, t)
    BY DEF ValuesInv, RegisteredIsWatched
  <2>2. ASSUME NEW l \in Local, registry[i][l] # None
        PROVE  MadeFor(registry[i][l], t, l)'
    <3>1. MadeFor(registry[i][l], t, l) /\ gen'[l] = gen[l]
      BY <2>1, <2>2, FinishSpares DEF WatchedEntry
    <3> QED
      BY <1>1, <3>1 DEF MadeFor, MadeAt
  <2>3. WatchedEntry(i, t)'
    BY <1>1, <2>1, <2>2, FinishSpares DEF WatchedEntry
  <2> QED
    BY <2>3
<1>4. \A l : Erased(l)' <=> Erased(l)
  BY <1>1 DEF Erased
<1>5. CleanedStaysClean'
  BY <1>1, <1>2, <1>4, CallKinds DEF ValuesInv, CleanedStaysClean
<1>6. HeldByKind'
  <2>1. \A q \in Process : pc'[q] \notin After => held'[q] = {}
    BY <1>2 DEF ValuesInv, HeldByKind
  <2>2. ASSUME NEW t \in Thread, NEW l \in Local
        PROVE  /\ op'[t] = <<"get", l>> => \A v \in held'[t] : MadeFor(v, t, l)'
               /\ op'[t] = <<"destroy", l>> => \A v \in held'[t] : MadeAt(v, l)'
    <3>1. CASE t = p
      BY <1>2, <3>1
    <3>2. CASE t # p
      <4>1. op'[t] = op[t] /\ held'[t] = held[t]
        BY <1>2, <3>2, CallKinds
      <4>2. Getting(t, l) \/ Destroys(t, l) => gen'[l] = gen[l]
        BY <3>2, FinishSpares, CallKinds
      <4>3. /\ op[t] = <<"get", l>> => \A v \in held[t] : MadeFor(v, t, l)
            /\ op[t] = <<"destroy", l>> => \A v \in held[t] : MadeAt(v, l)
        BY DEF ValuesInv, HeldByKind
      <4> QED
        BY <4>1, <4>2, <4>3 DEF Getting, Destroys, MadeFor, MadeAt
    <3> QED
      BY <3>1, <3>2
  <2>3. \A t \in Thread : \A v \in held'[<<"watcher", t>>] : v.thread = t
    BY <1>2, CallKinds DEF ValuesInv, HeldByKind
  <2> QED
    BY <2>1, <2>2, <2>3 DEF HeldByKind
<1>7. DeletedIsPast'
  <2> SUFFICES ASSUME NEW v \in deleted'
               PROVE  v.gen < gen'[v.local] \/ status[v.thread] = "exited"
    BY <1>1 DEF DeletedIsPast
  <2>1. CASE v \in deleted
    <3>1. v.gen \in Nat /\ v.local \in Local
      BY <2>1, BoundsType DEF ValuesInv, ValuesTypeOK, Value
    <3>2. gen[v.local] \in Nat /\ gen'[v.local] \in Nat /\ gen'[v.local] >= gen[v.local]
      BY <3>1, BoundsType, FinishSpares, CallsFinish DEF CallsInv, CallsTypeOK
    <3> QED
      BY <2>1, <3>1, <3>2 DEF ValuesInv, DeletedIsPast
  <2> QED
    BY <2>1, FinishSpares
<1>8. CleanersAreAlone'
  <2>1. \A v : Registered(v)' <=> Registered(v)
    BY <1>1 DEF Registered
  <2>2. \A q \in Process \ {p} : Cleaning(q)' => Cleaning(q)
    BY <1>2 DEF Cleaning
  <2>3. ~Cleaning(p)'
    BY <1>2 DEF Cleaning
  <2>4. ASSUME NEW v \in deleted'
        PROVE  ~Registered(v)
    BY FinishSpares DEF ValuesInv, CleanersAreAlone
  <2>5. ASSUME NEW q \in Process \ {p}, Cleaning(q), NEW v \in held[q]
        PROVE  /\ v \notin deleted' /\ ~Registered(v)
               /\ \A r \in Process \ {q} : v \notin held'[r]
    <3>1. v \notin deleted /\ ~Registered(v) /\ \A r \in Process \ {q} : v \notin held[r]
      BY <2>5 DEF ValuesInv, CleanersAreAlone
    <3> QED
      BY <1>2, <3>1, FinishSpares
  <2> QED
    BY <1>2, <2>1, <2>2, <2>3, <2>4, <2>5 DEF CleanersAreAlone
<1> QED
  BY <1>2, <1>3, <1>5, <1>6, <1>7, <1>8 DEF ValuesInv

LEMMA ValuesStep ==
  ASSUME MutexInv, CallsInv, ValuesInv, NEW p \in Process, Step(p)
  PROVE  ValuesInv'
<1>1. CASE TestPhase(p) \/ CreateSection(p) \/ Publish(p) \/ Spin(p)
           \/ EnterSection(p) \/ SetOwner(p) \/ ClearOwner(p) \/ LeaveSection(p)
  BY <1>1, ValuesInside
     DEF TestPhase, CreateSection, Publish, Spin, EnterSection, SetOwner,
         ClearOwner, LeaveSection, Goto, After
<1>2. CASE FindOrInsert(p)
  BY <1>2, ValuesFind
<1>3. CASE EraseLocal(p) \/ EraseThread(p)
  BY <1>3, ValuesErase
<1>4. CASE UseValue(p) \/ LocalDestroyed(p) \/ ThreadCleaned(p)
  BY <1>4, ValuesFinish
<1> QED
  BY <1>1, <1>2, <1>3, <1>4 DEF Step

LEMMA ValuesInductive == MutexInv /\ CallsInv /\ ValuesInv /\ [Next]_vars => ValuesInv'
<1> SUFFICES ASSUME MutexInv, CallsInv, ValuesInv, [Next]_vars
             PROVE  ValuesInv'
  OBVIOUS
<1>1. CASE UNCHANGED vars
  <2>1. \A q \in Process : held[q] # {} => pc[q] \in After
    BY DEF ValuesInv, HeldByKind
  <2> QED
    BY <1>1, <2>1, ValuesKept DEF vars, threadVars, localVars
<1>2. ASSUME NEW t \in Thread, NEW l \in Local, GetValue(t, l) \/ DestroyLocal(t, l)
      PROVE  ValuesInv'
  BY <1>2, ValuesBegin, CallKinds DEF GetValue, DestroyLocal, Idle, localVars
<1>3. ASSUME NEW t \in Thread, WatcherWakes(t)
      PROVE  ValuesInv'
  BY <1>3, ValuesBegin, CallKinds DEF WatcherWakes, localVars
<1> QED
  BY <1>1, <1>2, <1>3, ValuesStep, ValuesStartOrExit DEF Next

LEMMA ValuesCorrect == Spec => [](MutexInv /\ CallsInv /\ ValuesInv)
<1>1. Init => MutexInv /\ CallsInv /\ ValuesInv
  BY MutexInit, CallsInit, ValuesInit
<1>2. MutexInv /\ CallsInv /\ ValuesInv /\ [Next]_vars =>
        (MutexInv /\ CallsInv /\ ValuesInv)'
  BY MutexInductive, CallsInductive, ValuesInductive
<1> QED
  BY <1>1, <1>2, PTL DEF Spec

(* The state of the registry and of its users is of the types declared.    *)
THEOREM ThreadLocalsType == Spec => []TypeOK
<1>1. MutexInv /\ CallsInv /\ ValuesInv => TypeOK
  BY ProcessesAreMany
     DEF MutexInv, MutexTypeOK, CallsInv, CallsTypeOK, ValuesInv, ValuesTypeOK, PC, TypeOK
<1> QED
  BY <1>1, ValuesCorrect, PTL

(* However threads start, exit and inherit IDs, and objects are destroyed  *)
(* and made again at their addresses: GetValueOnCurrentThread returns the  *)
(* calling thread's own value for this object, and of the clean-ups by     *)
(* OnThreadLocalDestroyed and OnThreadExit (gtest-port.cc:588-640) one     *)
(* alone deletes a value.                                                  *)
THEOREM OneOwner == Spec => []ValuesHaveOneOwner
<1>1. MutexInv /\ CallsInv /\ ValuesInv => ValuesHaveOneOwner
  <2> SUFFICES ASSUME MutexInv, CallsInv, ValuesInv,
                      NEW p \in Process, NEW v \in held[p], op[p] # None
               PROVE  /\ pc[p] = "unlocked" /\ op[p][1] = "get" =>
                           v.thread = p /\ v.gen = gen[v.local] /\ v \notin deleted
                      /\ pc[p] \in {"unlock", "leave", "unlocked"} /\ op[p][1] # "get" =>
                           /\ v \notin deleted
                           /\ \A i \in Id : registry[i] # None => v \notin
                                {registry[i][l] : l \in Local}
                           /\ \A q \in Process \ {p} : v \notin held[q]
    BY DEF ValuesHaveOneOwner, CallsInv, CallsAreTheirs
  <2>1. CASE Cleaning(p)
    BY <2>1 DEF ValuesInv, CleanersAreAlone, Cleaning, Registered
  <2>2. CASE ~Cleaning(p)
    <3>1. PICK l \in Local : Getting(p, l) /\ MadeFor(v, p, l) /\ status[p] = "running"
      BY <2>2, HeldMade
    <3>2. v.thread = p /\ v.local = l /\ v.gen = gen[l] /\ gen[l] \in Nat
      BY <3>1, BoundsType DEF MadeFor, MadeAt, CallsInv, CallsTypeOK
    <3>3. v \notin deleted
      BY <3>1, <3>2 DEF ValuesInv, DeletedIsPast
    <3> QED
      BY <2>2, <3>2, <3>3 DEF Cleaning
  <2> QED
    BY <2>1, <2>2
<1> QED
  BY <1>1, ValuesCorrect, PTL
=============================================================================
