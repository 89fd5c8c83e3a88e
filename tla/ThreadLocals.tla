---------------------------- MODULE ThreadLocals ----------------------------
(***************************************************************************)
(* The Windows threading of googletest (gtest-port.cc:340-698), which the  *)
(* Visual Studio project compiles: a statically allocated Mutex that its   *)
(* first user initialises, and the registry of ThreadLocal values that it  *)
(* protects, cleaned up by a watcher thread per thread and by ~ThreadLocal.*)
(*                                                                         *)
(* A process is a thread of the program or the watcher of one.  A thread   *)
(* runs under an ID of the system, which the system gives to a new thread  *)
(* once the old one is gone and no handle to it is open; a destroyed       *)
(* ThreadLocal leaves an address that a new one may take (`gen` counts     *)
(* them).  A value remembers for whom it was made.                         *)
(***************************************************************************)
EXTENDS Naturals, FiniteSets

CONSTANTS
  Thread, Main,     \* the threads that may ever run; Main runs from the start
  Id,               \* thread IDs of the system
  Local,            \* addresses of ThreadLocal objects
  MaxGets,          \* bounds the calls of a thread
  MaxGen,           \* bounds the objects made at one address
  None

ASSUME MainIsAThread == Main \in Thread
ASSUME ThreadsAreFinite == IsFiniteSet(Thread)
ASSUME BoundsType == MaxGets \in Nat /\ MaxGen \in Nat

Watcher == {<<"watcher", t>> : t \in Thread}
Process == Thread \cup Watcher

VARIABLES
  phase,            \* critical_section_init_phase_
  section,          \* the critical sections made so far, 0 if none
  holder,           \* who is inside each of them
  owner,            \* owner_thread_id_
  registry,         \* thread_to_thread_locals: ID -> its values, or None
  pc, op,           \* where each process is, and what it called
  held,             \* value_holders of a process, or the value it was given
  in,               \* the critical section a process entered
  id, status,       \* of each thread
  handle,           \* which watchers hold an open handle
  gen,              \* the object that lives at each address
  users,            \* the threads that used it
  gets,             \* calls each thread has made
  deleted           \* the values that have been destroyed

mutexVars == <<phase, section, holder, owner, in>>
threadVars == <<id, status, handle>>
localVars == <<gen, users, gets>>
vars == <<mutexVars, threadVars, localVars, registry, pc, op, held, deleted>>

Value == [thread : Thread, local : Local, gen : 0 .. MaxGen]
Entry == [Local -> Value \cup {None}]
Call == {<<"get", l>> : l \in Local} \cup {<<"destroy", l>> : l \in Local}
          \cup {<<"exit", i>> : i \in Id}

(* No thread is a watcher, and None is nothing else. *)
ASSUME NamesAreDistinct ==
  /\ Thread \cap Watcher = {}
  /\ None \notin Process \cup Id \cup Value \cup Entry \cup Call

Idle(t) == status[t] = "running" /\ pc[t] = "idle"

Init ==
  /\ phase = 0 /\ section = 0 /\ owner = None
  /\ holder = [s \in 0 .. Cardinality(Process) |-> None]
  /\ registry = [i \in Id |-> None]
  /\ pc = [p \in Process |-> "idle"]
  /\ op = [p \in Process |-> None]
  /\ held = [p \in Process |-> {}]
  /\ in = [p \in Process |-> 0]
  /\ \E i \in Id : id = [t \in Thread |-> IF t = Main THEN i ELSE None]
  /\ status = [t \in Thread |-> IF t = Main THEN "running" ELSE "new"]
  /\ handle = {}
  /\ gen = [l \in Local |-> 0]
  /\ users = [l \in Local |-> {}]
  /\ gets = [t \in Thread |-> 0]
  /\ deleted = {}

-----------------------------------------------------------------------------
(* Callers.  A user of a ThreadLocal has to make sure that the others that *)
(* used it have exited before it destroys it (gtest-port.h:1608).          *)
BeginCall(p, call) ==
  /\ pc' = [pc EXCEPT ![p] = "init"]
  /\ op' = [op EXCEPT ![p] = call]
  /\ UNCHANGED <<mutexVars, threadVars, registry, deleted, held>>

Destroying(l) == \E t \in Thread : op[t] = <<"destroy", l>>

GetValue(t, l) ==
  /\ Idle(t) /\ gets[t] < MaxGets /\ ~Destroying(l)
  /\ BeginCall(t, <<"get", l>>)
  /\ gets' = [gets EXCEPT ![t] = @ + 1]
  /\ users' = [users EXCEPT ![l] = @ \cup {t}]
  /\ UNCHANGED gen

DestroyLocal(t, l) ==
  /\ Idle(t) /\ gen[l] < MaxGen /\ ~Destroying(l)
  /\ \A u \in users[l] \ {t} : status[u] = "exited"
  /\ BeginCall(t, <<"destroy", l>>)
  /\ UNCHANGED localVars

(* Mutant: no watcher keeps a handle to a thread, and so its ID. *)
BusyWhileRunning(i) == \E t \in Thread : id[t] = i /\ status[t] = "running"

(* CreateThread by anyone; the system picks a free ID. *)
Busy(i) == \E t \in Thread :
             id[t] = i /\ (status[t] = "running" \/ <<"watcher", t>> \in handle)

StartThread(t) ==
  /\ status[t] = "new"
  /\ \E i \in Id : ~Busy(i) /\ id' = [id EXCEPT ![t] = i]
  /\ status' = [status EXCEPT ![t] = "running"]
  /\ UNCHANGED <<mutexVars, localVars, handle, registry, pc, op, held, deleted>>

ExitThread(t) ==
  /\ Idle(t) /\ t # Main
  /\ status' = [status EXCEPT ![t] = "exited"]
  /\ UNCHANGED <<mutexVars, localVars, id, handle, registry, pc, op, held,
                 deleted>>

(* WatcherThreadFunc: WaitForSingleObject returns, OnThreadExit begins. *)
WatcherWakes(t) ==
  LET w == <<"watcher", t>>
  IN  /\ w \in handle /\ pc[w] = "idle" /\ status[t] = "exited"
      /\ BeginCall(w, <<"exit", id[t]>>)
      /\ UNCHANGED localVars

-----------------------------------------------------------------------------
(* Mutex::Lock: ThreadSafeLazyInit, EnterCriticalSection, the owner.       *)
Goto(p, from, to) ==
  /\ pc[p] = from
  /\ pc' = [pc EXCEPT ![p] = to]
  /\ UNCHANGED <<threadVars, localVars, registry, op, held, deleted>>

(* InterlockedCompareExchange(&critical_section_init_phase_, 1L, 0L). *)
TestPhase(p) ==
  /\ Goto(p, "init", CASE phase = 0 -> "create" [] phase = 1 -> "spin"
                       [] OTHER -> "enter")
  /\ phase' = IF phase = 0 THEN 1 ELSE phase
  /\ UNCHANGED <<section, holder, owner, in>>

CreateSection(p) ==
  /\ Goto(p, "create", "publish")
  /\ owner' = None
  /\ section' = section + 1
  /\ UNCHANGED <<phase, holder, in>>

Publish(p) ==
  /\ Goto(p, "publish", IF phase = 1 THEN "enter" ELSE "aborted")
  /\ phase' = 2
  /\ UNCHANGED <<section, holder, owner, in>>

(* Mutant: the second user does not wait for the first to finish. *)
SpinOnce(p) ==
  /\ Goto(p, "spin", "enter")
  /\ UNCHANGED mutexVars

Spin(p) ==
  /\ phase = 2
  /\ Goto(p, "spin", "enter")
  /\ UNCHANGED mutexVars

EnterSection(p) ==
  /\ holder[section] = None
  /\ Goto(p, "enter", "entered")
  /\ holder' = [holder EXCEPT ![section] = p]
  /\ in' = [in EXCEPT ![p] = section]
  /\ UNCHANGED <<phase, section, owner>>

SetOwner(p) ==
  /\ Goto(p, "entered", "locked")
  /\ owner' = p
  /\ UNCHANGED <<phase, section, holder, in>>

(* Mutex::Unlock: the owner first, then LeaveCriticalSection. *)
ClearOwner(p) ==
  /\ Goto(p, "unlock", "leave")
  /\ owner' = None
  /\ UNCHANGED <<phase, section, holder, in>>

LeaveSection(p) ==
  /\ Goto(p, "leave", "unlocked")
  /\ holder' = [holder EXCEPT ![in[p]] = None]
  /\ in' = [in EXCEPT ![p] = 0]
  /\ UNCHANGED <<phase, section, owner>>

-----------------------------------------------------------------------------
(* Under the lock, after mutex_.AssertHeld() of GetThreadLocalsMapLocked.  *)
Locked(p, call) == pc[p] = "locked" /\ op[p] # None /\ op[p][1] = call

WhileHeld(p, to) ==
  /\ pc' = [pc EXCEPT ![p] = IF owner = p THEN to ELSE "aborted"]
  /\ UNCHANGED <<mutexVars, localVars, id, status, op, deleted>>

NewEntry == [l \in Local |-> None]

(* Mutant: no watcher is started for a new thread. *)
FindOrInsertUnwatched(t) ==
  LET l == op[t][2]
      i == id[t]
      entry == IF registry[i] = None THEN NewEntry ELSE registry[i]
      value == IF entry[l] = None
                 THEN [thread |-> t, local |-> l, gen |-> gen[l]]
                 ELSE entry[l]
  IN  /\ Locked(t, "get") /\ WhileHeld(t, "unlock")
      /\ registry' = [registry EXCEPT ![i] = [entry EXCEPT ![l] = value]]
      /\ held' = [held EXCEPT ![t] = {value}]
      /\ UNCHANGED handle

(* GetValueOnCurrentThread: the thread's entry, with a watcher, then the   *)
(* value for this ThreadLocal.                                             *)
FindOrInsert(t) ==
  LET l == op[t][2]
      i == id[t]
      entry == IF registry[i] = None THEN NewEntry ELSE registry[i]
      value == IF entry[l] = None
                 THEN [thread |-> t, local |-> l, gen |-> gen[l]]
                 ELSE entry[l]
  IN  /\ Locked(t, "get") /\ WhileHeld(t, "unlock")
      /\ registry' = [registry EXCEPT ![i] = [entry EXCEPT ![l] = value]]
      /\ held' = [held EXCEPT ![t] = {value}]
      /\ handle' = IF registry[i] = None THEN handle \cup {<<"watcher", t>>}
                   ELSE handle

(* OnThreadLocalDestroyed: its value leaves the entry of every thread. *)
EraseLocal(t) ==
  LET l == op[t][2]
      entries == {i \in Id : registry[i] # None}
  IN  /\ Locked(t, "destroy") /\ WhileHeld(t, "unlock")
      /\ held' = [held EXCEPT ![t] =
                    {registry[i][l] : i \in entries} \ {None}]
      /\ registry' = [i \in Id |-> IF i \in entries
                                   THEN [registry[i] EXCEPT ![l] = None]
                                   ELSE None]
      /\ UNCHANGED handle

(* OnThreadExit: the thread's entry leaves the map with all its values. *)
EraseThread(w) ==
  LET i == op[w][2]
  IN  /\ Locked(w, "exit") /\ WhileHeld(w, "unlock")
      /\ held' = [held EXCEPT ![w] =
                    IF registry[i] = None THEN {}
                    ELSE {registry[i][l] : l \in Local} \ {None}]
      /\ registry' = [registry EXCEPT ![i] = None]
      /\ UNCHANGED handle

-----------------------------------------------------------------------------
(* After the lock: the caller uses the value it was given ...              *)
Finish(p, call) ==
  /\ pc[p] = "unlocked" /\ op[p][1] = call
  /\ pc' = [pc EXCEPT ![p] = "idle"]
  /\ op' = [op EXCEPT ![p] = None]
  /\ held' = [held EXCEPT ![p] = {}]
  /\ UNCHANGED <<mutexVars, id, status, registry>>

UseValue(t) == Finish(t, "get") /\ UNCHANGED <<handle, localVars, deleted>>

(* ... or `value_holders` goes out of scope and deletes the values.        *)
LocalDestroyed(t) ==
  LET l == op[t][2]
  IN  /\ Finish(t, "destroy")
      /\ deleted' = deleted \cup held[t]
      /\ gen' = [gen EXCEPT ![l] = @ + 1]
      /\ users' = [users EXCEPT ![l] = {}]
      /\ UNCHANGED <<handle, gets>>

(* The watcher then closes its handle to the thread. *)
ThreadCleaned(w) ==
  /\ Finish(w, "exit")
  /\ deleted' = deleted \cup held[w]
  /\ handle' = handle \ {w}
  /\ UNCHANGED localVars

Step(p) ==
  \/ TestPhase(p) \/ CreateSection(p) \/ Publish(p) \/ Spin(p)
  \/ EnterSection(p) \/ SetOwner(p) \/ ClearOwner(p) \/ LeaveSection(p)
  \/ FindOrInsert(p) \/ EraseLocal(p) \/ EraseThread(p)
  \/ UseValue(p) \/ LocalDestroyed(p) \/ ThreadCleaned(p)

Next ==
  \/ \E p \in Process : Step(p)
  \/ \E t \in Thread : \/ StartThread(t) \/ ExitThread(t) \/ WatcherWakes(t)
                       \/ \E l \in Local : GetValue(t, l) \/ DestroyLocal(t, l)

(* The system schedules every thread that can run; EnterCriticalSection is *)
(* passed by in favour of others at most MaxGets + MaxGen times each.      *)
Fairness ==
  /\ \A p \in Process : WF_vars(Step(p))
  /\ \A t \in Thread : WF_vars(WatcherWakes(t))

Spec == Init /\ [][Next]_vars /\ Fairness

-----------------------------------------------------------------------------
(* The type invariant; "aborted" stands for a failed GTEST_CHECK_. *)
TypeOK ==
  /\ phase \in 0 .. 2
  /\ section \in 0 .. Cardinality(Process)
  /\ holder \in [0 .. Cardinality(Process) -> Process \cup {None}]
  /\ owner \in Process \cup {None}
  /\ registry \in [Id -> Entry \cup {None}]
  /\ pc \in [Process -> {"idle", "init", "create", "publish", "spin", "enter",
                         "entered", "locked", "unlock", "leave", "unlocked",
                         "aborted"}]
  /\ op \in [Process -> Call \cup {None}]
  /\ held \in [Process -> SUBSET Value]
  /\ in \in [Process -> 0 .. Cardinality(Process)]
  /\ id \in [Thread -> Id \cup {None}]
  /\ status \in [Thread -> {"new", "running", "exited"}]
  /\ handle \subseteq Watcher
  /\ gen \in [Local -> 0 .. MaxGen]
  /\ users \in [Local -> SUBSET Thread]
  /\ gets \in [Thread -> 0 .. MaxGets]
  /\ deleted \subseteq Value

(* However its first users race to initialise it, the mutex lets one       *)
(* process at a time at the registry (gtest-port.cc:417), and no           *)
(* GTEST_CHECK_ fails: AssertHeld finds its caller to be the owner although*)
(* owner_thread_id_ is written outside the section by the initialisation,  *)
(* and phase 1 ends by its own initialiser.                                *)
MutexExcludes ==
  /\ \A p, q \in Process :
       /\ p # q
       /\ pc[p] \in {"entered", "locked", "unlock", "leave"}
       => pc[q] \notin {"entered", "locked", "unlock", "leave"}
  /\ \A p \in Process : pc[p] # "aborted"

(* What a thread is given was made for this thread, not for an earlier one *)
(* with the same ID, and for this ThreadLocal, not for an earlier one at   *)
(* the same address; nobody has deleted it.  A value is deleted once: two  *)
(* clean-ups that race for it never both hold it, nor one that is still    *)
(* registered or deleted before.                                           *)
ValuesHaveOneOwner ==
  \A p \in Process : \A v \in held[p] :
    /\ pc[p] = "unlocked" /\ op[p][1] = "get" =>
         /\ v.thread = p
         /\ v.gen = gen[v.local]
         /\ v \notin deleted
    /\ pc[p] \in {"unlock", "leave", "unlocked"} /\ op[p][1] # "get" =>
         /\ v \notin deleted
         /\ \A i \in Id : registry[i] # None => v \notin
              {registry[i][l] : l \in Local}
         /\ \A q \in Process \ {p} : v \notin held[q]

(* The values of a thread that has exited are deleted some day.            *)
Undeleted ==
  {v \in Value :
     \/ \E i \in Id : registry[i] # None /\ \E l \in Local : registry[i][l] = v
     \/ \E p \in Process : v \in held[p]}

ExitedThreadsLeaveNothing ==
  \A t \in Thread :
    status[t] = "exited" ~> \A v \in Undeleted : v.thread # t
=============================================================================
