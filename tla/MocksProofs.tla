----------------------------- MODULE MocksProofs ------------------------------
(***************************************************************************)
(* Theorems about Mocks, for any statements, mocks that own one another,   *)
(* threads and numbers of calls: sequences are respected, each action is   *)
(* handed out once, and what a verification reports is exact; and about    *)
(* MockRegistry, for any objects, classes and statements: what gmock knows *)
(* by an address is true of the object that is there.                      *)
(*                                                                         *)
(* MocksInv is the invariant of the calls: what is retired is closed under *)
(* prerequisites, and the log, the counts and the actions agree.           *)
(* VerdictInv is that of the verifications: a failure is reported, or a    *)
(* call is on its way to report it, if and only if there is one, and       *)
(* whatever still has expectations will be verified.  RegistryInv says of  *)
(* each address when it has an entry, and which.                           *)
(***************************************************************************)
EXTENDS Mocks, MockRegistry, Inductions, SequenceTheorems, FiniteSetTheorems

-----------------------------------------------------------------------------
(***************************************************************************)
(* What is reached from a number over smaller ones: the prerequisites of   *)
(* an expectation, and what it retires, are both of this form.             *)
(***************************************************************************)
Reaches(f, g, n) == f = [e \in 1 .. n |-> g[e] \cup UNION {f[d] : d \in g[e]}]

Downward(g, n) == \A e \in 1 .. n : g[e] \subseteq 1 .. e - 1

LEMMA ReachStep ==
  ASSUME NEW n \in Nat, NEW g, NEW f, Reaches(f, g, n)
  PROVE  \A e \in 1 .. n : f[e] = g[e] \cup UNION {f[d] : d \in g[e]}
<1> DEFINE h == [e \in 1 .. n |-> g[e] \cup UNION {f[d] : d \in g[e]}]
<1>1. f = h
  BY DEF Reaches
<1>2. \A e \in 1 .. n : h[e] = g[e] \cup UNION {f[d] : d \in g[e]}
  OBVIOUS
<1> HIDE DEF h
<1> QED
  BY <1>1, <1>2

LEMMA ReachExists ==
  ASSUME NEW n \in Nat, NEW g, Downward(g, n)
  PROVE  \E f : Reaches(f, g, n)
<1> DEFINE T == {i \in 0 .. n : \E f : Reaches(f, g, i)}
<1>1. 0 \in T
  <2>1. Reaches([e \in 1 .. 0 |-> {}], g, 0)
    BY DEF Reaches
  <2> QED
    BY <2>1
<1>2. ASSUME NEW i \in 0 .. n, i # n, i \in T PROVE i + 1 \in T
  <2>1. PICK f : Reaches(f, g, i)
    BY <1>2
  <2> DEFINE h == [e \in 1 .. i + 1 |-> g[e] \cup UNION {f[d] : d \in g[e]}]
  <2>2. \A e \in 1 .. i : h[e] = f[e]
    <3>1. \A e \in 1 .. i : f[e] = g[e] \cup UNION {f[d] : d \in g[e]}
      BY <2>1, ReachStep
    <3>2. \A e \in 1 .. i : h[e] = g[e] \cup UNION {f[d] : d \in g[e]}
      OBVIOUS
    <3> QED
      BY <3>1, <3>2
  <2>3. ASSUME NEW e \in 1 .. i + 1, NEW d \in g[e] PROVE d \in 1 .. i
    BY <1>2, <2>3 DEF Downward
  <2>4. \A e \in 1 .. i + 1 : {f[d] : d \in g[e]} = {h[d] : d \in g[e]}
    BY <2>2, <2>3
  <2>5. h = [e \in 1 .. i + 1 |-> g[e] \cup UNION {h[d] : d \in g[e]}]
    BY <2>4
  <2> HIDE DEF h
  <2>6. Reaches(h, g, i + 1)
    BY <2>5 DEF Reaches
  <2> QED
    BY <1>2, <2>6
<1> HIDE DEF T
<1>3. \A i \in 0 .. n : i # n /\ i \in T => i + 1 \in T
  BY <1>2
<1>4. n \in T
  BY <1>1, <1>3, UpwardInduction
<1> QED
  BY <1>4 DEF T

(* Only smaller numbers are reached, and what is reached from a reached    *)
(* number is reached.                                                      *)
LEMMA ReachIsBelow ==
  ASSUME NEW n \in Nat, NEW g, NEW f, Reaches(f, g, n), Downward(g, n)
  PROVE  \A e \in 1 .. n : f[e] \subseteq 1 .. e - 1
<1> DEFINE T == {e \in 1 .. n : f[e] \subseteq 1 .. e - 1}
<1>1. ASSUME NEW e \in 1 .. n, \A d \in 1 .. e - 1 : d \in T PROVE e \in T
  <2>1. f[e] = g[e] \cup UNION {f[d] : d \in g[e]}
    BY ReachStep
  <2>2. g[e] \subseteq 1 .. e - 1
    BY DEF Downward
  <2>3. ASSUME NEW d \in g[e], NEW c \in f[d] PROVE c \in 1 .. e - 1
    <3>1. d \in 1 .. e - 1 /\ f[d] \subseteq 1 .. d - 1
      BY <1>1, <2>2
    <3> QED
      BY <3>1
  <2> QED
    BY <2>1, <2>2, <2>3
<1> HIDE DEF T
<1>2. \A e \in 1 .. n : e \in T
  BY <1>1, StrongInduction
<1> QED
  BY <1>2 DEF T

LEMMA ReachIsTransitive ==
  ASSUME NEW n \in Nat, NEW g, NEW f, Reaches(f, g, n), Downward(g, n)
  PROVE  \A e \in 1 .. n : \A d \in f[e] : g[d] \subseteq f[e]
<1> DEFINE T == {e \in 1 .. n : \A d \in f[e] : g[d] \subseteq f[e]}
<1>0. \A e \in 1 .. n : f[e] = g[e] \cup UNION {f[d] : d \in g[e]}
  BY ReachStep
<1>1. ASSUME NEW e \in 1 .. n, \A d \in 1 .. e - 1 : d \in T PROVE e \in T
  <2>1. ASSUME NEW d \in f[e] PROVE g[d] \subseteq f[e]
    <3>1. CASE d \in g[e]
      <4>1. d \in 1 .. n
        BY <3>1 DEF Downward
      <4>2. g[d] \subseteq f[d]
        BY <1>0, <4>1
      <4>3. f[d] \subseteq f[e]
        BY <1>0, <3>1
      <4> QED
        BY <4>2, <4>3
    <3>2. CASE \E c \in g[e] : d \in f[c]
      <4>1. PICK c \in g[e] : d \in f[c]
        BY <3>2
      <4>2. c \in 1 .. e - 1
        BY DEF Downward
      <4>3. g[d] \subseteq f[c]
        BY <1>1, <4>1, <4>2
      <4>4. f[c] \subseteq f[e]
        BY <1>0
      <4> QED
        BY <4>3, <4>4
    <3> QED
      BY <1>0, <2>1, <3>1, <3>2
  <2> QED
    BY <2>1
<1> HIDE DEF T
<1>2. \A e \in 1 .. n : e \in T
  BY <1>1, StrongInduction
<1> QED
  BY <1>2 DEF T

(* A set that is closed under g and has an element has what it reaches.   *)
LEMMA ClosedReach ==
  ASSUME NEW n \in Nat, NEW g, NEW f, Reaches(f, g, n), Downward(g, n),
         NEW S, \A e \in 1 .. n : e \in S => g[e] \subseteq S
  PROVE  \A e \in 1 .. n : e \in S => f[e] \subseteq S
<1> DEFINE T == {e \in 1 .. n : e \in S => f[e] \subseteq S}
<1>0. \A e \in 1 .. n : f[e] = g[e] \cup UNION {f[d] : d \in g[e]}
  BY ReachStep
<1>1. ASSUME NEW e \in 1 .. n, \A d \in 1 .. e - 1 : d \in T PROVE e \in T
  <2>1. ASSUME e \in S PROVE f[e] \subseteq S
    <3>1. \A d \in g[e] : d \in 1 .. e - 1
      BY DEF Downward
    <3>2. \A d \in g[e] : d \in S
      BY <2>1
    <3>3. \A d \in g[e] : f[d] \subseteq S
      BY <1>1, <3>1, <3>2
    <3> QED
      BY <1>0, <3>2, <3>3
  <2> QED
    BY <2>1
<1> HIDE DEF T
<1>2. \A e \in 1 .. n : e \in T
  BY <1>1, StrongInduction
<1> QED
  BY <1>2 DEF T

(* What is reached over all edges is in a closed set, or is reached over   *)
(* the edges that lead out of it: the short cut of RetireAllPreRequisites. *)
LEMMA ShortCut ==
  ASSUME NEW n \in Nat, NEW g, NEW f, Reaches(f, g, n), Downward(g, n),
         NEW h, NEW r, Reaches(r, h, n),
         NEW S, \A e \in 1 .. n : e \in S => g[e] \subseteq S,
         \A e \in 1 .. n : h[e] = {d \in g[e] : d \notin S}
  PROVE  \A e \in 1 .. n : f[e] \subseteq S \cup r[e]
<1> DEFINE T == {e \in 1 .. n : f[e] \subseteq S \cup r[e]}
<1>0. \A e \in 1 .. n : f[e] = g[e] \cup UNION {f[d] : d \in g[e]}
  BY ReachStep
<1>a. \A e \in 1 .. n : r[e] = h[e] \cup UNION {r[d] : d \in h[e]}
  BY ReachStep
<1>b. \A e \in 1 .. n : e \in S => f[e] \subseteq S
  BY ClosedReach
<1>1. ASSUME NEW e \in 1 .. n, \A d \in 1 .. e - 1 : d \in T PROVE e \in T
  <2>1. \A d \in g[e] : d \in 1 .. e - 1 /\ d \in 1 .. n
    BY DEF Downward
  <2>2. ASSUME NEW d \in g[e] PROVE d \in S \cup r[e] /\ f[d] \subseteq S \cup r[e]
    <3>1. CASE d \in S
      BY <1>b, <2>1, <3>1
    <3>2. CASE d \notin S
      <4>1. d \in h[e]
        BY <3>2
      <4>2. d \in r[e] /\ r[d] \subseteq r[e]
        BY <1>a, <4>1
      <4>3. f[d] \subseteq S \cup r[d]
        BY <1>1, <2>1
      <4> QED
        BY <4>2, <4>3
    <3> QED
      BY <3>1, <3>2
  <2> QED
    BY <1>0, <2>2
<1> HIDE DEF T
<1>2. \A e \in 1 .. n : e \in T
  BY <1>1, StrongInduction
<1> QED
  BY <1>2 DEF T

-----------------------------------------------------------------------------
(***************************************************************************)
(* The calls of a log that an expectation has taken.                       *)
(***************************************************************************)
Takes(l, e, n) == {i \in 1 .. n : l[i].exp = e /\ l[i].kind = "expected"}
Taken(l, e) == Takes(l, e, Len(l))

LEMMA TakesFinite ==
  ASSUME NEW l, NEW e, NEW n \in Nat
  PROVE  IsFiniteSet(Takes(l, e, n)) /\ Cardinality(Takes(l, e, n)) \in Nat
<1>1. IsFiniteSet(1 .. n)
  BY FS_Interval
<1>2. Takes(l, e, n) \subseteq 1 .. n
  BY DEF Takes
<1>3. IsFiniteSet(Takes(l, e, n))
  BY <1>1, <1>2, FS_Subset
<1> QED
  BY <1>3, FS_CardinalityType

(* A new call leaves the older ones as they are.                           *)
LEMMA AppendKeepsTakes ==
  ASSUME NEW l \in Seq(Entry), NEW x \in Entry, NEW e, NEW n \in 0 .. Len(l)
  PROVE  Takes(Append(l, x), e, n) = Takes(l, e, n)
<1>1. \A i \in 1 .. n : Append(l, x)[i] = l[i]
  OBVIOUS
<1> QED
  BY <1>1 DEF Takes

LEMMA AppendTaken ==
  ASSUME NEW l \in Seq(Entry), NEW x \in Entry, NEW e
  PROVE  /\ x.exp = e /\ x.kind = "expected" =>
              /\ Taken(Append(l, x), e) = Taken(l, e) \cup {Len(l) + 1}
              /\ Cardinality(Taken(Append(l, x), e)) = Cardinality(Taken(l, e)) + 1
         /\ ~ (x.exp = e /\ x.kind = "expected") =>
              Taken(Append(l, x), e) = Taken(l, e)
<1> DEFINE m == Append(l, x)
           k == Len(l)
<1>1. k \in Nat /\ Len(m) = k + 1 /\ m[k + 1] = x
  OBVIOUS
<1>2. Takes(m, e, k) = Taken(l, e)
  BY AppendKeepsTakes DEF Taken
<1> HIDE DEF m, k
<1>3. x.exp = e /\ x.kind = "expected" =>
        Takes(m, e, k + 1) = Takes(m, e, k) \cup {k + 1}
  BY <1>1 DEF Takes
<1>4. ~ (x.exp = e /\ x.kind = "expected") => Takes(m, e, k + 1) = Takes(m, e, k)
  BY <1>1 DEF Takes
<1>5. Taken(m, e) = Takes(m, e, k + 1)
  BY <1>1 DEF Taken
<1>6. k + 1 \notin Takes(m, e, k)
  BY <1>1 DEF Takes
<1>7. IsFiniteSet(Takes(m, e, k))
  BY <1>1, TakesFinite
<1>8. Cardinality(Takes(m, e, k) \cup {k + 1}) = Cardinality(Takes(m, e, k)) + 1
  BY <1>6, <1>7, FS_AddElement
<1> QED
  BY <1>2, <1>3, <1>4, <1>5, <1>8 DEF m, k

-----------------------------------------------------------------------------
(***************************************************************************)
(* The expectations are the first numbers, and what the two recursive      *)
(* functions of Mocks compute is what is reached over the prerequisites.   *)
(***************************************************************************)
LEMMA ExpectationsAreNumbers ==
  Len(Declared) \in Nat /\ Expectation = 1 .. Len(Declared)
BY DeclaredIsAList DEF Expectation

LEMMA BoundsAreNumbers ==
  \A e \in Expectation : Bounds(e)[1] \in Nat /\ Bounds(e)[2] \in Nat
BY DeclaredType, MaxCallsType DEF Bounds

LEMMA BoundsAreInOrder ==
  \A e \in Expectation : Bounds(e)[1] <= Bounds(e)[2]
BY DeclaredType, LowerIsNotAboveUpper, MaxCallsType DEF Bounds

LEMMA PrerequisitesReach ==
  ASSUME Downward(immediate, Len(Declared))
  PROVE  Reaches(Prerequisites, immediate, Len(Declared))
<1>1. \E f : Reaches(f, immediate, Len(Declared))
  BY ReachExists, ExpectationsAreNumbers
<1>2. Prerequisites =
        CHOOSE f : f = [e \in Expectation |->
                          immediate[e] \cup UNION {f[d] : d \in immediate[e]}]
  BY DEF Prerequisites
<1>3. \E f : f = [e \in Expectation |->
                    immediate[e] \cup UNION {f[d] : d \in immediate[e]}]
  BY <1>1, ExpectationsAreNumbers DEF Reaches
<1>4. Prerequisites = [e \in Expectation |->
        immediate[e] \cup UNION {Prerequisites[d] : d \in immediate[e]}]
  BY <1>2, <1>3
<1> QED
  BY <1>4, ExpectationsAreNumbers DEF Reaches

Active == [e \in Expectation |-> {d \in immediate[e] : ~retired[d]}]

LEMMA ToRetireReaches ==
  ASSUME Downward(immediate, Len(Declared))
  PROVE  Reaches(ToRetire, Active, Len(Declared)) /\ Downward(Active, Len(Declared))
<1> DEFINE n == Len(Declared)
           A == Active
<1>1. n \in Nat /\ Expectation = 1 .. n
  BY ExpectationsAreNumbers
<1>2. \A e \in 1 .. n : A[e] = {d \in immediate[e] : ~retired[d]}
  BY <1>1 DEF Active
<1>3. Downward(A, n)
  BY <1>2 DEF Downward
<1>4. \E f : Reaches(f, A, n)
  BY <1>1, <1>3, ReachExists
<1> DEFINE F(f) == [e \in Expectation |->
                      {d \in immediate[e] : ~retired[d]}
                        \cup UNION {f[d] : d \in {c \in immediate[e] : ~retired[c]}}]
           Is(f) == f = F(f)
<1>5. ToRetire = CHOOSE f : Is(f)
  BY DEF ToRetire
<1>6. ASSUME NEW f PROVE F(f) = [e \in 1 .. n |-> A[e] \cup UNION {f[d] : d \in A[e]}]
  BY <1>1, <1>2
<1>7. PICK f : f = [e \in 1 .. n |-> A[e] \cup UNION {f[d] : d \in A[e]}]
  BY <1>4 DEF Reaches
<1>8. f = F(f)
  <2> HIDE DEF F
  <2> QED
    BY <1>6, <1>7
<1>9. Is(ToRetire)
  <2>1. \E r : Is(r)
    BY <1>8
  <2> HIDE DEF Is
  <2> QED
    BY <1>5, <2>1
<1>10. ToRetire = [e \in 1 .. n |-> A[e] \cup UNION {ToRetire[d] : d \in A[e]}]
  <2>1. ToRetire = F(ToRetire)
    BY <1>9
  <2> HIDE DEF F
  <2> QED
    BY <1>6, <2>1
<1> HIDE DEF n, A
<1> QED
  BY <1>3, <1>10 DEF n, A, Reaches

-----------------------------------------------------------------------------
(***************************************************************************)
(* The inductive invariant.                                                *)
(***************************************************************************)
(* What the variables that count are. *)
Shape ==
  /\ declared \in 0 .. Len(Declared)
  /\ last \in [Sequence -> 0 .. declared]
  /\ immediate \in [Expectation -> SUBSET Expectation]
  /\ Downward(immediate, Len(Declared))
  /\ untyped_expectations \in [Mocker -> Seq(Expectation)]
  /\ call_count \in [Expectation -> Nat]
  /\ retired \in [Expectation -> BOOLEAN]
  /\ pc \in [Thread -> {"idle", "find", "uninteresting", "perform", "report"}
                         \cup Verifying]
  /\ call \in [Thread -> Call \cup {None}]
  /\ \A t \in Thread : pc[t] \in {"find", "perform", "report"} => call[t] \in Call
  /\ log \in Seq(Entry)

(* No call is made before the expectations are set. *)
SetFirst ==
  declared < Len(Declared) =>
    /\ \A t \in Thread : pc[t] = "idle"
    /\ \A e \in Expectation : ~retired[e]
    /\ log = << >>

(* What is retired is closed under prerequisites. *)
RetiredClosed ==
  \A e \in Expectation : retired[e] => \A d \in immediate[e] : retired[d]

(* The count of an expectation that has not been called too often is the   *)
(* number of calls that it has taken.                                      *)
CountsAgree ==
  \A e \in Expectation :
    call_count[e] <= Bounds(e)[2] => call_count[e] = Cardinality(Taken(log, e))

(* What an expected call relied on is retired, and had its calls before.   *)
OrderKept ==
  \A i \in 1 .. Len(log) : log[i].kind = "expected" =>
    /\ log[i].exp \in Expectation
    /\ \A d \in Prerequisites[log[i].exp] :
         /\ Cardinality(Takes(log, d, i)) >= Bounds(d)[1]
         /\ Taken(log, d) = Takes(log, d, i)
         /\ retired[d]

(* The calls taken by e that were given one of its WillOnce actions.       *)
Once(l, e) == {i \in Taken(l, e) : l[i].action \in 1 .. Declared[e].once}
OnceActions(l, e) == {l[i].action : i \in Once(l, e)}

(* The first calls were given the first actions, one each.                 *)
HandedOut(l, e) ==
  LET n == Cardinality(Taken(l, e))
      k == IF n <= Declared[e].once THEN n ELSE Declared[e].once
  IN  /\ OnceActions(l, e) = 1 .. k
      /\ Cardinality(Once(l, e)) = k
      /\ n <= Declared[e].once => Once(l, e) = Taken(l, e)

ActionsInOrder == \A e \in Expectation : HandedOut(log, e)

MocksInv ==
  /\ Shape /\ SetFirst /\ RetiredClosed
  /\ CountsAgree /\ OrderKept /\ ActionsInOrder

LEMMA InitMocks ==
  Init => MocksInv
<1> SUFFICES ASSUME Init PROVE MocksInv
  OBVIOUS
<1>1. Len(Declared) \in Nat /\ Expectation = 1 .. Len(Declared)
  BY ExpectationsAreNumbers
<1>2. log = << >> /\ Len(log) = 0 /\ log \in Seq(Entry)
  BY DEF Init
<1>3. Shape
  BY <1>1, <1>2 DEF Init, Shape, Downward
<1>4. SetFirst /\ RetiredClosed
  BY DEF Init, SetFirst, RetiredClosed
<1>5. \A e : Taken(log, e) = {} /\ Once(log, e) = {} /\ OnceActions(log, e) = {}
  BY <1>2 DEF Taken, Takes, Once, OnceActions
<1>6. Cardinality({}) = 0
  BY FS_EmptySet
<1>7. CountsAgree
  BY <1>5, <1>6 DEF CountsAgree, Init
<1>8. OrderKept
  BY <1>2 DEF OrderKept
<1>9. ActionsInOrder
  <2> SUFFICES ASSUME NEW e \in Expectation PROVE HandedOut(log, e)
    BY DEF ActionsInOrder
  <2>1. Declared[e].once \in Nat
    BY DeclaredType
  <2>2. Cardinality(Taken(log, e)) = 0 /\ Cardinality(Once(log, e)) = 0
    BY <1>5, <1>6
  <2>3. OnceActions(log, e) = 1 .. 0
    BY <1>5
  <2>4. Once(log, e) = Taken(log, e)
    BY <1>5
  <2> QED
    BY <2>1, <2>2, <2>3, <2>4 DEF HandedOut
<1> QED
  BY <1>3, <1>4, <1>7, <1>8, <1>9 DEF MocksInv

(* A step that leaves the calls and the expectations alone.                *)
LEMMA QuietStep ==
  ASSUME RetiredClosed, CountsAgree, OrderKept, ActionsInOrder,
         UNCHANGED <<immediate, counts, log>>
  PROVE  RetiredClosed' /\ CountsAgree' /\ OrderKept' /\ ActionsInOrder'
<1>1. UNCHANGED <<immediate, call_count, retired, log>>
  BY DEF counts
<1>2. Prerequisites' = Prerequisites
  BY <1>1 DEF Prerequisites
<1>3. RetiredClosed'
  BY <1>1 DEF RetiredClosed
<1>4. CountsAgree'
  BY <1>1 DEF CountsAgree
<1>5. OrderKept'
  BY <1>1, <1>2 DEF OrderKept
<1>6. ActionsInOrder'
  BY <1>1 DEF ActionsInOrder
<1> QED
  BY <1>3, <1>4, <1>5, <1>6

(* An entry that no expectation took.                                      *)
LEMMA HandedOutKept ==
  ASSUME NEW l \in Seq(Entry), NEW x \in Entry, NEW e,
         ~ (x.exp = e /\ x.kind = "expected"), HandedOut(l, e)
  PROVE  HandedOut(Append(l, x), e)
<1>1. Taken(Append(l, x), e) = Taken(l, e)
  BY AppendTaken
<1>2. \A i \in Taken(l, e) : Append(l, x)[i] = l[i]
  BY DEF Taken, Takes
<1>3. Once(Append(l, x), e) = Once(l, e)
  BY <1>1, <1>2 DEF Once
<1>4. \A i \in Once(l, e) : Append(l, x)[i] = l[i]
  BY <1>2 DEF Once
<1>5. OnceActions(Append(l, x), e) = OnceActions(l, e)
  BY <1>3, <1>4 DEF OnceActions
<1> QED
  BY <1>1, <1>3, <1>5 DEF HandedOut

(* The next call of an expectation gets the next action while one is left. *)
LEMMA HandedOutNext ==
  ASSUME NEW l \in Seq(Entry), NEW x \in Entry, NEW e \in Expectation,
         x.exp = e, x.kind = "expected", HandedOut(l, e),
         x.action = GetCurrentAction(e, Cardinality(Taken(l, e)) + 1)
  PROVE  HandedOut(Append(l, x), e)
<1> DEFINE m == Append(l, x)
           n == Cardinality(Taken(l, e))
           k == Len(l) + 1
           O == Declared[e].once
<1>1. O \in Nat
  BY DeclaredType
<1>2. n \in Nat /\ IsFiniteSet(Taken(l, e))
  BY TakesFinite DEF Taken
<1>3. Taken(m, e) = Taken(l, e) \cup {k} /\ Cardinality(Taken(m, e)) = n + 1
  BY AppendTaken
<1>4. \A i \in Taken(l, e) : i # k /\ m[i] = l[i]
  BY DEF Taken, Takes
<1>5. m[k] = x
  OBVIOUS
<1>6. \A i \in Once(l, e) : i # k /\ m[i] = l[i]
  BY <1>4 DEF Once
<1>7. IsFiniteSet(Once(l, e))
  BY <1>2, FS_Subset DEF Once
<1> HIDE DEF m, n, k, O
<1>8. CASE n < O
  <2>1. x.action = n + 1
    BY <1>1, <1>2, <1>8 DEF GetCurrentAction, n, O
  <2>2. Once(l, e) = Taken(l, e) /\ OnceActions(l, e) = 1 .. n /\ Cardinality(Once(l, e)) = n
    BY <1>1, <1>2, <1>8 DEF HandedOut, n, O
  <2>3. Once(m, e) = {i \in Taken(m, e) : m[i].action \in 1 .. O}
    BY DEF Once, O
  <2>4. \A i \in Once(l, e) : l[i].action \in 1 .. O
    BY DEF Once, O
  <2>5. n + 1 \in 1 .. O
    BY <1>1, <1>2, <1>8
  <2>6. Once(m, e) = Once(l, e) \cup {k}
    BY <1>3, <1>5, <1>6, <2>1, <2>2, <2>3, <2>4, <2>5
  <2>7. OnceActions(m, e) = OnceActions(l, e) \cup {n + 1}
    <3>1. OnceActions(m, e) = {m[i].action : i \in Once(l, e) \cup {k}}
      BY <2>6 DEF OnceActions
    <3>2. {m[i].action : i \in Once(l, e) \cup {k}}
            = {m[i].action : i \in Once(l, e)} \cup {m[k].action}
      OBVIOUS
    <3>3. {m[i].action : i \in Once(l, e)} = {l[i].action : i \in Once(l, e)}
      BY <1>6
    <3> QED
      BY <1>5, <2>1, <3>1, <3>2, <3>3 DEF OnceActions
  <2>8. OnceActions(m, e) = 1 .. n + 1
    BY <1>2, <2>2, <2>7
  <2>9. k \notin Once(l, e)
    BY <1>6
  <2>10. Cardinality(Once(l, e) \cup {k}) = n + 1
    BY <1>7, <2>2, <2>9, FS_AddElement
  <2>11. n + 1 <= O
    BY <1>1, <1>2, <1>8
  <2>12. Once(m, e) = Taken(m, e)
    BY <1>3, <2>2, <2>6
  <2> QED
    BY <1>3, <2>6, <2>8, <2>10, <2>11, <2>12 DEF HandedOut, O, m
<1>9. CASE ~ (n < O)
  <2>1. x.action \notin 1 .. O
    BY <1>1, <1>2, <1>9 DEF GetCurrentAction, DefaultAction, n, O
  <2>2. Once(m, e) = {i \in Taken(m, e) : m[i].action \in 1 .. O}
    BY DEF Once, O
  <2>3. Once(l, e) = {i \in Taken(l, e) : l[i].action \in 1 .. O}
    BY DEF Once, O
  <2>4. Once(m, e) = Once(l, e)
    BY <1>3, <1>4, <1>5, <2>1, <2>2, <2>3
  <2>5. OnceActions(m, e) = OnceActions(l, e)
    BY <1>6, <2>4 DEF OnceActions
  <2>6. OnceActions(l, e) = 1 .. O /\ Cardinality(Once(l, e)) = O
    <3>1. n <= O => n = O
      BY <1>1, <1>2, <1>9
    <3> QED
      BY <3>1 DEF HandedOut, n, O
  <2>7. ~ (n + 1 <= O)
    BY <1>1, <1>2, <1>9
  <2> QED
    BY <1>3, <2>4, <2>5, <2>6, <2>7 DEF HandedOut, O, m
<1> QED
  BY <1>8, <1>9 DEF m

(* A step that adds a call that no expectation took.                       *)
LEMMA UnmatchedStep ==
  ASSUME log \in Seq(Entry), RetiredClosed, CountsAgree, OrderKept, ActionsInOrder,
         UNCHANGED <<immediate, retired>>,
         \A e \in Expectation :
           call_count'[e] <= Bounds(e)[2] => call_count'[e] = call_count[e],
         NEW x \in Entry, x.kind # "expected", log' = Append(log, x)
  PROVE  RetiredClosed' /\ CountsAgree' /\ OrderKept' /\ ActionsInOrder'
<1>1. Len(log) \in Nat /\ Len(log') = Len(log) + 1 /\ log'[Len(log) + 1] = x
  OBVIOUS
<1>2. Prerequisites' = Prerequisites
  BY DEF Prerequisites
<1>3. RetiredClosed'
  BY DEF RetiredClosed
<1>4. \A e : Taken(log', e) = Taken(log, e)
  BY AppendTaken
<1>5. CountsAgree'
  <2> SUFFICES ASSUME NEW e \in Expectation, call_count'[e] <= Bounds(e)[2]
               PROVE  call_count'[e] = Cardinality(Taken(log', e))
    BY DEF CountsAgree
  <2> QED
    BY <1>4 DEF CountsAgree
<1>6. OrderKept'
  <2> SUFFICES ASSUME NEW i \in 1 .. Len(log'), log'[i].kind = "expected"
               PROVE  /\ log'[i].exp \in Expectation
                      /\ \A d \in Prerequisites[log'[i].exp] :
                           /\ Cardinality(Takes(log', d, i)) >= Bounds(d)[1]
                           /\ Taken(log', d) = Takes(log', d, i)
                           /\ retired[d]
    BY <1>2 DEF OrderKept
  <2>1. i \in 1 .. Len(log)
    BY <1>1
  <2>2. log'[i] = log[i]
    BY <2>1
  <2>3. \A d : Takes(log', d, i) = Takes(log, d, i)
    BY <2>1, AppendKeepsTakes
  <2> QED
    BY <1>4, <2>1, <2>2, <2>3 DEF OrderKept
<1>7. ActionsInOrder'
  <2>1. \A e \in Expectation : HandedOut(log', e)
    BY HandedOutKept DEF ActionsInOrder
  <2> QED
    BY <2>1 DEF ActionsInOrder
<1> QED
  BY <1>3, <1>5, <1>6, <1>7

(* What FindMatchingExpectation returns.                                   *)
LEMMA FoundShouldHandle ==
  ASSUME Shape, NEW m \in Mocker, NEW a, FindMatchingExpectation(m, a) # None
  PROVE  /\ FindMatchingExpectation(m, a) \in Expectation
         /\ ShouldHandleArguments(FindMatchingExpectation(m, a), a)
<1> DEFINE es == {e \in Range(untyped_expectations[m]) : ShouldHandleArguments(e, a)}
<1>1. untyped_expectations[m] \in Seq(Expectation)
  BY DEF Shape
<1>2. Range(untyped_expectations[m]) \subseteq Expectation
  BY <1>1 DEF Range
<1>3. es # {} /\ FindMatchingExpectation(m, a) = CHOOSE e \in es : \A d \in es : d <= e
  BY DEF FindMatchingExpectation
<1>4. Len(Declared) \in Nat /\ es \in SUBSET (1 .. Len(Declared))
  BY <1>2, ExpectationsAreNumbers
<1>5. \A e \in es : e \in Expectation /\ ShouldHandleArguments(e, a)
  BY <1>2
<1> HIDE DEF es
<1>6. \E e \in es : \A d \in es : d <= e
  BY <1>3, <1>4, GreatestInInterval
<1>7. FindMatchingExpectation(m, a) \in es
  BY <1>3, <1>6
<1> QED
  BY <1>5, <1>7

(* Retiring what e rests on keeps the retired expectations closed, and     *)
(* leaves no prerequisite of e out.                                        *)
LEMMA RetireAllPreRequisites ==
  ASSUME Shape, RetiredClosed, NEW e \in Expectation, NEW R \in SUBSET {e},
         retired' = [d \in Expectation |-> retired[d] \/ d \in ToRetire[e] \/ d \in R],
         UNCHANGED immediate
  PROVE  /\ RetiredClosed'
         /\ \A d \in Prerequisites[e] : d \in Expectation /\ d # e /\ retired'[d]
<1> DEFINE n == Len(Declared)
           S == {d \in Expectation : retired[d]}
           A == Active
           I == immediate
           P == Prerequisites
           W == ToRetire
<1>1. n \in Nat /\ Expectation = 1 .. n
  BY ExpectationsAreNumbers
<1>2. Downward(I, n) /\ \A d \in Expectation : I[d] \subseteq Expectation
  BY DEF Shape
<1>3. Reaches(P, I, n)
  BY <1>2, PrerequisitesReach
<1>4. Reaches(W, A, n) /\ Downward(A, n)
  BY <1>2, ToRetireReaches
<1>5. \A d \in 1 .. n : A[d] = {c \in I[d] : c \notin S}
  BY <1>1, <1>2 DEF Active
<1>6. \A d \in 1 .. n : d \in S => I[d] \subseteq S
  BY <1>1, <1>2 DEF RetiredClosed
<1>7. \A d \in Expectation : retired'[d] <=> d \in S \cup W[e] \cup R
  OBVIOUS
<1> HIDE DEF n, S, A, I, P, W
<1>8. P[e] \subseteq S \cup W[e]
  <2>1. n \in Nat /\ Downward(I, n)
    BY <1>1, <1>2
  <2>2. \A d \in 1 .. n : P[d] \subseteq S \cup W[d]
    BY ONLY <2>1, <1>3, <1>4, <1>5, <1>6, ShortCut
  <2> QED
    BY <1>1, <2>2
<1>9. P[e] \subseteq 1 .. e - 1
  BY <1>1, <1>2, <1>3, ReachIsBelow
<1>10. \A d \in W[e] : A[d] \subseteq W[e]
  BY <1>1, <1>4, ReachIsTransitive
<1>11. A[e] \subseteq W[e]
  <2>1. W[e] = A[e] \cup UNION {W[d] : d \in A[e]}
    BY <1>1, <1>4, ReachStep
  <2> QED
    BY <2>1
<1>12. W[e] \subseteq 1 .. e - 1
  BY <1>1, <1>4, ReachIsBelow
<1>13. ASSUME NEW d \in Expectation, d \in S \cup W[e] \cup R, NEW c \in I[d]
       PROVE  c \in S \cup W[e]
  <2>1. CASE d \in S
    BY <1>1, <1>6, <2>1
  <2>2. CASE d \in W[e]
    BY <1>1, <1>5, <1>10, <2>2
  <2>3. CASE d \in R
    <3>1. d = e
      BY <2>3
    <3> QED
      BY <1>1, <1>5, <1>11, <3>1
  <2> QED
    BY <1>13, <2>1, <2>2, <2>3
<1>14. RetiredClosed'
  <2> SUFFICES ASSUME NEW d \in Expectation, retired'[d], NEW c \in I[d]
               PROVE  retired'[c]
    BY DEF RetiredClosed, I
  <2> QED
    BY <1>2, <1>7, <1>13
<1>15. ASSUME NEW d \in P[e] PROVE d \in Expectation /\ d # e /\ retired'[d]
  <2>1. d \in 1 .. e - 1 /\ e \in 1 .. n
    BY <1>1, <1>9
  <2>2. d \in Expectation /\ d # e
    BY <1>1, <2>1
  <2> QED
    BY <1>7, <1>8, <2>2
<1> QED
  BY <1>14, <1>15 DEF P

(* A call that its expectation expected.                                   *)
LEMMA ExpectedStep ==
  ASSUME Shape, RetiredClosed, CountsAgree, OrderKept, ActionsInOrder,
         NEW e \in Expectation, ~retired[e], AllPrerequisitesAreSatisfied(e),
         ~IsSaturated(e), UNCHANGED immediate,
         call_count' = [call_count EXCEPT ![e] = call_count[e] + 1],
         NEW R \in SUBSET {e},
         retired' = [d \in Expectation |-> retired[d] \/ d \in ToRetire[e] \/ d \in R],
         NEW x \in Entry, x.exp = e, x.kind = "expected", log' = Append(log, x),
         x.action = GetCurrentAction(e, call_count[e] + 1)
  PROVE  RetiredClosed' /\ CountsAgree' /\ OrderKept' /\ ActionsInOrder'
<1>1. log \in Seq(Entry) /\ \A d \in Expectation : call_count[d] \in Nat
  BY DEF Shape
<1>2. Len(log) \in Nat /\ Len(log') = Len(log) + 1 /\ log'[Len(log) + 1] = x
  BY <1>1
<1>3. Prerequisites' = Prerequisites
  BY DEF Prerequisites
<1>4. /\ RetiredClosed'
      /\ \A d \in Prerequisites[e] : d \in Expectation /\ d # e /\ retired'[d]
  BY RetireAllPreRequisites
<1>5. /\ Taken(log', e) = Taken(log, e) \cup {Len(log) + 1}
      /\ Cardinality(Taken(log', e)) = Cardinality(Taken(log, e)) + 1
  BY <1>1, AppendTaken
<1>6. \A d : d # e => Taken(log', d) = Taken(log, d)
  BY <1>1, AppendTaken
<1>7. call_count[e] < Bounds(e)[2] /\ call_count[e] = Cardinality(Taken(log, e))
  <2>1. call_count[e] < Bounds(e)[2]
    BY <1>1, BoundsAreNumbers DEF IsSaturated
  <2>2. call_count[e] <= Bounds(e)[2]
    BY <1>1, <2>1, BoundsAreNumbers
  <2> QED
    BY <2>1, <2>2 DEF CountsAgree
<1>8. CountsAgree'
  <2> SUFFICES ASSUME NEW d \in Expectation, call_count'[d] <= Bounds(d)[2]
               PROVE  call_count'[d] = Cardinality(Taken(log', d))
    BY DEF CountsAgree
  <2>1. CASE d = e
    <3>1. call_count'[d] = call_count[e] + 1
      BY <2>1 DEF Shape
    <3> QED
      BY <1>5, <1>7, <2>1, <3>1
  <2>2. CASE d # e
    <3>1. call_count'[d] = call_count[d]
      BY <2>2 DEF Shape
    <3>2. call_count[d] <= Bounds(d)[2]
      BY <3>1
    <3> QED
      BY <1>6, <2>2, <3>1, <3>2 DEF CountsAgree
  <2> QED
    BY <2>1, <2>2
<1>9. \A d \in Expectation : retired[d] => retired'[d] /\ d # e
  OBVIOUS
<1>10. OrderKept'
  <2> SUFFICES ASSUME NEW i \in 1 .. Len(log'), log'[i].kind = "expected"
               PROVE  /\ log'[i].exp \in Expectation
                      /\ \A d \in Prerequisites[log'[i].exp] :
                           /\ Cardinality(Takes(log', d, i)) >= Bounds(d)[1]
                           /\ Taken(log', d) = Takes(log', d, i)
                           /\ retired'[d]
    BY <1>3 DEF OrderKept
  <2>1. CASE i \in 1 .. Len(log)
    <3>1. log'[i] = log[i]
      BY <1>1, <2>1
    <3>2. \A d : Takes(log', d, i) = Takes(log, d, i)
      BY <1>1, <2>1, AppendKeepsTakes
    <3>3. /\ log[i].exp \in Expectation
          /\ \A d \in Prerequisites[log[i].exp] :
               /\ Cardinality(Takes(log, d, i)) >= Bounds(d)[1]
               /\ Taken(log, d) = Takes(log, d, i)
               /\ retired[d]
      BY <2>1, <3>1 DEF OrderKept
    <3>4. \A d \in Prerequisites[log[i].exp] : d \in Expectation
      <4>1. Downward(immediate, Len(Declared))
        BY DEF Shape
      <4>2. \A c \in 1 .. Len(Declared) : Prerequisites[c] \subseteq 1 .. c - 1
        BY <4>1, PrerequisitesReach, ReachIsBelow, ExpectationsAreNumbers
      <4>3. log[i].exp \in 1 .. Len(Declared)
        BY <3>3, ExpectationsAreNumbers
      <4>4. Prerequisites[log[i].exp] \subseteq 1 .. log[i].exp - 1
        BY <4>2, <4>3
      <4> QED
        BY <4>3, <4>4, ExpectationsAreNumbers
    <3> QED
      BY <1>6, <1>9, <3>1, <3>2, <3>3, <3>4
  <2>2. CASE i = Len(log) + 1
    <3>1. log'[i].exp = e
      BY <1>2, <2>2
    <3>2. ASSUME NEW d \in Prerequisites[e]
          PROVE  /\ Cardinality(Takes(log', d, i)) >= Bounds(d)[1]
                 /\ Taken(log', d) = Takes(log', d, i)
                 /\ retired'[d]
      <4>1. d \in Expectation /\ d # e /\ retired'[d]
        BY <1>4
      <4>2. Bounds(d)[1] <= call_count[d] /\ call_count[d] <= Bounds(d)[2]
        BY DEF AllPrerequisitesAreSatisfied, IsSatisfied
      <4>3. call_count[d] = Cardinality(Taken(log, d))
        BY <4>1, <4>2 DEF CountsAgree
      <4>4. Taken(log', d) = Takes(log', d, i)
        BY <1>2, <2>2 DEF Taken
      <4>5. Cardinality(Takes(log', d, i)) = call_count[d]
        BY <1>6, <4>1, <4>3, <4>4
      <4> QED
        BY <1>1, <4>1, <4>2, <4>4, <4>5, BoundsAreNumbers
    <3> QED
      BY <3>1, <3>2
  <2> QED
    BY <1>2, <2>1, <2>2
<1>11. ActionsInOrder'
  <2>1. HandedOut(log', e)
    BY <1>1, <1>7, HandedOutNext DEF ActionsInOrder
  <2>2. ASSUME NEW d \in Expectation, d # e PROVE HandedOut(log', d)
    BY <1>1, <2>2, HandedOutKept DEF ActionsInOrder
  <2> QED
    BY <2>1, <2>2 DEF ActionsInOrder
<1> QED
  BY <1>4, <1>8, <1>10, <1>11

(* MatchingCall: the entry is that of an expected or of an excessive call. *)
LEMMA MatchingStep ==
  ASSUME MocksInv, NEW t \in Thread, MatchingCall(t)
  PROVE  /\ RetiredClosed' /\ CountsAgree' /\ OrderKept' /\ ActionsInOrder'
         /\ call_count' \in [Expectation -> Nat] /\ retired' \in [Expectation -> BOOLEAN]
         /\ \E x \in Entry :
              /\ log' = Append(log, x)
              /\ x.exp \in Expectation /\ x.kind \in {"expected", "excessive"}
              /\ call' = [call EXCEPT ![t] =
                   [@ EXCEPT !.exp = x.exp, !.action = x.action, !.kind = x.kind,
                             !.throws = x.throws]]
<1>1. Shape /\ RetiredClosed /\ CountsAgree /\ OrderKept /\ ActionsInOrder
  BY DEF MocksInv
<1> DEFINE m == call[t].mocker
           a == call[t].argument
<1>2. PICK e : /\ e = FindMatchingExpectation(m, a) /\ e # None
               /\ call_count' = [call_count EXCEPT ![e] = call_count[e] + 1]
               /\ IF IsSaturated(e)
                    THEN /\ \E b \in BOOLEAN : Logged(t, e, DefaultAction, "excessive", b)
                         /\ UNCHANGED retired
                    ELSE /\ Logged(t, e, GetCurrentAction(e, call_count[e] + 1), "expected",
                                   FALSE)
                         /\ retired' = [d \in Expectation |->
                              \/ retired[d] \/ d \in ToRetire[e]
                              \/ (d = e /\ Declared[e].retires
                                    /\ call_count[e] + 1 >= Bounds(e)[2])]
  BY DEF MatchingCall
<1>3. pc[t] = "find" /\ UNCHANGED immediate
  BY DEF MatchingCall, specs
<1>4. m \in Mocker
  BY <1>1, <1>3 DEF Shape, Call
<1> HIDE DEF m, a
<1>5. e \in Expectation /\ ShouldHandleArguments(e, a)
  BY <1>1, <1>2, <1>4, FoundShouldHandle
<1>6. call_count[e] \in Nat /\ call_count' \in [Expectation -> Nat]
  BY <1>1, <1>2, <1>5 DEF Shape
<1>7. CASE IsSaturated(e)
  <2>0. PICK b \in BOOLEAN : Logged(t, e, DefaultAction, "excessive", b)
    BY <1>2, <1>7
  <2> DEFINE x == [exp |-> e, action |-> DefaultAction, kind |-> "excessive",
                   throws |-> b]
  <2>1. x \in Entry
    BY <1>5 DEF Entry, DefaultAction
  <2>2. log' = Append(log, x) /\ UNCHANGED retired
    BY <1>2, <1>7, <2>0 DEF Logged
  <2>3. call' = [call EXCEPT ![t] =
          [@ EXCEPT !.exp = x.exp, !.action = x.action, !.kind = x.kind,
                    !.throws = x.throws]]
    BY <2>0 DEF Logged
  <2>4. x.exp \in Expectation /\ x.kind = "excessive"
    BY <1>5
  <2> HIDE DEF x
  <2>5. ASSUME NEW d \in Expectation, call_count'[d] <= Bounds(d)[2]
        PROVE  call_count'[d] = call_count[d]
    <3>1. CASE d = e
      <4>1. call_count'[d] = call_count[e] + 1
        BY <1>1, <1>2, <1>5, <3>1 DEF Shape
      <4>2. call_count[e] >= Bounds(e)[2] /\ Bounds(e)[2] \in Nat
        BY <1>5, <1>7, BoundsAreNumbers DEF IsSaturated
      <4> QED
        BY <1>6, <2>5, <3>1, <4>1, <4>2
    <3>2. CASE d # e
      BY <1>1, <1>2, <3>2 DEF Shape
    <3> QED
      BY <3>1, <3>2
  <2>6. log \in Seq(Entry) /\ retired \in [Expectation -> BOOLEAN]
    BY <1>1 DEF Shape
  <2>7. x.kind # "expected"
    BY <2>4
  <2>8. RetiredClosed' /\ CountsAgree' /\ OrderKept' /\ ActionsInOrder'
    BY <1>1, <1>3, <2>1, <2>2, <2>5, <2>6, <2>7, UnmatchedStep
  <2> QED
    BY <1>6, <2>1, <2>2, <2>3, <2>4, <2>6, <2>8
<1>8. CASE ~IsSaturated(e)
  <2> DEFINE x == [exp |-> e, action |-> GetCurrentAction(e, call_count[e] + 1),
                   kind |-> "expected", throws |-> FALSE]
             R == {d \in {e} : Declared[e].retires /\ call_count[e] + 1 >= Bounds(e)[2]}
  <2>1. GetCurrentAction(e, call_count[e] + 1) \in Nat
    BY <1>5, <1>6, DeclaredType DEF GetCurrentAction, DefaultAction
  <2>2. x \in Entry
    BY <1>5, <2>1 DEF Entry
  <2>3. log' = Append(log, x)
    BY <1>2, <1>8 DEF Logged
  <2>4. call' = [call EXCEPT ![t] =
          [@ EXCEPT !.exp = x.exp, !.action = x.action, !.kind = x.kind,
                    !.throws = x.throws]]
    BY <1>2, <1>8 DEF Logged
  <2>5. x.exp = e /\ x.kind = "expected"
        /\ x.action = GetCurrentAction(e, call_count[e] + 1)
    OBVIOUS
  <2>6. retired' = [d \in Expectation |-> retired[d] \/ d \in ToRetire[e] \/ d \in R]
    BY <1>2, <1>8
  <2>7. R \in SUBSET {e}
    OBVIOUS
  <2> HIDE DEF x, R
  <2>8. ~retired[e] /\ AllPrerequisitesAreSatisfied(e)
    BY <1>5 DEF ShouldHandleArguments
  <2>9. RetiredClosed' /\ CountsAgree' /\ OrderKept' /\ ActionsInOrder'
    BY <1>1, <1>2, <1>3, <1>5, <1>8, <2>2, <2>3, <2>5, <2>6, <2>7, <2>8, ExpectedStep
  <2>10. retired' \in [Expectation -> BOOLEAN]
    <3>1. retired \in [Expectation -> BOOLEAN]
      BY <1>1 DEF Shape
    <3> QED
      BY <2>6, <3>1
  <2> QED
    BY <1>5, <1>6, <2>2, <2>3, <2>4, <2>5, <2>9, <2>10
<1> QED
  BY <1>7, <1>8

LEMMA ExpectCallKeeps ==
  ASSUME MocksInv, ExpectCall
  PROVE  MocksInv'
<1> DEFINE n == Len(Declared)
           e == declared + 1
           d == Declared[e]
<1>1. n \in Nat /\ Expectation = 1 .. n
  BY ExpectationsAreNumbers
<1>2. Shape /\ SetFirst /\ declared < n
  BY DEF MocksInv, ExpectCall
<1>3. declared \in 0 .. n /\ e \in 1 .. n /\ e - 1 = declared
  BY <1>1, <1>2 DEF Shape
<1>4. /\ d.mocker \in Mocker /\ d.after \subseteq 1 .. e - 1 /\ d.sequences \subseteq Sequence
  BY <1>1, <1>3, DeclaredType
<1>5. /\ declared' = e
      /\ untyped_expectations' =
           [untyped_expectations EXCEPT ![d.mocker] =
              Append(untyped_expectations[d.mocker], e)]
      /\ immediate' = [immediate EXCEPT
           ![e] = d.after \cup ({last[s] : s \in d.sequences} \ {0})]
      /\ last' = [s \in Sequence |-> IF s \in d.sequences THEN e ELSE last[s]]
      /\ UNCHANGED <<call_count, retired, pc, call, log>>
  BY DEF ExpectCall, counts
<1> HIDE DEF d
<1>6. \A t \in Thread : pc[t] = "idle"
  BY <1>2 DEF SetFirst
<1>7. /\ \A c \in Expectation : ~retired[c]
      /\ log = << >>
  BY <1>2 DEF SetFirst
<1>8. last \in [Sequence -> 0 .. declared]
  BY <1>2 DEF Shape
<1>9. last' \in [Sequence -> 0 .. declared']
  BY <1>3, <1>5, <1>8
<1>10. {last[s] : s \in d.sequences} \ {0} \subseteq 1 .. e - 1
  BY <1>3, <1>4, <1>8
<1>11. immediate' \in [Expectation -> SUBSET Expectation] /\ Downward(immediate', n)
  <2> DEFINE new == d.after \cup ({last[s] : s \in d.sequences} \ {0})
  <2>1. new \subseteq 1 .. e - 1 /\ new \subseteq Expectation
    BY <1>1, <1>3, <1>4, <1>10
  <2>2. immediate' = [immediate EXCEPT ![e] = new]
    BY <1>5
  <2>3. immediate \in [Expectation -> SUBSET Expectation] /\ Downward(immediate, n)
    BY <1>2 DEF Shape
  <2> HIDE DEF new, e
  <2>4. immediate' \in [Expectation -> SUBSET Expectation]
    BY <1>1, <1>3, <2>1, <2>2, <2>3
  <2>5. \A c \in 1 .. n : immediate'[c] \subseteq 1 .. c - 1
    BY <1>1, <2>1, <2>2, <2>3 DEF Downward
  <2> QED
    BY <2>4, <2>5 DEF Downward
<1>12. untyped_expectations' \in [Mocker -> Seq(Expectation)]
  <2>1. untyped_expectations \in [Mocker -> Seq(Expectation)]
    BY <1>2 DEF Shape
  <2>2. e \in Expectation
    BY <1>1, <1>3
  <2> HIDE DEF e
  <2> QED
    BY <1>4, <1>5, <2>1, <2>2
<1>13. declared' \in 0 .. n
  BY <1>3, <1>5
<1>14. Shape'
  BY <1>2, <1>5, <1>9, <1>11, <1>12, <1>13 DEF Shape
<1>15. SetFirst'
  BY <1>5, <1>6, <1>7 DEF SetFirst
<1>16. RetiredClosed'
  BY <1>5, <1>7 DEF RetiredClosed
<1>17. CountsAgree'
  BY <1>5 DEF MocksInv, CountsAgree
<1>18. OrderKept'
  BY <1>5, <1>7 DEF OrderKept
<1>19. ActionsInOrder'
  BY <1>5 DEF MocksInv, ActionsInOrder
<1> QED
  BY <1>14, <1>15, <1>16, <1>17, <1>18, <1>19 DEF MocksInv

(* The steps between the critical sections of a call, and those of a       *)
(* verification: none touches an expectation or the log.                   *)
QuietSteps(t) ==
  \/ \E m \in Mocker, a \in Argument : Invoke(t, m, a)
  \/ PerformAction(t) \/ ReportCall(t) \/ EndTest(t)
  \/ Lock(t) \/ VerifyMocker(t) \/ DeleteExpectations(t) \/ VerificationDone(t)

LEMMA QuietStepsKeepShape ==
  ASSUME Shape, NEW t \in Thread, QuietSteps(t)
  PROVE  Shape' /\ UNCHANGED <<declared, immediate, counts, log>>
<1> DEFINE PC == {"idle", "find", "uninteresting", "perform", "report"} \cup Verifying
<1>1. /\ pc \in [Thread -> PC] /\ call \in [Thread -> Call \cup {None}]
      /\ \A u \in Thread : pc[u] \in {"find", "perform", "report"} => call[u] \in Call
      /\ untyped_expectations \in [Mocker -> Seq(Expectation)]
      /\ last \in [Sequence -> 0 .. declared]
      /\ declared \in 0 .. Len(Declared)
  BY DEF Shape
<1>2. ASSUME UNCHANGED <<declared, immediate, counts, log>>,
             untyped_expectations' \in [Mocker -> Seq(Expectation)],
             last' \in [Sequence -> 0 .. declared],
             NEW p \in PC, Goto(t, p),
             call' \in [Thread -> Call \cup {None}],
             \A u \in Thread : u # t => call'[u] = call[u],
             p \in {"find", "perform", "report"} => call'[t] \in Call
      PROVE  Shape'
  <2>1. pc' \in [Thread -> PC]
    BY <1>1, <1>2 DEF Goto
  <2>2. pc'[t] = p /\ \A u \in Thread : u # t => pc'[u] = pc[u]
    BY <1>1, <1>2 DEF Goto
  <2>3. \A u \in Thread : pc'[u] \in {"find", "perform", "report"} => call'[u] \in Call
    BY <1>1, <1>2, <2>2
  <2>4. UNCHANGED <<declared, immediate, call_count, retired, log>>
    BY <1>2 DEF counts
  <2> QED
    BY <1>2, <2>1, <2>3, <2>4 DEF Shape
<1>3. ASSUME NEW m \in Mocker, NEW a \in Argument, Invoke(t, m, a)
      PROVE  Shape' /\ UNCHANGED <<declared, immediate, counts, log>>
  <2> DEFINE c == [mocker |-> m, argument |-> a, exp |-> None, action |-> None,
                   kind |-> "found", throws |-> FALSE]
             p == IF untyped_expectations[m] = << >> THEN "uninteresting" ELSE "find"
  <2>1. c \in Call /\ p \in PC
    BY DEF Call
  <2>2. call' = [call EXCEPT ![t] = c] /\ Goto(t, p)
    BY <1>3 DEF Invoke
  <2>3. UNCHANGED <<declared, last, immediate, counts, log, untyped_expectations>>
    BY <1>3 DEF Invoke, specs
  <2> HIDE DEF c, p
  <2>4. /\ call' \in [Thread -> Call \cup {None}] /\ call'[t] \in Call
        /\ \A u \in Thread : u # t => call'[u] = call[u]
    BY <1>1, <2>1, <2>2
  <2> QED
    BY <1>1, <1>2, <2>1, <2>2, <2>3, <2>4
<1>4. CASE PerformAction(t)
  <2>1. UNCHANGED <<declared, last, immediate, counts, log, untyped_expectations, call>>
    BY <1>4 DEF PerformAction, specs
  <2>2. PICK p \in {"lock", "report"} : Goto(t, p)
    BY <1>4 DEF PerformAction
  <2>3. pc[t] = "perform"
    BY <1>4 DEF PerformAction
  <2>4. p \in PC
    BY DEF Verifying
  <2> QED
    BY <1>1, <1>2, <2>1, <2>2, <2>3, <2>4
<1>5. CASE ReportCall(t)
  <2>1. UNCHANGED <<declared, last, immediate, counts, log, untyped_expectations>>
    BY <1>5 DEF ReportCall, specs
  <2>2. call' = [call EXCEPT ![t] = None] /\ Goto(t, "idle")
    BY <1>5 DEF ReportCall
  <2>3. /\ call' \in [Thread -> Call \cup {None}]
        /\ \A u \in Thread : u # t => call'[u] = call[u]
    BY <1>1, <2>2
  <2> QED
    BY <1>1, <1>2, <2>1, <2>2, <2>3
<1>6. CASE EndTest(t)
  <2>1. UNCHANGED <<declared, immediate, counts, log, untyped_expectations, call>>
    BY <1>6 DEF EndTest
  <2>2. last' \in [Sequence -> 0 .. declared]
    BY <1>1, <1>6, ExpectationsAreNumbers DEF EndTest
  <2>3. Goto(t, "lock")
    BY <1>6 DEF EndTest
  <2>4. "lock" \in PC
    BY DEF Verifying
  <2> QED
    BY <1>1, <1>2, <2>1, <2>2, <2>3, <2>4
<1>7. CASE Lock(t)
  <2>1. UNCHANGED <<declared, last, immediate, counts, log, untyped_expectations, call>>
    BY <1>7 DEF Lock, specs
  <2>2. Goto(t, "verify")
    BY <1>7 DEF Lock
  <2>3. "verify" \in PC
    BY DEF Verifying
  <2> QED
    BY <1>1, <1>2, <2>1, <2>2, <2>3
<1>8. CASE VerifyMocker(t)
  <2>1. UNCHANGED <<declared, last, immediate, counts, log, call>>
    BY <1>8 DEF VerifyMocker, specs
  <2>2. Goto(t, "delete")
    BY <1>8 DEF VerifyMocker
  <2>3. untyped_expectations' = [untyped_expectations EXCEPT ![Head(todo)] = << >>]
    BY <1>8 DEF VerifyMocker
  <2>4. << >> \in Seq(Expectation)
    OBVIOUS
  <2>5. untyped_expectations' \in [Mocker -> Seq(Expectation)]
    BY <1>1, <2>3, <2>4
  <2>6. "delete" \in PC
    BY DEF Verifying
  <2> QED
    BY <1>1, <1>2, <2>1, <2>2, <2>5, <2>6
<1>9. CASE DeleteExpectations(t)
  <2>1. UNCHANGED <<declared, last, immediate, counts, log, untyped_expectations, call>>
    BY <1>9 DEF DeleteExpectations, specs
  <2>2. Goto(t, "lock")
    BY <1>9 DEF DeleteExpectations
  <2>3. "lock" \in PC
    BY DEF Verifying
  <2> QED
    BY <1>1, <1>2, <2>1, <2>2, <2>3
<1>10. CASE VerificationDone(t)
  <2> DEFINE p == IF call[t] = None THEN "idle" ELSE "report"
  <2>1. UNCHANGED <<declared, last, immediate, counts, log, untyped_expectations, call>>
    BY <1>10 DEF VerificationDone, specs
  <2>2. Goto(t, p)
    BY <1>10 DEF VerificationDone
  <2>3. p \in PC /\ (p \in {"find", "perform", "report"} => call'[t] \in Call)
    BY <1>1, <2>1
  <2> HIDE DEF p
  <2> QED
    BY <1>1, <1>2, <2>1, <2>2, <2>3
<1> QED
  BY <1>3, <1>4, <1>5, <1>6, <1>7, <1>8, <1>9, <1>10 DEF QuietSteps

(* Calls are made, and the test ends, only once the expectations are set.  *)
LEMMA BusyAfterSet ==
  ASSUME MocksInv, NEW t \in Thread,
         QuietSteps(t) \/ UninterestingCall(t) \/ UnexpectedCall(t) \/ MatchingCall(t)
  PROVE  declared = Len(Declared)
<1> SUFFICES ASSUME declared < Len(Declared) PROVE FALSE
  BY ExpectationsAreNumbers DEF MocksInv, Shape
<1>1. pc[t] = "idle"
  BY DEF MocksInv, SetFirst
<1>2. \A m \in Mocker, a \in Argument : ~Invoke(t, m, a)
  BY ExpectationsAreNumbers DEF Invoke
<1>3. ~EndTest(t)
  BY ExpectationsAreNumbers DEF EndTest
<1>4. ~PerformAction(t) /\ ~ReportCall(t)
  BY <1>1 DEF PerformAction, ReportCall
<1>5. ~Lock(t) /\ ~VerifyMocker(t) /\ ~DeleteExpectations(t) /\ ~VerificationDone(t)
  BY <1>1 DEF Lock, VerifyMocker, DeleteExpectations, VerificationDone
<1>6. ~UninterestingCall(t) /\ ~UnexpectedCall(t) /\ ~MatchingCall(t)
  BY <1>1 DEF UninterestingCall, UnexpectedCall, MatchingCall
<1> QED
  BY <1>2, <1>3, <1>4, <1>5, <1>6 DEF QuietSteps

LEMMA MocksStep ==
  ASSUME MocksInv, [Next]_vars
  PROVE  MocksInv'
<1>1. Shape /\ RetiredClosed /\ CountsAgree /\ OrderKept /\ ActionsInOrder
  BY DEF MocksInv
<1>2. ASSUME declared = Len(Declared), UNCHANGED declared PROVE SetFirst'
  BY <1>2, ExpectationsAreNumbers DEF SetFirst
<1> DEFINE PC == {"idle", "find", "uninteresting", "perform", "report"} \cup Verifying
<1>3. /\ pc \in [Thread -> PC] /\ call \in [Thread -> Call \cup {None}]
      /\ \A u \in Thread : pc[u] \in {"find", "perform", "report"} => call[u] \in Call
      /\ call_count \in [Expectation -> Nat] /\ retired \in [Expectation -> BOOLEAN]
      /\ log \in Seq(Entry)
  BY <1>1 DEF Shape
<1>4. ASSUME NEW t \in Thread, NEW x \in Entry, log' = Append(log, x),
             NEW p \in {"idle", "perform"}, Goto(t, p),
             call' \in [Thread -> Call \cup {None}],
             \A u \in Thread : u # t => call'[u] = call[u],
             p = "perform" => call'[t] \in Call,
             call_count' \in [Expectation -> Nat],
             retired' \in [Expectation -> BOOLEAN],
             UNCHANGED <<specs, untyped_expectations>>
      PROVE  Shape'
  <2>1. pc' \in [Thread -> PC]
    BY <1>3, <1>4 DEF Goto
  <2>2. pc'[t] = p /\ \A u \in Thread : u # t => pc'[u] = pc[u]
    BY <1>3, <1>4 DEF Goto
  <2>3. \A u \in Thread : pc'[u] \in {"find", "perform", "report"} => call'[u] \in Call
    BY <1>3, <1>4, <2>2
  <2>4. UNCHANGED <<declared, last, immediate, untyped_expectations>>
    BY <1>4 DEF specs
  <2>5. log' \in Seq(Entry)
    BY <1>3, <1>4
  <2> HIDE DEF PC
  <2> QED
    BY <1>1, <1>4, <2>1, <2>3, <2>4, <2>5 DEF Shape, PC
<1>5. CASE ExpectCall
  BY <1>5, ExpectCallKeeps
<1>6. ASSUME NEW t \in Thread, QuietSteps(t) PROVE MocksInv'
  <2>1. Shape' /\ UNCHANGED <<declared, immediate, counts, log>>
    BY <1>1, <1>6, QuietStepsKeepShape
  <2>2. RetiredClosed' /\ CountsAgree' /\ OrderKept' /\ ActionsInOrder'
    BY <1>1, <2>1, QuietStep
  <2>3. SetFirst'
    BY <1>2, <1>6, <2>1, BusyAfterSet
  <2> QED
    BY <2>1, <2>2, <2>3 DEF MocksInv
<1>7. ASSUME NEW t \in Thread, UninterestingCall(t) PROVE MocksInv'
  <2>0. PICK b \in BOOLEAN :
          log' = Append(log, [exp |-> None, action |-> DefaultAction,
                              kind |-> "uninteresting", throws |-> b])
    BY <1>7 DEF UninterestingCall
  <2> DEFINE x == [exp |-> None, action |-> DefaultAction, kind |-> "uninteresting",
                   throws |-> b]
  <2>1. x \in Entry /\ x.kind # "expected"
    BY DEF Entry, DefaultAction
  <2>2. log' = Append(log, x) /\ UNCHANGED <<specs, untyped_expectations, counts>>
    BY <1>7, <2>0 DEF UninterestingCall
  <2> HIDE DEF x
  <2>3. UNCHANGED <<declared, immediate, call_count, retired>>
    BY <2>2 DEF specs, counts
  <2>4. Goto(t, "idle") /\ call' = [call EXCEPT ![t] = None]
    BY <1>7 DEF UninterestingCall
  <2>5. /\ call' \in [Thread -> Call \cup {None}]
        /\ \A u \in Thread : u # t => call'[u] = call[u]
    BY <1>3, <2>4
  <2>6. call_count' \in [Expectation -> Nat] /\ retired' \in [Expectation -> BOOLEAN]
    BY <1>3, <2>3
  <2>7. Shape'
    BY <1>4, <2>1, <2>2, <2>4, <2>5, <2>6
  <2>8. RetiredClosed' /\ CountsAgree' /\ OrderKept' /\ ActionsInOrder'
    BY <1>1, <1>3, <2>1, <2>2, <2>3, UnmatchedStep
  <2>9. SetFirst'
    BY <1>2, <1>7, <2>3, BusyAfterSet
  <2> QED
    BY <2>7, <2>8, <2>9 DEF MocksInv
<1>8. ASSUME NEW t \in Thread, NEW x \in Entry, x.kind # "uninteresting",
             pc[t] = "find",
             call' = [call EXCEPT ![t] =
               [@ EXCEPT !.exp = x.exp, !.action = x.action, !.kind = x.kind,
                         !.throws = x.throws]]
      PROVE  /\ call' \in [Thread -> Call \cup {None}] /\ call'[t] \in Call
             /\ \A u \in Thread : u # t => call'[u] = call[u]
  <2>1. call[t] \in Call
    BY <1>3, <1>8
  <2>2. [call[t] EXCEPT !.exp = x.exp, !.action = x.action, !.kind = x.kind,
                        !.throws = x.throws] \in Call
    BY <1>8, <2>1 DEF Call, Entry
  <2> QED
    BY <1>3, <1>8, <2>2
<1>9. ASSUME NEW t \in Thread, UnexpectedCall(t) PROVE MocksInv'
  <2>0. PICK b \in BOOLEAN : Logged(t, None, DefaultAction, "unexpected", b)
    BY <1>9 DEF UnexpectedCall
  <2> DEFINE x == [exp |-> None, action |-> DefaultAction, kind |-> "unexpected",
                   throws |-> b]
  <2>1. x \in Entry /\ x.kind # "expected" /\ x.kind # "uninteresting"
    BY DEF Entry, DefaultAction
  <2>2. log' = Append(log, x) /\ UNCHANGED <<specs, untyped_expectations, counts>>
    BY <1>9, <2>0 DEF UnexpectedCall, Logged
  <2>3. call' = [call EXCEPT ![t] =
          [@ EXCEPT !.exp = x.exp, !.action = x.action, !.kind = x.kind,
                    !.throws = x.throws]]
    BY <2>0 DEF Logged
  <2> HIDE DEF x
  <2>4. UNCHANGED <<declared, immediate, call_count, retired>>
    BY <2>2 DEF specs, counts
  <2>5. Goto(t, "perform") /\ pc[t] = "find"
    BY <1>9 DEF UnexpectedCall
  <2>6. /\ call' \in [Thread -> Call \cup {None}] /\ call'[t] \in Call
        /\ \A u \in Thread : u # t => call'[u] = call[u]
    BY <1>8, <2>1, <2>3, <2>5
  <2>7. call_count' \in [Expectation -> Nat] /\ retired' \in [Expectation -> BOOLEAN]
    BY <1>3, <2>4
  <2>8. Shape'
    BY <1>4, <2>1, <2>2, <2>5, <2>6, <2>7
  <2>9. RetiredClosed' /\ CountsAgree' /\ OrderKept' /\ ActionsInOrder'
    BY <1>1, <1>3, <2>1, <2>2, <2>4, UnmatchedStep
  <2>10. SetFirst'
    BY <1>2, <1>9, <2>4, BusyAfterSet
  <2> QED
    BY <2>8, <2>9, <2>10 DEF MocksInv
<1>10. ASSUME NEW t \in Thread, MatchingCall(t) PROVE MocksInv'
  <2>1. PICK x \in Entry :
              /\ log' = Append(log, x)
              /\ x.exp \in Expectation /\ x.kind \in {"expected", "excessive"}
              /\ call' = [call EXCEPT ![t] =
                   [@ EXCEPT !.exp = x.exp, !.action = x.action, !.kind = x.kind,
                             !.throws = x.throws]]
    BY <1>10, MatchingStep
  <2>2. /\ RetiredClosed' /\ CountsAgree' /\ OrderKept' /\ ActionsInOrder'
        /\ call_count' \in [Expectation -> Nat] /\ retired' \in [Expectation -> BOOLEAN]
    BY <1>10, MatchingStep
  <2>3. Goto(t, "perform") /\ pc[t] = "find" /\ UNCHANGED <<specs, untyped_expectations>>
    BY <1>10 DEF MatchingCall
  <2>4. x.kind # "uninteresting"
    BY <2>1
  <2>5. /\ call' \in [Thread -> Call \cup {None}] /\ call'[t] \in Call
        /\ \A u \in Thread : u # t => call'[u] = call[u]
    BY <1>8, <2>1, <2>3, <2>4
  <2>6. Shape'
    BY <1>4, <2>1, <2>2, <2>3, <2>5
  <2>7. UNCHANGED declared
    BY <2>3 DEF specs
  <2>8. SetFirst'
    BY <1>2, <1>10, <2>7, BusyAfterSet
  <2> QED
    BY <2>2, <2>6, <2>8 DEF MocksInv
<1>11. CASE UNCHANGED vars
  <2>1. UNCHANGED <<declared, last, immediate, untyped_expectations, call_count,
                    retired, pc, call, log>>
    BY <1>11 DEF vars, specs, counts
  <2>2. RetiredClosed' /\ CountsAgree' /\ OrderKept' /\ ActionsInOrder'
    BY <1>1, <2>1, QuietStep DEF counts
  <2>3. Shape'
    BY <1>1, <2>1 DEF Shape
  <2>4. SetFirst'
    BY <2>1 DEF MocksInv, SetFirst
  <2> QED
    BY <2>2, <2>3, <2>4 DEF MocksInv
<1> QED
  BY <1>5, <1>6, <1>7, <1>9, <1>10, <1>11 DEF Next, Proceed, QuietSteps

THEOREM MocksInvariant == Spec => []MocksInv
<1>1. MocksInv /\ [Next]_vars => MocksInv'
  BY MocksStep
<1> QED
  BY InitMocks, <1>1, PTL DEF Spec

(* When a call is taken by an expectation, its prerequisites have had      *)
(* enough calls and take none afterwards, and the retired expectations are *)
(* closed under prerequisites, whatever the threads and statements are:    *)
(* FindMatchingExpectation and RetireAllPreRequisites of                   *)
(* gmock-spec-builders.cc.                                                 *)
THEOREM SequencesHold == Spec => []SequencesRespected
<1>1. MocksInv => SequencesRespected
  <2> SUFFICES ASSUME MocksInv PROVE SequencesRespected
    OBVIOUS
  <2>1. \A e, n : CallsTakenBy(e, n) = Cardinality(Takes(log, e, n))
    BY DEF CallsTakenBy, Takes
  <2>2. log \in Seq(Entry) /\ DOMAIN log = 1 .. Len(log)
    BY DEF MocksInv, Shape
  <2>3. \A i \in DOMAIN log : log[i].kind = "expected" =>
          \A d \in Prerequisites[log[i].exp] :
            /\ Cardinality(Takes(log, d, i)) >= Bounds(d)[1]
            /\ Takes(log, d, Len(log)) = Takes(log, d, i)
    BY <2>2 DEF MocksInv, OrderKept, Taken
  <2> QED
    BY <2>1, <2>3 DEF SequencesRespected, MocksInv, RetiredClosed
<1> QED
  BY <1>1, MocksInvariant, PTL

(* A WillOnce action is handed to one call only, and no expected call goes *)
(* without one while some are left: GetCurrentAction of                    *)
(* gmock-spec-builders.h, for any number of clauses and of calls.          *)
THEOREM ActionsAreHandedOutOnce == Spec => []EachActionOnce
<1>1. MocksInv => EachActionOnce
  <2> SUFFICES ASSUME MocksInv, NEW e \in Expectation
               PROVE  LET taken == {i \in DOMAIN log :
                                      log[i].exp = e /\ log[i].kind = "expected"}
                          once == {i \in taken : log[i].action \in 1 .. Declared[e].once}
                      IN  /\ Cardinality({log[i].action : i \in once}) = Cardinality(once)
                          /\ once # taken => Cardinality(once) = Declared[e].once
    BY DEF EachActionOnce
  <2>1. log \in Seq(Entry) /\ DOMAIN log = 1 .. Len(log) /\ Len(log) \in Nat
    BY DEF MocksInv, Shape
  <2>2. {i \in DOMAIN log : log[i].exp = e /\ log[i].kind = "expected"} = Taken(log, e)
    BY <2>1 DEF Taken, Takes
  <2>3. Once(log, e) = {i \in Taken(log, e) : log[i].action \in 1 .. Declared[e].once}
    BY DEF Once
  <2>4. OnceActions(log, e) = {log[i].action : i \in Once(log, e)}
    BY DEF OnceActions
  <2>5. HandedOut(log, e)
    BY DEF MocksInv, ActionsInOrder
  <2>6. Declared[e].once \in Nat /\ Cardinality(Taken(log, e)) \in Nat
    BY <2>1, DeclaredType, TakesFinite DEF Taken
  <2>7. \A k \in Nat : Cardinality(1 .. k) = k
    BY FS_Interval
  <2>8. Cardinality(OnceActions(log, e)) = Cardinality(Once(log, e))
    BY <2>5, <2>6, <2>7 DEF HandedOut
  <2>9. Once(log, e) # Taken(log, e) => Cardinality(Once(log, e)) = Declared[e].once
    BY <2>5 DEF HandedOut
  <2> QED
    BY <2>2, <2>3, <2>4, <2>8, <2>9
<1> QED
  BY <1>1, MocksInvariant, PTL

-----------------------------------------------------------------------------
(***************************************************************************)
(* The verdict of a verification.                                          *)
(***************************************************************************)
(* What a thread's call has come to. *)
Talks(p, c) ==
  /\ p = "idle" => c = None
  /\ p \in {"find", "uninteresting"} => c \in Call /\ c.kind = "found"
  /\ p \in {"perform", "report"} => c \in Call /\ c.kind # "found"
  /\ p \in Verifying => c = None \/ (c \in Call /\ c.kind # "found")
CallsTalk == \A t \in Thread : Talks(pc[t], call[t])

(* A thread verifies while the others rest, one mocker after the other.    *)
VerifiesAlone ==
  /\ todo \in Seq(Mocker)
  /\ \A t \in Thread : pc[t] \in Verifying => \A u \in Thread \ {t} : pc[u] = "idle"
  /\ (\A t \in Thread : pc[t] \notin Verifying) => todo = << >>
  /\ \A t \in Thread : pc[t] = "delete" =>
       todo # << >> /\ untyped_expectations[Head(todo)] = << >>

(* Before the expectations are set nothing has been verified. *)
NothingYet ==
  declared < Len(Declared) =>
    /\ ~reported /\ ~over /\ freed = {}
    /\ \A e \in 1 .. declared : e \in Range(untyped_expectations[Declared[e].mocker])

(* Mockers hold their own expectations; prerequisites and sequences are    *)
(* those of the statements.                                                *)
Placed ==
  /\ \A m \in Mocker : \A e \in Range(untyped_expectations[m]) :
       e <= declared /\ Declared[e].mocker = m
  /\ \A e \in Expectation : \A d \in immediate[e] : MayKeep(e, d)
  /\ \A s \in Sequence : last[s] # 0 => s \in Declared[last[s]].sequences

CalledUpTo(l, e, n) == {i \in 1 .. n : l[i].exp = e}
Called(l, e) == CalledUpTo(l, e, Len(l))
CountsCalls == \A e \in Expectation : call_count[e] = Cardinality(Called(log, e))

(* The calls logged as excessive are those beyond the upper bound.         *)
Exceeds(l, i) ==
  \E e \in Expectation :
    l[i].exp = e /\ Cardinality(CalledUpTo(l, e, i)) > Bounds(e)[2]
ExcessMarked == \A i \in 1 .. Len(log) : log[i].kind = "excessive" <=> Exceeds(log, i)
TotalsAgree == CountsCalls /\ ExcessMarked

(* A failure is reported, or a call on its way to report one, if and only  *)
(* if a call in error does not throw or a cleared expectation had too few. *)
IsBad(c) == c # None /\ c.kind \in {"unexpected", "excessive"} /\ ~c.throws
Pending == \E t \in Thread : IsBad(call[t])
Cleared(e) ==
  declared = Len(Declared) /\ e \notin Range(untyped_expectations[Declared[e].mocker])
ErrorKind(entry) ==
  \/ entry.kind \in {"unexpected", "excessive"}
  \/ entry.kind = "uninteresting" /\ Reaction = "kFail"
BadCall(entry) == ErrorKind(entry) /\ ~entry.throws
Fails(e) == Cleared(e) /\ call_count[e] < Bounds(e)[1]
Exact ==
  reported \/ Pending <=>
    \/ \E i \in 1 .. Len(log) : BadCall(log[i])
    \/ \E e \in Expectation : Fails(e)

(* A mocker that still has expectations will be verified, or an expectation*)
(* that has not been deleted owns its object.                              *)
Awaits(m) ==
  \/ untyped_expectations[m] = << >> \/ m \in Range(todo)
  \/ \E e \in Expectation \ freed : \E o \in Declared[e].owns : m \in Range(Objects[o])
  \/ ~over /\ \E o \in DOMAIN Objects \ Owned : m \in Range(Objects[o])
Swept == Expectation \ Held \subseteq freed
EverythingAwaits ==
  /\ \A m \in Mocker : Awaits(m)
  /\ over => declared = Len(Declared) /\ \A s \in Sequence : last[s] = 0
  /\ over => \A t \in Thread : pc[t] \in Verifying \cup {"idle"} /\ call[t] = None
  /\ over => \A t \in Thread : pc[t] \in {"lock", "verify"} =>
       Swept \/ todo # << >> \/ Expectation = {}
  /\ over /\ (\A t \in Thread : pc[t] = "idle") =>
       \A m \in Mocker : untyped_expectations[m] = << >>

VerdictInv ==
  /\ CallsTalk /\ VerifiesAlone /\ NothingYet /\ Placed
  /\ TotalsAgree /\ Exact /\ EverythingAwaits

(***************************************************************************)
(* What the mockers of some objects are, one after the other.              *)
(***************************************************************************)
LEMMA RangeOfConcat ==
  ASSUME NEW T, NEW s \in Seq(T), NEW u \in Seq(T)
  PROVE  s \o u \in Seq(T) /\ Range(s \o u) = Range(s) \cup Range(u)
<1>1. Len(s) \in Nat /\ Len(u) \in Nat
  OBVIOUS
<1>2. /\ s \o u \in Seq(T) /\ Len(s \o u) = Len(s) + Len(u)
      /\ \A i \in 1 .. Len(s) + Len(u) :
           (s \o u)[i] = IF i <= Len(s) THEN s[i] ELSE u[i - Len(s)]
  BY ONLY ConcatProperties, s \in Seq(T), u \in Seq(T)
<1> DEFINE w == s \o u
           k == Len(s)
           l == Len(u)
<1>3. /\ DOMAIN w = 1 .. k + l /\ DOMAIN s = 1 .. k /\ DOMAIN u = 1 .. l
      /\ k \in Nat /\ l \in Nat
  BY <1>1, <1>2
<1>4. \A i \in 1 .. k + l : w[i] = IF i <= k THEN s[i] ELSE u[i - k]
  BY <1>2
<1> HIDE DEF w, k, l
<1>5. ASSUME NEW x \in Range(w) PROVE x \in Range(s) \cup Range(u)
  <2>1. PICK i \in 1 .. k + l : x = w[i]
    BY <1>3, <1>5 DEF Range
  <2>2. CASE i <= k
    <3>1. i \in 1 .. k /\ x = s[i]
      BY <1>3, <1>4, <2>1, <2>2
    <3> QED
      BY <1>3, <3>1 DEF Range
  <2>3. CASE ~ (i <= k)
    <3>1. i - k \in 1 .. l /\ x = u[i - k]
      BY <1>3, <1>4, <2>1, <2>3
    <3> QED
      BY <1>3, <3>1 DEF Range
  <2> QED
    BY <2>2, <2>3
<1>6. ASSUME NEW x \in Range(s) PROVE x \in Range(w)
  <2>1. PICK i \in 1 .. k : x = s[i]
    BY <1>3, <1>6 DEF Range
  <2>2. i \in 1 .. k + l /\ i <= k
    BY <1>3
  <2>3. w[i] = x
    BY <1>4, <2>1, <2>2
  <2> QED
    BY <1>3, <2>2, <2>3 DEF Range
<1>7. ASSUME NEW x \in Range(u) PROVE x \in Range(w)
  <2>1. PICK i \in 1 .. l : x = u[i]
    BY <1>3, <1>7 DEF Range
  <2>a. k + i \in 1 .. k + l
    BY <1>3
  <2>b. PICK j \in 1 .. k + l : j = k + i
    BY <2>a
  <2>2. ~ (j <= k) /\ j - k = i
    BY <1>3, <2>b
  <2>3. w[j] = u[j - k]
    BY <1>4, <2>2
  <2> QED
    BY <1>3, <2>1, <2>2, <2>3 DEF Range
<1> QED
  BY <1>2, <1>5, <1>6, <1>7 DEF w

Flattens(f, ss, n) ==
  f = [i \in 1 .. n |-> IF i = 1 THEN ss[i] ELSE f[i - 1] \o ss[i]]

LEMMA FlattensStep ==
  ASSUME NEW n \in Nat, NEW ss, NEW f, Flattens(f, ss, n)
  PROVE  \A i \in 1 .. n : f[i] = IF i = 1 THEN ss[i] ELSE f[i - 1] \o ss[i]
<1> DEFINE h == [i \in 1 .. n |-> IF i = 1 THEN ss[i] ELSE f[i - 1] \o ss[i]]
<1>1. f = h
  BY DEF Flattens
<1>2. \A i \in 1 .. n : h[i] = IF i = 1 THEN ss[i] ELSE f[i - 1] \o ss[i]
  OBVIOUS
<1> HIDE DEF h
<1> QED
  BY <1>1, <1>2

LEMMA FlattensExists ==
  ASSUME NEW n \in Nat, NEW ss
  PROVE  \E f : Flattens(f, ss, n)
<1> DEFINE T == {i \in 0 .. n : \E f : Flattens(f, ss, i)}
<1>1. 0 \in T
  <2>1. Flattens([i \in 1 .. 0 |-> ss], ss, 0)
    BY DEF Flattens
  <2> QED
    BY <2>1
<1>2. ASSUME NEW n1 \in 0 .. n, n1 # n, n1 \in T PROVE n1 + 1 \in T
  <2>1. PICK f : Flattens(f, ss, n1)
    BY <1>2
  <2> DEFINE h == [i \in 1 .. n1 + 1 |-> IF i = 1 THEN ss[i] ELSE f[i - 1] \o ss[i]]
  <2>2. \A i \in 1 .. n1 : h[i] = f[i]
    <3>1. \A i \in 1 .. n1 : f[i] = IF i = 1 THEN ss[i] ELSE f[i - 1] \o ss[i]
      BY <2>1, FlattensStep
    <3>2. \A i \in 1 .. n1 : h[i] = IF i = 1 THEN ss[i] ELSE f[i - 1] \o ss[i]
      OBVIOUS
    <3> QED
      BY <3>1, <3>2
  <2>3. \A i \in 1 .. n1 + 1 : i # 1 => i - 1 \in 1 .. n1
    OBVIOUS
  <2>4. h = [i \in 1 .. n1 + 1 |-> IF i = 1 THEN ss[i] ELSE h[i - 1] \o ss[i]]
    <3>1. \A i \in 1 .. n1 + 1 : i # 1 => h[i - 1] = f[i - 1]
      BY <2>2, <2>3
    <3> QED
      BY <3>1
  <2> HIDE DEF h
  <2>5. Flattens(h, ss, n1 + 1)
    BY <2>4 DEF Flattens
  <2> QED
    BY <1>2, <2>5
<1> HIDE DEF T
<1>3. \A i \in 0 .. n : i # n /\ i \in T => i + 1 \in T
  BY <1>2
<1>4. n \in T
  BY <1>1, <1>3, UpwardInduction
<1> QED
  BY <1>4 DEF T

LEMMA FlattenSeqRange ==
  ASSUME NEW T, NEW ss \in Seq(Seq(T))
  PROVE  /\ FlattenSeq(ss) \in Seq(T)
         /\ Range(FlattenSeq(ss)) = UNION {Range(ss[i]) : i \in DOMAIN ss}
<1> DEFINE n == Len(ss)
<1>1. n \in Nat /\ DOMAIN ss = 1 .. n /\ \A i \in 1 .. n : ss[i] \in Seq(T)
  OBVIOUS
<1>2. CASE n = 0
  <2>1. ss = << >> /\ FlattenSeq(ss) = << >>
    BY <1>2 DEF FlattenSeq
  <2>2. DOMAIN ss = {} /\ Range(ss) = {}
    BY <1>1, <1>2 DEF Range
  <2>3. UNION {Range(ss[i]) : i \in DOMAIN ss} = {}
    BY <2>2
  <2>4. << >> \in Seq(T)
    OBVIOUS
  <2> QED
    BY <2>1, <2>2, <2>3, <2>4
<1>3. CASE n # 0
  <2> DEFINE g == CHOOSE f : Flattens(f, ss, n)
  <2>1. FlattenSeq(ss) = g[n]
    BY <1>3 DEF FlattenSeq, Flattens
  <2>2. Flattens(g, ss, n)
    BY <1>1, FlattensExists
  <2> HIDE DEF g, n
  <2>3. \A i \in 1 .. n : g[i] = IF i = 1 THEN ss[i] ELSE g[i - 1] \o ss[i]
    BY <1>1, <2>2, FlattensStep
  <2> DEFINE Good(k) == g[k] \in Seq(T) /\ Range(g[k]) = UNION {Range(ss[i]) : i \in 1 .. k}
             S == {k \in 0 .. n : k # 0 => Good(k)}
  <2>4. 0 \in S
    BY <1>1
  <2>5. ASSUME NEW k \in 0 .. n, k # n, k \in S PROVE k + 1 \in S
    <3>1. k + 1 \in 1 .. n /\ ss[k + 1] \in Seq(T) /\ k + 1 - 1 = k
      BY <1>1, <2>5
    <3>2. CASE k = 0
      <4>1. g[1] = ss[1] /\ 1 .. 1 = {1}
        BY <2>3, <3>1, <3>2
      <4>2. Good(1)
        BY <3>1, <3>2, <4>1
      <4> QED
        BY <3>1, <3>2, <4>2
    <3>3. CASE k # 0
      <4>a. k + 1 # 1
        BY <3>3
      <4>1. g[k + 1] = g[k] \o ss[k + 1]
        <5>1. PICK j \in 1 .. n : j = k + 1
          BY <3>1
        <5>2. j # 1 /\ j - 1 = k
          BY <3>1, <4>a, <5>1
        <5>3. g[j] = g[j - 1] \o ss[j]
          BY <2>3, <5>2
        <5> QED
          BY <5>1, <5>2, <5>3
      <4>2. g[k] \in Seq(T) /\ Range(g[k]) = UNION {Range(ss[i]) : i \in 1 .. k}
        BY <2>5, <3>3
      <4>3. g[k + 1] \in Seq(T) /\ Range(g[k + 1]) = Range(g[k]) \cup Range(ss[k + 1])
        BY <3>1, <4>1, <4>2, RangeOfConcat
      <4>4. 1 .. k + 1 = (1 .. k) \cup {k + 1}
        BY <1>1
      <4>5. Range(g[k + 1]) = UNION {Range(ss[i]) : i \in 1 .. k + 1}
        BY <4>2, <4>3, <4>4
      <4> QED
        BY <3>1, <4>3, <4>5
    <3> QED
      BY <3>2, <3>3
  <2> HIDE DEF S
  <2>6. \A k \in 0 .. n : k # n /\ k \in S => k + 1 \in S
    BY <2>5
  <2>7. n \in S
    <3>1. n \in Nat /\ n \in 0 .. n
      BY <1>1
    <3>2. \A k \in 0 .. n : k \in S
      BY ONLY <3>1, <2>4, <2>6, UpwardInduction
    <3> QED
      BY <3>1, <3>2
  <2>8. Good(n)
    BY <1>3, <2>7 DEF S
  <2> QED
    BY <1>1, <2>1, <2>8
<1> QED
  BY <1>2, <1>3

LEMMA SetToSeqRange ==
  ASSUME NEW S, IsFiniteSet(S)
  PROVE  SetToSeq(S) \in Seq(S) /\ Range(SetToSeq(S)) = S
<1> DEFINE n == Cardinality(S)
           s == SetToSeq(S)
<1>1. n \in Nat /\ ExistsBijection(1 .. n, S)
  BY FS_CardinalityType
<1>2. \E f \in [1 .. n -> S] : IsInjective(f)
  <2>1. PICK f : f \in Bijection(1 .. n, S)
    BY <1>1 DEF ExistsBijection
  <2>2. f \in [1 .. n -> S] /\ \A a, b \in 1 .. n : f[a] = f[b] => a = b
    BY <2>1 DEF Bijection, Injection, IsInjective
  <2> QED
    BY <2>2 DEF IsInjective
<1>3. s \in [1 .. n -> S] /\ IsInjective(s)
  BY <1>2 DEF SetToSeq
<1> HIDE DEF n, s
<1>4. s \in Injection(1 .. n, S)
  BY <1>3 DEF Injection
<1>5. IsFiniteSet(1 .. n) /\ Cardinality(1 .. n) = n
  BY <1>1, FS_Interval
<1>6. s \in Surjection(1 .. n, S)
  BY <1>4, <1>5, FS_Injection DEF n
<1>7. Range(s) = S
  BY <1>3, <1>6 DEF Surjection, Range
<1>8. s \in Seq(S)
  BY <1>1, <1>3
<1> QED
  BY <1>7, <1>8 DEF s

LEMMA MockersOfRange ==
  ASSUME NEW S \in SUBSET DOMAIN Objects
  PROVE  /\ MockersOf(S) \in Seq(Mocker)
         /\ Range(MockersOf(S)) = UNION {Range(Objects[o]) : o \in S}
<1> DEFINE I == {Objects[o] : o \in S}
           s == SetToSeq(I)
<1>1. IsFiniteSet(I)
  <2>1. IsFiniteSet(S)
    BY ObjectsType, FS_Subset
  <2>2. [o \in S |-> Objects[o]] \in Surjection(S, I)
    BY DEF Surjection
  <2> HIDE DEF I
  <2> QED
    BY <2>1, <2>2, FS_Surjection
<1>2. \A o \in S : Objects[o] \in Seq(Mocker)
  <2>1. \A o \in DOMAIN Objects : Range(Objects[o]) \subseteq Mocker
    BY DEF Mocker
  <2>2. \A o \in DOMAIN Objects : Objects[o] \in Seq(Range(Objects[o]))
    BY ObjectsType
  <2> QED
    BY <2>1, <2>2
<1>3. I \subseteq Seq(Mocker)
  BY <1>2
<1>4. s \in Seq(I) /\ Range(s) = I
  BY <1>1, SetToSeqRange
<1>5. s \in Seq(Seq(Mocker))
  BY <1>3, <1>4
<1>6. MockersOf(S) = FlattenSeq(s)
  BY DEF MockersOf
<1> HIDE DEF s
<1>7. /\ MockersOf(S) \in Seq(Mocker)
      /\ Range(MockersOf(S)) = UNION {Range(s[i]) : i \in DOMAIN s}
  BY <1>5, <1>6, FlattenSeqRange
<1>8. {s[i] : i \in DOMAIN s} = I
  BY <1>4 DEF Range
<1>9. UNION {Range(s[i]) : i \in DOMAIN s} = UNION {Range(x) : x \in I}
  BY <1>8
<1> QED
  BY <1>7, <1>9

-----------------------------------------------------------------------------
(* The steps of a thread. *)
StepsOf(t) ==
  QuietSteps(t) \/ UninterestingCall(t) \/ UnexpectedCall(t) \/ MatchingCall(t)

LEMMA TalkKept ==
  ASSUME MocksInv, CallsTalk, NEW t \in Thread, StepsOf(t)
  PROVE  /\ CallsTalk'
         /\ \A u \in Thread \ {t} : pc'[u] = pc[u] /\ call'[u] = call[u]
<1> DEFINE PC == {"idle", "find", "uninteresting", "perform", "report"} \cup Verifying
           Told == /\ CallsTalk'
                   /\ \A u \in Thread \ {t} : pc'[u] = pc[u] /\ call'[u] = call[u]
<1> SUFFICES Told
  OBVIOUS
<1>1. pc \in [Thread -> PC] /\ call \in [Thread -> Call \cup {None}]
  BY DEF MocksInv, Shape
<1> HIDE DEF PC
<1>2. ASSUME NEW p, NEW c, Goto(t, p), call' = [call EXCEPT ![t] = c], Talks(p, c)
      PROVE  Told
  <2>1. pc'[t] = p /\ call'[t] = c
    BY <1>1, <1>2 DEF Goto
  <2>2. \A u \in Thread \ {t} : pc'[u] = pc[u] /\ call'[u] = call[u]
    BY <1>1, <1>2 DEF Goto
  <2> QED
    BY <1>2, <2>1, <2>2 DEF CallsTalk
<1>3. ASSUME NEW p, Goto(t, p), UNCHANGED call, Talks(p, call[t])
      PROVE  Told
  <2>1. call' = [call EXCEPT ![t] = call[t]]
    BY <1>1, <1>3
  <2> QED
    BY <1>2, <1>3, <2>1
<1>4. Talks(pc[t], call[t])
  BY DEF CallsTalk
<1> HIDE DEF Told
<1>5. ASSUME NEW m \in Mocker, NEW a \in Argument, Invoke(t, m, a) PROVE Told
  <2> DEFINE c == [mocker |-> m, argument |-> a, exp |-> None, action |-> None,
                   kind |-> "found", throws |-> FALSE]
             p == IF untyped_expectations[m] = << >> THEN "uninteresting" ELSE "find"
  <2>1. c \in Call /\ c.kind = "found"
    BY DEF Call
  <2>2. call' = [call EXCEPT ![t] = c] /\ Goto(t, p)
    BY <1>5 DEF Invoke
  <2>3. p \in {"uninteresting", "find"}
    OBVIOUS
  <2> HIDE DEF c, p
  <2>4. Talks(p, c)
    BY <2>1, <2>3 DEF Talks, Verifying
  <2> QED
    BY <1>2, <2>2, <2>4
<1>6. CASE PerformAction(t)
  <2>1. PICK p \in {"lock", "report"} : Goto(t, p)
    BY <1>6 DEF PerformAction
  <2>2. pc[t] = "perform" /\ UNCHANGED call
    BY <1>6 DEF PerformAction
  <2>3. Talks(p, call[t])
    BY <1>4, <2>2 DEF Talks, Verifying
  <2> QED
    BY <1>3, <2>1, <2>2, <2>3
<1>7. CASE ReportCall(t)
  <2>1. Goto(t, "idle") /\ call' = [call EXCEPT ![t] = None]
    BY <1>7 DEF ReportCall
  <2>2. Talks("idle", None)
    BY DEF Talks, Verifying
  <2> QED
    BY <1>2, <2>1, <2>2
<1>8. CASE EndTest(t)
  <2>1. Goto(t, "lock") /\ UNCHANGED call /\ pc[t] = "idle"
    BY <1>8 DEF EndTest
  <2>2. Talks("lock", call[t])
    BY <1>4, <2>1 DEF Talks, Verifying
  <2> QED
    BY <1>3, <2>1, <2>2
<1>9. CASE Lock(t)
  <2>1. Goto(t, "verify") /\ UNCHANGED call /\ pc[t] = "lock"
    BY <1>9 DEF Lock
  <2>2. Talks("verify", call[t])
    BY <1>4, <2>1 DEF Talks, Verifying
  <2> QED
    BY <1>3, <2>1, <2>2
<1>10. CASE VerifyMocker(t)
  <2>1. Goto(t, "delete") /\ UNCHANGED call /\ pc[t] = "verify"
    BY <1>10 DEF VerifyMocker
  <2>2. Talks("delete", call[t])
    BY <1>4, <2>1 DEF Talks, Verifying
  <2> QED
    BY <1>3, <2>1, <2>2
<1>11. CASE DeleteExpectations(t)
  <2>1. Goto(t, "lock") /\ UNCHANGED call /\ pc[t] = "delete"
    BY <1>11 DEF DeleteExpectations
  <2>2. Talks("lock", call[t])
    BY <1>4, <2>1 DEF Talks, Verifying
  <2> QED
    BY <1>3, <2>1, <2>2
<1>12. CASE VerificationDone(t)
  <2> DEFINE p == IF call[t] = None THEN "idle" ELSE "report"
  <2>1. Goto(t, p) /\ UNCHANGED call /\ pc[t] = "verify"
    BY <1>12 DEF VerificationDone
  <2>2. Talks(p, call[t])
    BY <1>4, <2>1 DEF Talks, Verifying
  <2> HIDE DEF p
  <2> QED
    BY <1>3, <2>1, <2>2
<1>13. CASE UninterestingCall(t)
  <2>1. Goto(t, "idle") /\ call' = [call EXCEPT ![t] = None]
    BY <1>13 DEF UninterestingCall
  <2>2. Talks("idle", None)
    BY DEF Talks, Verifying
  <2> QED
    BY <1>2, <2>1, <2>2
<1>14. ASSUME NEW e \in Expectation \cup {None}, NEW action \in Nat,
              NEW kind \in {"expected", "excessive", "unexpected"}, NEW b \in BOOLEAN,
              pc[t] = "find", Goto(t, "perform"),
              call' = [call EXCEPT ![t] = [@ EXCEPT !.exp = e, !.action = action,
                                                    !.kind = kind, !.throws = b]]
       PROVE  Told
  <2> DEFINE c == [call[t] EXCEPT !.exp = e, !.action = action, !.kind = kind,
                                  !.throws = b]
  <2>1. call[t] \in Call
    BY <1>4, <1>14 DEF Talks
  <2>2. c \in Call /\ c.kind # "found"
    BY <2>1 DEF Call
  <2>3. call' = [call EXCEPT ![t] = c]
    BY <1>14
  <2> HIDE DEF c
  <2>4. Talks("perform", c)
    BY <2>2 DEF Talks, Verifying
  <2> QED
    BY <1>2, <1>14, <2>3, <2>4
<1>15. CASE UnexpectedCall(t)
  <2>0. PICK b \in BOOLEAN : Logged(t, None, DefaultAction, "unexpected", b)
    BY <1>15 DEF UnexpectedCall
  <2>1. /\ pc[t] = "find" /\ Goto(t, "perform")
        /\ call' = [call EXCEPT ![t] = [@ EXCEPT !.exp = None, !.action = DefaultAction,
                                                 !.kind = "unexpected", !.throws = b]]
    BY <1>15, <2>0 DEF UnexpectedCall, Logged
  <2>2. DefaultAction \in Nat
    BY DEF DefaultAction
  <2> QED
    BY <1>14, <2>1, <2>2
<1>16. CASE MatchingCall(t)
  <2>1. pc[t] = "find" /\ Goto(t, "perform")
    BY <1>16 DEF MatchingCall
  <2>2. PICK x \in Entry :
              /\ x.exp \in Expectation /\ x.kind \in {"expected", "excessive"}
              /\ call' = [call EXCEPT ![t] =
                   [@ EXCEPT !.exp = x.exp, !.action = x.action, !.kind = x.kind,
                             !.throws = x.throws]]
    BY <1>16, MatchingStep
  <2>3. x.action \in Nat /\ x.throws \in BOOLEAN
    BY DEF Entry
  <2> QED
    BY <1>14, <2>1, <2>2, <2>3
<1> QED
  BY <1>5, <1>6, <1>7, <1>8, <1>9, <1>10, <1>11, <1>12, <1>13, <1>15, <1>16
  DEF StepsOf, QuietSteps

(* Nobody else verifies while a thread takes a step. *)
LEMMA OthersDoNotVerify ==
  ASSUME CallsTalk, VerifiesAlone, NEW t \in Thread, StepsOf(t)
  PROVE  \A u \in Thread \ {t} : pc[u] \notin Verifying
<1> SUFFICES ASSUME NEW u \in Thread \ {t}, pc[u] \in Verifying PROVE FALSE
  OBVIOUS
<1>1. pc[t] = "idle"
  BY DEF VerifiesAlone
<1>2. pc[u] # "idle"
  BY DEF Verifying
<1>3. \A m \in Mocker, a \in Argument : ~Invoke(t, m, a)
  BY DEF Invoke
<1>4. ~EndTest(t)
  BY <1>2 DEF EndTest
<1>5. ~PerformAction(t) /\ ~ReportCall(t)
  BY <1>1 DEF PerformAction, ReportCall
<1>6. ~Lock(t) /\ ~VerifyMocker(t) /\ ~DeleteExpectations(t) /\ ~VerificationDone(t)
  BY <1>1 DEF Lock, VerifyMocker, DeleteExpectations, VerificationDone
<1>7. ~UninterestingCall(t) /\ ~UnexpectedCall(t) /\ ~MatchingCall(t)
  BY <1>1 DEF UninterestingCall, UnexpectedCall, MatchingCall
<1> QED
  BY <1>3, <1>4, <1>5, <1>6, <1>7 DEF StepsOf, QuietSteps

LEMMA AloneKept ==
  ASSUME MocksInv, CallsTalk, VerifiesAlone, NEW t \in Thread, StepsOf(t)
  PROVE  VerifiesAlone'
<1> DEFINE PC == {"idle", "find", "uninteresting", "perform", "report"} \cup Verifying
<1>1. /\ pc \in [Thread -> PC]
      /\ untyped_expectations \in [Mocker -> Seq(Expectation)]
  BY DEF MocksInv, Shape
<1>2. \A u \in Thread \ {t} : pc'[u] = pc[u] /\ pc[u] \notin Verifying
  BY TalkKept, OthersDoNotVerify
<1>3. todo \in Seq(Mocker) /\ (pc[t] \notin Verifying => todo = << >>)
  BY <1>2 DEF VerifiesAlone
<1>4. pc[t] \in Verifying => \A u \in Thread \ {t} : pc[u] = "idle"
  BY DEF VerifiesAlone
<1>5. pc[t] = "delete" => todo # << >> /\ untyped_expectations[Head(todo)] = << >>
  BY DEF VerifiesAlone
<1>6. \A p : Goto(t, p) => pc'[t] = p
  BY <1>1 DEF Goto
<1> HIDE DEF PC
<1>7. SUFFICES /\ todo' \in Seq(Mocker)
               /\ pc'[t] \in Verifying => \A u \in Thread \ {t} : pc[u] = "idle"
               /\ pc'[t] \notin Verifying => todo' = << >>
               /\ pc'[t] = "delete" =>
                    todo' # << >> /\ untyped_expectations'[Head(todo')] = << >>
  <2>1. "delete" \in Verifying
    BY DEF Verifying
  <2>2. \A u \in Thread : pc'[u] = "delete" => u = t
    BY <1>2, <2>1
  <2>3. \A u \in Thread : pc'[u] \in Verifying => u = t
    BY <1>2
  <2> QED
    BY <1>2, <2>2, <2>3 DEF VerifiesAlone
<1>8. MockersOf(DOMAIN Objects \ Owned) \in Seq(Mocker)
  BY MockersOfRange
<1>9. ASSUME UNCHANGED todo, pc[t] \notin Verifying,
             NEW p \in {"idle", "find", "uninteresting", "perform", "report"}, Goto(t, p)
      PROVE  /\ todo' \in Seq(Mocker) /\ todo' = << >>
             /\ pc'[t] \notin Verifying /\ pc'[t] # "delete"
  <2>1. pc'[t] = p
    BY <1>6, <1>9
  <2>2. p \notin Verifying /\ p # "delete"
    BY DEF Verifying
  <2> QED
    BY <1>3, <1>9, <2>1, <2>2
<1>10. ASSUME NEW m \in Mocker, NEW a \in Argument, Invoke(t, m, a)
       PROVE  /\ todo' \in Seq(Mocker) /\ todo' = << >>
              /\ pc'[t] \notin Verifying /\ pc'[t] # "delete"
  <2>1. Goto(t, IF untyped_expectations[m] = << >> THEN "uninteresting" ELSE "find")
    BY <1>10 DEF Invoke
  <2>2. pc[t] = "idle" /\ UNCHANGED todo
    BY <1>10 DEF Invoke, verification
  <2>3. pc[t] \notin Verifying
    BY <2>2 DEF Verifying
  <2> QED
    BY <1>9, <2>1, <2>2, <2>3
<1>11. CASE PerformAction(t)
  <2>1. pc[t] = "perform" /\ "perform" \notin Verifying
    BY <1>11 DEF PerformAction, Verifying
  <2>2. CASE Clears(call[t])
    <3>1. /\ \A u \in Thread \ {t} : pc[u] = "idle"
          /\ todo' = MockersOf(DOMAIN Objects \ Owned)
          /\ Goto(t, "lock")
      BY <1>11, <2>2 DEF PerformAction
    <3>2. pc'[t] = "lock" /\ "lock" \in Verifying
      BY <1>6, <3>1 DEF Verifying
    <3> QED
      BY <1>8, <3>1, <3>2
  <2>3. CASE ~Clears(call[t])
    <3>1. UNCHANGED todo /\ Goto(t, "report")
      BY <1>11, <2>3 DEF PerformAction
    <3> QED
      BY <1>9, <2>1, <3>1
  <2> QED
    BY <2>2, <2>3
<1>12. CASE ReportCall(t)
  <2>1. pc[t] = "report" /\ Goto(t, "idle") /\ UNCHANGED todo
    BY <1>12 DEF ReportCall, verification
  <2>2. pc[t] \notin Verifying
    BY <2>1 DEF Verifying
  <2> QED
    BY <1>9, <2>1, <2>2
<1>13. CASE EndTest(t)
  <2>1. /\ \A u \in Thread : pc[u] = "idle"
        /\ todo' = MockersOf(DOMAIN Objects \ Owned)
        /\ Goto(t, "lock")
    BY <1>13 DEF EndTest
  <2>2. pc'[t] = "lock" /\ "lock" \in Verifying
    BY <1>6, <2>1 DEF Verifying
  <2> QED
    BY <1>8, <2>1, <2>2
<1>14. CASE Lock(t)
  <2>1. pc[t] = "lock" /\ Goto(t, "verify") /\ UNCHANGED todo
    BY <1>14 DEF Lock
  <2>2. pc[t] \in Verifying /\ pc'[t] = "verify" /\ "verify" \in Verifying
    BY <1>6, <2>1 DEF Verifying
  <2> QED
    BY <1>3, <1>4, <2>1, <2>2
<1>15. CASE VerifyMocker(t)
  <2>1. /\ pc[t] = "verify" /\ Goto(t, "delete") /\ UNCHANGED todo /\ todo # << >>
        /\ untyped_expectations' = [untyped_expectations EXCEPT ![Head(todo)] = << >>]
    BY <1>15 DEF VerifyMocker
  <2>2. pc[t] \in Verifying /\ pc'[t] = "delete" /\ "delete" \in Verifying
    BY <1>6, <2>1 DEF Verifying
  <2>3. Head(todo) \in Mocker
    BY <1>3, <2>1
  <2>4. untyped_expectations'[Head(todo)] = << >>
    BY <1>1, <2>1, <2>3
  <2>5. untyped_expectations'[Head(todo')] = << >>
    BY <2>1, <2>4
  <2> QED
    BY <1>3, <1>4, <2>1, <2>2, <2>5
<1>16. CASE DeleteExpectations(t)
  <2> DEFINE gone == (Expectation \ Held) \ freed
             owned == UNION {Declared[e].owns : e \in gone}
  <2>1. /\ pc[t] = "delete" /\ Goto(t, "lock")
        /\ todo' = MockersOf(owned) \o Tail(todo)
    BY <1>16 DEF DeleteExpectations
  <2>2. pc[t] \in Verifying /\ pc'[t] = "lock" /\ "lock" \in Verifying
    BY <1>6, <2>1 DEF Verifying
  <2>3. owned \subseteq DOMAIN Objects
    BY DeclaredType, ObjectsType
  <2>4. MockersOf(owned) \in Seq(Mocker)
    BY <2>3, MockersOfRange
  <2>5. Tail(todo) \in Seq(Mocker)
    BY <1>3, <1>5, <2>1
  <2> HIDE DEF owned
  <2>6. todo' \in Seq(Mocker)
    BY <2>1, <2>4, <2>5
  <2> QED
    BY <1>4, <2>2, <2>6
<1>17. CASE VerificationDone(t)
  <2>1. /\ pc[t] = "verify" /\ UNCHANGED todo /\ todo = << >>
        /\ Goto(t, IF call[t] = None THEN "idle" ELSE "report")
    BY <1>17 DEF VerificationDone
  <2>2. pc'[t] \in {"idle", "report"}
    BY <1>6, <2>1
  <2>3. pc'[t] \notin Verifying /\ pc'[t] # "delete"
    BY <2>2 DEF Verifying
  <2> QED
    BY <1>3, <2>1, <2>3
<1>18. CASE UninterestingCall(t)
  <2>1. pc[t] = "uninteresting" /\ Goto(t, "idle") /\ UNCHANGED todo
    BY <1>18 DEF UninterestingCall, verification
  <2>2. pc[t] \notin Verifying
    BY <2>1 DEF Verifying
  <2> QED
    BY <1>9, <2>1, <2>2
<1>19. CASE UnexpectedCall(t) \/ MatchingCall(t)
  <2>1. pc[t] = "find" /\ Goto(t, "perform") /\ UNCHANGED todo
    BY <1>19 DEF UnexpectedCall, MatchingCall, verification
  <2>2. pc[t] \notin Verifying
    BY <2>1 DEF Verifying
  <2> QED
    BY <1>9, <2>1, <2>2
<1> QED
  BY <1>10, <1>11, <1>12, <1>13, <1>14, <1>15, <1>16, <1>17, <1>18, <1>19
  DEF StepsOf, QuietSteps

(* Once the expectations are set, mockers only lose theirs.                *)
LEMMA MockersOnlyLose ==
  ASSUME MocksInv, NEW t \in Thread, StepsOf(t)
  PROVE  /\ UNCHANGED <<declared, immediate>>
         /\ \/ UNCHANGED untyped_expectations
            \/ VerifyMocker(t)
         /\ \A m \in Mocker :
              \/ untyped_expectations'[m] = untyped_expectations[m]
              \/ untyped_expectations'[m] = << >>
         /\ \A s \in Sequence : last'[s] = last[s] \/ last'[s] = 0
<1>1. UNCHANGED <<declared, immediate>> /\ (UNCHANGED last \/ EndTest(t))
  BY DEF StepsOf, QuietSteps, Invoke, PerformAction, ReportCall, EndTest, Lock,
     VerifyMocker, DeleteExpectations, VerificationDone, UninterestingCall,
     UnexpectedCall, MatchingCall, specs
<1>2. UNCHANGED untyped_expectations \/ VerifyMocker(t)
  BY DEF StepsOf, QuietSteps, Invoke, PerformAction, ReportCall, EndTest, Lock,
     DeleteExpectations, VerificationDone, UninterestingCall,
     UnexpectedCall, MatchingCall
<1>3. \A m \in Mocker :
        \/ untyped_expectations'[m] = untyped_expectations[m]
        \/ untyped_expectations'[m] = << >>
  <2>1. untyped_expectations \in [Mocker -> Seq(Expectation)]
    BY DEF MocksInv, Shape
  <2>2. ASSUME VerifyMocker(t)
        PROVE  untyped_expectations' = [untyped_expectations EXCEPT ![Head(todo)] = << >>]
    BY <2>2 DEF VerifyMocker
  <2> QED
    BY <1>2, <2>1, <2>2
<1>4. \A s \in Sequence : last'[s] = last[s] \/ last'[s] = 0
  <2>1. ASSUME EndTest(t) PROVE last' = [s \in Sequence |-> 0]
    BY <2>1 DEF EndTest
  <2> QED
    BY <1>1, <2>1
<1> QED
  BY <1>1, <1>2, <1>3, <1>4

LEMMA PlacedKept ==
  ASSUME MocksInv, Placed, [Next]_vars
  PROVE  Placed'
<1>1. /\ untyped_expectations \in [Mocker -> Seq(Expectation)]
      /\ declared \in 0 .. Len(Declared) /\ Len(Declared) \in Nat
      /\ last \in [Sequence -> 0 .. declared]
      /\ immediate \in [Expectation -> SUBSET Expectation]
  BY ExpectationsAreNumbers DEF MocksInv, Shape
<1>2. ASSUME NEW t \in Thread, StepsOf(t) PROVE Placed'
  <2>1. /\ UNCHANGED <<declared, immediate>>
        /\ \A m \in Mocker :
              \/ untyped_expectations'[m] = untyped_expectations[m]
              \/ untyped_expectations'[m] = << >>
        /\ \A s \in Sequence : last'[s] = last[s] \/ last'[s] = 0
    BY <1>2, MockersOnlyLose
  <2>2. Range(<< >>) = {}
    BY DEF Range
  <2>3. \A m \in Mocker : \A e \in Range(untyped_expectations'[m]) :
          e <= declared' /\ Declared[e].mocker = m
    BY <2>1, <2>2 DEF Placed
  <2>4. \A s \in Sequence : last'[s] # 0 => s \in Declared[last'[s]].sequences
    BY <2>1 DEF Placed
  <2>5. \A e \in Expectation : \A d \in immediate'[e] : MayKeep(e, d)
    BY <2>1 DEF Placed
  <2> QED
    BY <2>3, <2>4, <2>5 DEF Placed
<1>3. CASE ExpectCall
  <2> DEFINE e == declared + 1
             d == Declared[e]
             new == d.after \cup ({last[s] : s \in d.sequences} \ {0})
  <2>1. /\ declared < Len(Declared) /\ declared' = e
        /\ untyped_expectations' =
             [untyped_expectations EXCEPT ![d.mocker] =
                Append(untyped_expectations[d.mocker], e)]
        /\ immediate' = [immediate EXCEPT ![e] = new]
        /\ last' = [s \in Sequence |-> IF s \in d.sequences THEN e ELSE last[s]]
    BY <1>3 DEF ExpectCall
  <2>2. e \in Expectation /\ e \in Nat /\ e = declared + 1 /\ d.sequences \subseteq Sequence
    BY <1>1, <2>1, ExpectationsAreNumbers, DeclaredType
  <2>3. d = Declared[e]
    OBVIOUS
  <2> HIDE DEF e, d
  <2>4. ASSUME NEW m \in Mocker, NEW c \in Range(untyped_expectations'[m])
        PROVE  c <= e /\ Declared[c].mocker = m
    <3>1. ASSUME m # d.mocker \/ c # e
          PROVE  c \in Range(untyped_expectations[m])
      <4>1. CASE m # d.mocker
        BY <1>1, <2>1, <2>4, <4>1
      <4>2. CASE m = d.mocker
        <5>1. untyped_expectations'[m] = Append(untyped_expectations[m], e)
          BY <1>1, <2>1, <4>2
        <5>2. untyped_expectations[m] \in Seq(Expectation)
          BY <1>1
        <5>3. \A q \in Seq(Expectation) : Range(Append(q, e)) \subseteq Range(q) \cup {e}
          <6> SUFFICES ASSUME NEW q \in Seq(Expectation), NEW x \in Range(Append(q, e))
                       PROVE  x \in Range(q) \cup {e}
            OBVIOUS
          <6>1. PICK i \in DOMAIN Append(q, e) : x = Append(q, e)[i]
            BY DEF Range
          <6>2. i \in 1 .. Len(q) + 1 /\ Len(q) \in Nat /\ DOMAIN q = 1 .. Len(q)
            BY <6>1, <2>2
          <6>3. CASE i = Len(q) + 1
            BY <6>1, <6>2, <6>3, <2>2
          <6>4. CASE i # Len(q) + 1
            <7>1. i \in 1 .. Len(q) /\ x = q[i]
              BY <6>1, <6>2, <6>4, <2>2
            <7> QED
              BY <6>2, <7>1 DEF Range
          <6> QED
            BY <6>3, <6>4
        <5> QED
          BY <2>4, <3>1, <4>2, <5>1, <5>2, <5>3
      <4> QED
        BY <4>1, <4>2
    <3>2. CASE m # d.mocker \/ c # e
      <4>1. c <= declared /\ Declared[c].mocker = m
        BY <3>1, <3>2 DEF Placed
      <4>2. c \in Expectation
        BY <1>1, <3>1, <3>2 DEF Range
      <4> QED
        BY <1>1, <2>2, <4>1, <4>2, ExpectationsAreNumbers
    <3>3. CASE m = d.mocker /\ c = e
      BY <2>2, <2>3, <3>3
    <3> QED
      BY <3>2, <3>3
  <2>5. ASSUME NEW x \in Expectation, NEW y \in immediate'[x] PROVE MayKeep(x, y)
    <3>1. CASE x = e
      <4>1. y \in new
        BY <1>1, <2>1, <2>2, <2>5, <3>1
      <4>2. CASE y \in d.after
        BY <2>3, <3>1, <4>2 DEF MayKeep
      <4>3. CASE y \notin d.after
        <5>1. PICK s \in d.sequences : y = last[s] /\ y # 0
          BY <4>1, <4>3
        <5>2. s \in Sequence /\ last[s] \in 0 .. declared
          BY <1>1, <2>2
        <5>3. s \in Declared[y].sequences
          BY <5>1, <5>2 DEF Placed
        <5>4. y < e
          BY <1>1, <2>2, <5>1, <5>2
        <5> QED
          BY <2>3, <3>1, <5>1, <5>3, <5>4 DEF MayKeep
      <4> QED
        BY <4>2, <4>3
    <3>2. CASE x # e
      <4>1. y \in immediate[x]
        BY <1>1, <2>1, <2>5, <3>2
      <4> QED
        BY <4>1 DEF Placed
    <3> QED
      BY <3>1, <3>2
  <2>6. ASSUME NEW s \in Sequence, last'[s] # 0
        PROVE  s \in Declared[last'[s]].sequences
    <3>1. CASE s \in d.sequences
      BY <2>1, <2>3, <3>1
    <3>2. CASE s \notin d.sequences
      <4>1. last'[s] = last[s]
        BY <2>1, <3>2
      <4> QED
        BY <2>6, <4>1 DEF Placed
    <3> QED
      BY <3>1, <3>2
  <2> QED
    BY <2>1, <2>4, <2>5, <2>6 DEF Placed
<1>4. CASE UNCHANGED vars
  BY <1>4 DEF vars, specs, Placed
<1> QED
  BY <1>2, <1>3, <1>4 DEF Next, Proceed, StepsOf, QuietSteps

-----------------------------------------------------------------------------
(***************************************************************************)
(* The count of an expectation and the log agree.                          *)
(***************************************************************************)
LEMMA AppendCalled ==
  ASSUME NEW l \in Seq(Entry), NEW x \in Entry, NEW e
  PROVE  /\ x.exp = e =>
              Cardinality(Called(Append(l, x), e)) = Cardinality(Called(l, e)) + 1
         /\ x.exp # e => Called(Append(l, x), e) = Called(l, e)
         /\ \A i \in 1 .. Len(l) : CalledUpTo(Append(l, x), e, i) = CalledUpTo(l, e, i)
<1> DEFINE m == Append(l, x)
           k == Len(l)
<1>1. k \in Nat /\ Len(m) = k + 1 /\ m[k + 1] = x /\ \A i \in 1 .. k : m[i] = l[i]
  OBVIOUS
<1> HIDE DEF m, k
<1>2. x.exp = e => Called(m, e) = {i \in 1 .. k : l[i].exp = e} \cup {k + 1}
  BY <1>1 DEF Called, CalledUpTo
<1>3. x.exp # e => Called(m, e) = {i \in 1 .. k : l[i].exp = e}
  BY <1>1 DEF Called, CalledUpTo
<1>4. Called(l, e) = {i \in 1 .. k : l[i].exp = e}
  BY DEF Called, CalledUpTo, k
<1>5. k + 1 \notin {i \in 1 .. k : l[i].exp = e}
  BY <1>1
<1>6. IsFiniteSet({i \in 1 .. k : l[i].exp = e})
  <2>1. IsFiniteSet(1 .. k)
    BY <1>1, FS_Interval
  <2> QED
    BY <2>1, FS_Subset
<1>7. Cardinality({i \in 1 .. k : l[i].exp = e} \cup {k + 1})
        = Cardinality({i \in 1 .. k : l[i].exp = e}) + 1
  BY <1>5, <1>6, FS_AddElement
<1>8. \A i \in 1 .. k : CalledUpTo(m, e, i) = CalledUpTo(l, e, i)
  <2> SUFFICES ASSUME NEW i \in 1 .. k PROVE CalledUpTo(m, e, i) = CalledUpTo(l, e, i)
    OBVIOUS
  <2>1. \A j \in 1 .. i : j \in 1 .. k
    BY <1>1
  <2>2. \A j \in 1 .. i : m[j] = l[j]
    BY <1>1, <2>1
  <2> QED
    BY <2>2 DEF CalledUpTo
<1> QED
  BY <1>2, <1>3, <1>4, <1>7, <1>8 DEF m, k

(* What a section of g_gmock_mutex writes into the log.                    *)
LoggedFree(x) ==
  /\ log' = Append(log, x) /\ x.exp = None /\ UNCHANGED call_count
  /\ x.kind # "excessive"
LoggedTaken(x) ==
  /\ log' = Append(log, x) /\ x.exp \in Expectation
  /\ call_count' = [call_count EXCEPT ![x.exp] = @ + 1]
  /\ x.kind = "excessive" <=> call_count[x.exp] + 1 > Bounds(x.exp)[2]

(* The entry that is appended is marked as it should be; so are the others.*)
LEMMA ExcessKept ==
  ASSUME ExcessMarked, log \in Seq(Entry), NEW x \in Entry, log' = Append(log, x),
         x.kind = "excessive" <=>
           \E e \in Expectation :
             x.exp = e /\ Cardinality(Called(log', e)) > Bounds(e)[2]
  PROVE  ExcessMarked'
<1> DEFINE k == Len(log)
<1>1. k \in Nat /\ Len(log') = k + 1 /\ log'[k + 1] = x /\ \A i \in 1 .. k : log'[i] = log[i]
  OBVIOUS
<1>2. \A e : \A i \in 1 .. k : CalledUpTo(log', e, i) = CalledUpTo(log, e, i)
  BY AppendCalled
<1>3. \A e : Called(log', e) = CalledUpTo(log', e, k + 1)
  BY <1>1 DEF Called
<1>4. ExcessMarked' <=> \A i \in 1 .. k + 1 : log'[i].kind = "excessive" <=> Exceeds(log', i)
  BY <1>1 DEF ExcessMarked, Exceeds, CalledUpTo, Bounds
<1> HIDE DEF k
<1>5. ASSUME NEW i \in 1 .. k PROVE log'[i].kind = "excessive" <=> Exceeds(log', i)
  <2>1. Exceeds(log', i) <=> Exceeds(log, i)
    BY <1>1, <1>2, <1>5 DEF Exceeds
  <2>2. log[i].kind = "excessive" <=> Exceeds(log, i)
    BY <1>5 DEF ExcessMarked, k
  <2> QED
    BY <1>1, <1>5, <2>1, <2>2
<1>6. log'[k + 1].kind = "excessive" <=> Exceeds(log', k + 1)
  BY <1>1, <1>3 DEF Exceeds
<1>7. \A i \in 1 .. k + 1 : i \in 1 .. k \/ i = k + 1
  BY <1>1
<1> QED
  BY <1>4, <1>5, <1>6, <1>7

LEMMA TotalsKept ==
  ASSUME MocksInv, TotalsAgree,
         \/ UNCHANGED <<log, call_count>>
         \/ \E x \in Entry : LoggedFree(x) \/ LoggedTaken(x)
  PROVE  TotalsAgree'
<1>1. log \in Seq(Entry) /\ call_count \in [Expectation -> Nat] /\ None \notin Expectation
  BY NoneIsNothing DEF MocksInv, Shape
<1>0. CountsCalls /\ ExcessMarked
  BY DEF TotalsAgree
<1>2. CASE UNCHANGED <<log, call_count>>
  <2>1. CountsCalls'
    BY <1>0, <1>2 DEF CountsCalls
  <2>2. ExcessMarked'
    BY <1>0, <1>2 DEF ExcessMarked, Exceeds, CalledUpTo, Bounds
  <2> QED
    BY <2>1, <2>2 DEF TotalsAgree
<1>3. ASSUME NEW x \in Entry, LoggedFree(x) PROVE TotalsAgree'
  <2>1. \A e \in Expectation : Called(log', e) = Called(log, e)
    BY <1>1, <1>3, AppendCalled DEF LoggedFree
  <2>2. CountsCalls'
    BY <1>0, <1>3, <2>1 DEF CountsCalls, LoggedFree
  <2>3. x.kind # "excessive" /\ ~ \E e \in Expectation : x.exp = e
    BY <1>1, <1>3 DEF LoggedFree
  <2>4. ExcessMarked'
    BY <1>0, <1>1, <1>3, <2>3, ExcessKept DEF LoggedFree
  <2> QED
    BY <2>2, <2>4 DEF TotalsAgree
<1>4. ASSUME NEW x \in Entry, LoggedTaken(x) PROVE TotalsAgree'
  <2>0. ASSUME NEW e \in Expectation
        PROVE  call_count'[e] = Cardinality(Called(log', e))
    <3>1. call_count[e] = Cardinality(Called(log, e))
      BY <1>0 DEF CountsCalls
    <3>2. CASE x.exp = e
      <4>1. call_count'[e] = call_count[e] + 1
        BY <1>1, <1>4, <3>2 DEF LoggedTaken
      <4>2. Cardinality(Called(log', e)) = Cardinality(Called(log, e)) + 1
        BY <1>1, <1>4, <3>2, AppendCalled DEF LoggedTaken
      <4> QED
        BY <3>1, <4>1, <4>2
    <3>3. CASE x.exp # e
      <4>1. call_count'[e] = call_count[e]
        BY <1>1, <1>4, <3>3 DEF LoggedTaken
      <4>2. Called(log', e) = Called(log, e)
        BY <1>1, <1>4, <3>3, AppendCalled DEF LoggedTaken
      <4> QED
        BY <3>1, <4>1, <4>2
    <3> QED
      BY <3>2, <3>3
  <2>1. CountsCalls'
    BY <2>0 DEF CountsCalls
  <2>2. /\ x.exp \in Expectation /\ log' = Append(log, x)
        /\ call_count'[x.exp] = call_count[x.exp] + 1
        /\ x.kind = "excessive" <=> call_count[x.exp] + 1 > Bounds(x.exp)[2]
    BY <1>1, <1>4 DEF LoggedTaken
  <2>3. x.kind = "excessive" <=> Cardinality(Called(log', x.exp)) > Bounds(x.exp)[2]
    BY <2>0, <2>2
  <2>4. ExcessMarked'
    BY <1>0, <1>1, <2>2, <2>3, ExcessKept
  <2> QED
    BY <2>1, <2>4 DEF TotalsAgree
<1> QED
  BY <1>2, <1>3, <1>4

(* The expectation that a call finds is still with its mocker. *)
LEMMA FoundIsHeld ==
  ASSUME Shape, Placed, NEW m \in Mocker, NEW a, FindMatchingExpectation(m, a) # None
  PROVE  LET e == FindMatchingExpectation(m, a)
         IN  /\ e \in Expectation
             /\ e \in Range(untyped_expectations[m]) /\ Declared[e].mocker = m
<1> DEFINE es == {e \in Range(untyped_expectations[m]) : ShouldHandleArguments(e, a)}
<1>1. untyped_expectations[m] \in Seq(Expectation)
  BY DEF Shape
<1>2. Range(untyped_expectations[m]) \subseteq Expectation
  BY <1>1 DEF Range
<1>3. es # {} /\ FindMatchingExpectation(m, a) = CHOOSE e \in es : \A d \in es : d <= e
  BY DEF FindMatchingExpectation
<1>4. Len(Declared) \in Nat /\ es \in SUBSET (1 .. Len(Declared))
  BY <1>2, ExpectationsAreNumbers
<1>5. \A e \in es : e \in Expectation /\ e \in Range(untyped_expectations[m])
  BY <1>2
<1> HIDE DEF es
<1>6. \E e \in es : \A d \in es : d <= e
  BY <1>3, <1>4, GreatestInInterval
<1>7. FindMatchingExpectation(m, a) \in es
  BY <1>3, <1>6
<1> QED
  BY <1>5, <1>7 DEF Placed

-----------------------------------------------------------------------------
(***************************************************************************)
(* A failure has been reported, or is about to be, if and only if there is *)
(* one: each step keeps both sides equal.                                  *)
(***************************************************************************)
LoggedBad(l) == \E i \in 1 .. Len(l) : BadCall(l[i])
Fault == LoggedBad(log) \/ \E e \in Expectation : Fails(e)

LEMMA AppendBad ==
  ASSUME NEW l \in Seq(Entry), NEW x \in Entry
  PROVE  LoggedBad(Append(l, x)) <=> LoggedBad(l) \/ BadCall(x)
<1> DEFINE m == Append(l, x)
           k == Len(l)
<1>1. k \in Nat /\ Len(m) = k + 1 /\ m[k + 1] = x /\ \A i \in 1 .. k : m[i] = l[i]
  OBVIOUS
<1>2. \A i \in 1 .. k + 1 : i \in 1 .. k \/ i = k + 1
  BY <1>1
<1>3. \A i \in 1 .. k : i \in 1 .. k + 1
  BY <1>1
<1>4. k + 1 \in 1 .. k + 1
  BY <1>1
<1> HIDE DEF m, k
<1>5. LoggedBad(m) <=> \E i \in 1 .. k + 1 : BadCall(m[i])
  BY <1>1 DEF LoggedBad
<1>6. LoggedBad(l) <=> \E i \in 1 .. k : BadCall(l[i])
  BY DEF LoggedBad, k
<1>7. ASSUME NEW i \in 1 .. k + 1, BadCall(m[i]) PROVE LoggedBad(l) \/ BadCall(x)
  BY <1>1, <1>2, <1>6, <1>7
<1>8. ASSUME NEW i \in 1 .. k, BadCall(l[i]) PROVE LoggedBad(m)
  BY <1>1, <1>3, <1>5, <1>8
<1>9. BadCall(x) => LoggedBad(m)
  BY <1>1, <1>4, <1>5
<1> QED
  BY <1>5, <1>6, <1>7, <1>8, <1>9 DEF m

LEMMA ExactIs == Exact <=> (reported \/ Pending <=> Fault)
BY DEF Exact, Fault, LoggedBad

LEMMA FaultUnchanged ==
  ASSUME UNCHANGED <<declared, untyped_expectations, call_count>>
  PROVE  (\E e \in Expectation : Fails(e))' <=> \E e \in Expectation : Fails(e)
BY DEF Fails, Cleared, Bounds

(* Which threads have a failure to report. *)
LEMMA PendingIs ==
  ASSUME MocksInv, CallsTalk, NEW t \in Thread, StepsOf(t)
  PROVE  /\ IsBad(call'[t]) => Pending'
         /\ IsBad(call[t]) => Pending
         /\ ~IsBad(call[t]) => (Pending' <=> Pending \/ IsBad(call'[t]))
         /\ IsBad(call[t]) /\ ~IsBad(call'[t]) => (Pending' => Pending)
         /\ (IsBad(call'[t]) <=> IsBad(call[t])) => (Pending' <=> Pending)
<1>1. \A u \in Thread \ {t} : call'[u] = call[u]
  BY TalkKept
<1>2. Pending <=> IsBad(call[t]) \/ \E u \in Thread \ {t} : IsBad(call[u])
  BY DEF Pending
<1>3. Pending' <=> IsBad(call'[t]) \/ \E u \in Thread \ {t} : IsBad(call'[u])
  BY DEF Pending, IsBad
<1> QED
  BY <1>1, <1>2, <1>3

LEMMA QuietExact ==
  ASSUME MocksInv, CallsTalk, Exact, NEW t \in Thread, StepsOf(t),
         UNCHANGED <<declared, untyped_expectations, call_count, log>>,
         reported' <=> reported \/ (IsBad(call[t]) /\ ~IsBad(call'[t])),
         IsBad(call'[t]) => IsBad(call[t])
  PROVE  Exact'
<1>1. Fault' <=> Fault
  BY FaultUnchanged DEF Fault
<1>2. reported' \/ Pending' <=> reported \/ Pending
  BY PendingIs
<1>3. Exact' <=> (reported' \/ Pending' <=> Fault')
  BY DEF Exact, Fault, LoggedBad
<1> QED
  BY <1>1, <1>2, <1>3, ExactIs

LEMMA VerifyExact ==
  ASSUME MocksInv, CallsTalk, VerifiesAlone, Placed, Exact,
         NEW t \in Thread, VerifyMocker(t)
  PROVE  Exact'
<1> DEFINE m == Head(todo)
           es == Range(untyped_expectations[m])
<1>0. StepsOf(t)
  BY DEF StepsOf, QuietSteps
<1>1. /\ todo # << >>
      /\ reported' = (reported \/ \E e \in es : ~IsOverSaturated(e) /\ ~IsSatisfied(e))
      /\ untyped_expectations' = [untyped_expectations EXCEPT ![m] = << >>]
      /\ UNCHANGED <<declared, call_count, call, log>>
  BY DEF VerifyMocker, specs, counts
<1>2. declared = Len(Declared)
  BY <1>0, BusyAfterSet DEF StepsOf
<1>3. m \in Mocker
  <2>1. todo \in Seq(Mocker)
    BY DEF VerifiesAlone
  <2> QED
    BY <1>1, <2>1
<1>4. untyped_expectations \in [Mocker -> Seq(Expectation)]
      /\ call_count \in [Expectation -> Nat]
  BY DEF MocksInv, Shape
<1> HIDE DEF m
<1>5. \A e \in es : e \in Expectation /\ Declared[e].mocker = m
  <2>1. es \subseteq Expectation
    <3>1. untyped_expectations[m] \in Seq(Expectation)
      BY <1>3, <1>4
    <3> QED
      BY <3>1 DEF Range
  <2> QED
    BY <1>3, <2>1 DEF Placed
<1>6. Pending' <=> Pending
  BY <1>1 DEF Pending, IsBad
<1>7. LoggedBad(log') <=> LoggedBad(log)
  BY <1>1
<1>8. \A e \in Expectation : Cleared(e)' <=> Cleared(e) \/ e \in es
  <2> SUFFICES ASSUME NEW e \in Expectation PROVE Cleared(e)' <=> Cleared(e) \/ e \in es
    OBVIOUS
  <2>1. Declared[e].mocker \in Mocker
    BY DeclaredType
  <2>2. Cleared(e)' <=> e \notin Range(untyped_expectations'[Declared[e].mocker])
    BY <1>1, <1>2 DEF Cleared
  <2>3. Cleared(e) <=> e \notin Range(untyped_expectations[Declared[e].mocker])
    BY <1>2 DEF Cleared
  <2>4. CASE Declared[e].mocker = m
    <3>1. untyped_expectations'[m] = << >>
      BY <1>1, <1>3, <1>4
    <3>2. Range(<< >>) = {}
      BY DEF Range
    <3> QED
      BY <2>2, <2>3, <2>4, <3>1, <3>2
  <2>5. CASE Declared[e].mocker # m
    <3>1. untyped_expectations'[Declared[e].mocker] = untyped_expectations[Declared[e].mocker]
      BY <1>1, <1>4, <2>1, <2>5
    <3>2. e \notin es
      BY <1>5, <2>5
    <3> QED
      BY <2>2, <2>3, <3>1, <3>2
  <2> QED
    BY <2>4, <2>5
<1> HIDE DEF es
<1>9. \A e \in Expectation :
        (Fails(e))' <=> Fails(e) \/ (e \in es /\ call_count[e] < Bounds(e)[1])
  <2> SUFFICES ASSUME NEW e \in Expectation
               PROVE  (Fails(e))' <=> Fails(e) \/ (e \in es /\ call_count[e] < Bounds(e)[1])
    OBVIOUS
  <2>1. (Fails(e))' <=> Cleared(e)' /\ call_count[e] < Bounds(e)[1]
    BY <1>1 DEF Fails, Bounds
  <2>2. Fails(e) <=> Cleared(e) /\ call_count[e] < Bounds(e)[1]
    BY DEF Fails
  <2> QED
    BY <1>8, <2>1, <2>2
<1>10. \A e \in Expectation :
         ~IsOverSaturated(e) /\ ~IsSatisfied(e) <=> call_count[e] < Bounds(e)[1]
  <2> SUFFICES ASSUME NEW e \in Expectation
               PROVE  ~IsOverSaturated(e) /\ ~IsSatisfied(e) <=> call_count[e] < Bounds(e)[1]
    OBVIOUS
  <2>1. /\ call_count[e] \in Nat /\ Bounds(e)[1] \in Nat /\ Bounds(e)[2] \in Nat
        /\ Bounds(e)[1] <= Bounds(e)[2]
    BY <1>4, BoundsAreNumbers, BoundsAreInOrder
  <2>2. IsOverSaturated(e) <=> call_count[e] > Bounds(e)[2]
    BY DEF IsOverSaturated
  <2>3. IsSatisfied(e) <=> Bounds(e)[1] <= call_count[e] /\ call_count[e] <= Bounds(e)[2]
    BY DEF IsSatisfied
  <2> QED
    BY <2>1, <2>2, <2>3
<1>11. ASSUME NEW e \in Expectation, (Fails(e))', ~Fault
       PROVE  reported'
  <2>1. e \in es /\ call_count[e] < Bounds(e)[1]
    BY <1>9, <1>11 DEF Fault
  <2> QED
    BY <1>1, <1>10, <2>1
<1>12. (\E e \in es : ~IsOverSaturated(e) /\ ~IsSatisfied(e)) =>
         \E e \in Expectation : (Fails(e))'
  BY <1>5, <1>9, <1>10
<1>13. Fault => Fault'
  BY <1>7, <1>9 DEF Fault
<1>14. Fault' <=> LoggedBad(log') \/ \E e \in Expectation : (Fails(e))'
  BY DEF Fault, LoggedBad, BadCall, ErrorKind
<1>15. Exact' <=> (reported' \/ Pending' <=> Fault')
  BY DEF Exact, Fault, LoggedBad
<1>16. Fault' => reported' \/ Fault
  BY <1>7, <1>11, <1>14 DEF Fault
<1>17. reported' => reported \/ Fault'
  BY <1>1, <1>12, <1>14
<1>18. reported => reported'
  BY <1>1
<1> QED
  BY <1>6, <1>13, <1>15, <1>16, <1>17, <1>18, ExactIs

LEMMA CallExact ==
  ASSUME MocksInv, CallsTalk, TotalsAgree, Placed, Exact, NEW t \in Thread,
         UninterestingCall(t) \/ UnexpectedCall(t) \/ MatchingCall(t)
  PROVE  /\ Exact'
         /\ \E x \in Entry : LoggedFree(x) \/ LoggedTaken(x)
<1>0. StepsOf(t)
  BY DEF StepsOf
<1>1. /\ log \in Seq(Entry) /\ call \in [Thread -> Call \cup {None}]
      /\ call_count \in [Expectation -> Nat] /\ Shape
      /\ pc[t] = "find" => call[t] \in Call
  BY DEF MocksInv, Shape
<1>2. ~IsBad(call[t])
  <2>1. pc[t] \in {"uninteresting", "find"}
    BY DEF UninterestingCall, UnexpectedCall, MatchingCall
  <2> QED
    BY <2>1 DEF CallsTalk, Talks, IsBad
<1>3. Exact' <=> (reported' \/ Pending' <=> Fault')
  BY DEF Exact, Fault, LoggedBad
<1>4. Fault' <=> LoggedBad(log') \/ \E e \in Expectation : (Fails(e))'
  BY DEF Fault, LoggedBad, BadCall, ErrorKind
<1>5. UNCHANGED <<declared, untyped_expectations>>
  BY DEF UninterestingCall, UnexpectedCall, MatchingCall, specs
(* The step logs one entry; if that is bad, it is reported or pending.     *)
<1>6. ASSUME NEW x \in Entry, log' = Append(log, x),
             (\E e \in Expectation : (Fails(e))') <=> \E e \in Expectation : Fails(e),
             reported' \/ IsBad(call'[t]) <=> reported \/ BadCall(x)
      PROVE  Exact'
  <2>1. LoggedBad(log') <=> LoggedBad(log) \/ BadCall(x)
    BY <1>1, <1>6, AppendBad
  <2>2. Fault' <=> Fault \/ BadCall(x)
    BY <1>4, <1>6, <2>1 DEF Fault
  <2>3. Pending' <=> Pending \/ IsBad(call'[t])
    BY <1>0, <1>2, PendingIs
  <2>4. reported \/ Pending <=> Fault
    BY ExactIs
  <2> QED
    BY <1>3, <1>6, <2>2, <2>3, <2>4
<1>7. CASE UninterestingCall(t)
  <2>1. PICK b \in BOOLEAN :
          /\ reported' = (reported \/ (Reaction = "kFail" /\ ~b))
          /\ log' = Append(log, [exp |-> None, action |-> DefaultAction,
                                 kind |-> "uninteresting", throws |-> b])
    BY <1>7 DEF UninterestingCall
  <2> DEFINE x == [exp |-> None, action |-> DefaultAction, kind |-> "uninteresting",
                   throws |-> b]
  <2>2. UNCHANGED call_count /\ call' = [call EXCEPT ![t] = None]
    BY <1>7 DEF UninterestingCall, counts
  <2>3. /\ x \in Entry /\ x.exp = None /\ x.kind # "excessive"
        /\ BadCall(x) <=> Reaction = "kFail" /\ ~b
    BY DEF Entry, DefaultAction, BadCall, ErrorKind
  <2>4. log' = Append(log, x)
    BY <2>1
  <2> HIDE DEF x
  <2>5. ~IsBad(call'[t])
    BY <1>1, <2>2 DEF IsBad
  <2>6. (\E e \in Expectation : (Fails(e))') <=> \E e \in Expectation : Fails(e)
    BY <1>5, <2>2, FaultUnchanged
  <2>7. Exact'
    BY <1>6, <2>1, <2>3, <2>4, <2>5, <2>6
  <2> QED
    BY <2>2, <2>3, <2>4, <2>7 DEF LoggedFree
<1>8. CASE UnexpectedCall(t)
  <2>1. PICK b \in BOOLEAN : Logged(t, None, DefaultAction, "unexpected", b)
    BY <1>8 DEF UnexpectedCall
  <2> DEFINE x == [exp |-> None, action |-> DefaultAction, kind |-> "unexpected",
                   throws |-> b]
  <2>2. UNCHANGED <<call_count, reported>> /\ call[t] \in Call
    BY <1>1, <1>8 DEF UnexpectedCall, counts
  <2>3. /\ x \in Entry /\ x.exp = None /\ x.kind # "excessive"
        /\ BadCall(x) <=> ~b
    BY DEF Entry, DefaultAction, BadCall, ErrorKind
  <2>4. log' = Append(log, x)
    BY <2>1 DEF Logged
  <2> HIDE DEF x
  <2>5. IsBad(call'[t]) <=> ~b
    <3>1. call'[t] = [call[t] EXCEPT !.exp = None, !.action = DefaultAction,
                                     !.kind = "unexpected", !.throws = b]
      BY <1>1, <2>1 DEF Logged
    <3>2. call'[t].kind = "unexpected" /\ call'[t].throws = b
      BY <2>2, <3>1 DEF Call
    <3>3. ASSUME NEW c \in Call, NEW k \in Nat
          PROVE  [c EXCEPT !.exp = None, !.action = k, !.kind = "unexpected",
                           !.throws = b] \in Call
      BY DEF Call
    <3>4. DefaultAction \in Nat
      BY DEF DefaultAction
    <3>5. call'[t] \in Call
      BY <2>2, <3>1, <3>3, <3>4
    <3>6. call'[t] # None
      BY <3>5, NoneIsNothing
    <3> QED
      BY <3>2, <3>6 DEF IsBad
  <2>6. (\E e \in Expectation : (Fails(e))') <=> \E e \in Expectation : Fails(e)
    BY <1>5, <2>2, FaultUnchanged
  <2>7. Exact'
    BY <1>6, <2>2, <2>3, <2>4, <2>5, <2>6
  <2> QED
    BY <2>2, <2>3, <2>4, <2>7 DEF LoggedFree
<1>9. CASE MatchingCall(t)
  <2> DEFINE m == call[t].mocker
             a == call[t].argument
  <2>1. PICK e : /\ e = FindMatchingExpectation(m, a) /\ e # None
                 /\ call_count' = [call_count EXCEPT ![e] = call_count[e] + 1]
                 /\ IF IsSaturated(e)
                      THEN /\ \E b \in BOOLEAN : Logged(t, e, DefaultAction, "excessive", b)
                           /\ UNCHANGED retired
                      ELSE Logged(t, e, GetCurrentAction(e, call_count[e] + 1), "expected",
                                  FALSE)
    BY <1>9 DEF MatchingCall
  <2>2. pc[t] = "find" /\ UNCHANGED reported /\ call[t] \in Call
    BY <1>1, <1>9 DEF MatchingCall
  <2>3. m \in Mocker
    BY <2>2 DEF Call
  <2> HIDE DEF m, a
  <2>4. /\ e \in Expectation
        /\ e \in Range(untyped_expectations[m]) /\ Declared[e].mocker = m
    BY <1>1, <2>1, <2>3, FoundIsHeld
  <2>5. /\ call_count[e] \in Nat /\ call_count'[e] = call_count[e] + 1
        /\ \A d \in Expectation \ {e} : call_count'[d] = call_count[d]
    BY <1>1, <2>1, <2>4
  <2>6. Bounds(e)[1] \in Nat /\ Bounds(e)[2] \in Nat /\ UNCHANGED Bounds(e)
    BY <2>4, BoundsAreNumbers DEF Bounds
  <2>7. GetCurrentAction(e, call_count[e] + 1) \in Nat
    BY <2>4, <2>5, DeclaredType DEF GetCurrentAction, DefaultAction
  <2>8. ~Cleared(e) /\ ~ (Cleared(e))'
    BY <1>5, <2>4 DEF Cleared
  <2>9. (\E d \in Expectation : (Fails(d))') <=> \E d \in Expectation : Fails(d)
    <3>1. \A d \in Expectation \ {e} : (Fails(d))' <=> Fails(d)
      BY <1>5, <2>5 DEF Fails, Cleared, Bounds
    <3>2. ~Fails(e) /\ ~ (Fails(e))'
      BY <2>8 DEF Fails
    <3> QED
      BY <3>1, <3>2
  <2>10. ASSUME NEW k \in Nat, NEW w \in {"expected", "excessive"}, NEW b \in BOOLEAN,
                Logged(t, e, k, w, b), w = "expected" => ~b,
                w = "excessive" <=> call_count[e] + 1 > Bounds(e)[2]
         PROVE  Exact' /\ \E x \in Entry : LoggedTaken(x)
    <3>1. call'[t] = [call[t] EXCEPT !.exp = e, !.action = k, !.kind = w, !.throws = b]
      BY <1>1, <2>10 DEF Logged
    <3>2. call'[t].kind = w /\ call'[t].throws = b
      BY <2>2, <3>1 DEF Call
    <3>3. call'[t] \in Call
      BY <2>2, <2>4, <2>10, <3>1 DEF Call
    <3>4. call'[t] # None
      BY <3>3, NoneIsNothing
    <3>5. IsBad(call'[t]) <=> w = "excessive" /\ ~b
      BY <2>10, <3>2, <3>4 DEF IsBad
    <3> DEFINE x == [exp |-> e, action |-> k, kind |-> w, throws |-> b]
    <3>6. x \in Entry /\ x.exp = e /\ x.kind = w
      BY <2>4, <2>10 DEF Entry
    <3>7. BadCall(x) <=> w = "excessive" /\ ~b
      BY <2>10 DEF BadCall, ErrorKind
    <3>8. log' = Append(log, x)
      BY <2>10 DEF Logged
    <3> HIDE DEF x
    <3>9. LoggedTaken(x)
      BY <2>1, <2>4, <2>10, <3>6, <3>8 DEF LoggedTaken
    <3>10. Exact'
      BY <1>6, <2>2, <2>9, <3>5, <3>6, <3>7, <3>8
    <3> QED
      BY <3>6, <3>9, <3>10
  <2>11. CASE IsSaturated(e)
    <3>1. PICK b \in BOOLEAN : Logged(t, e, DefaultAction, "excessive", b)
      BY <2>1, <2>11
    <3>2. call_count[e] + 1 > Bounds(e)[2]
      BY <2>5, <2>6, <2>11 DEF IsSaturated
    <3>3. DefaultAction \in Nat
      BY DEF DefaultAction
    <3> QED
      BY <2>10, <3>1, <3>2, <3>3
  <2>12. CASE ~IsSaturated(e)
    <3>1. Logged(t, e, GetCurrentAction(e, call_count[e] + 1), "expected", FALSE)
      BY <2>1, <2>12
    <3>2. ~ (call_count[e] + 1 > Bounds(e)[2])
      BY <2>5, <2>6, <2>12 DEF IsSaturated
    <3> QED
      BY <2>7, <2>10, <3>1, <3>2
  <2> QED
    BY <2>11, <2>12
<1> QED
  BY <1>7, <1>8, <1>9

-----------------------------------------------------------------------------
(***************************************************************************)
(* Before the expectations are set, and while they are.                    *)
(***************************************************************************)
LEMMA MockersHaveOwners ==
  \A m \in Mocker : \E o \in DOMAIN Objects :
    /\ m \in Range(Objects[o])
    /\ o \in Owned => \E e \in Expectation : o \in Declared[e].owns
<1> SUFFICES ASSUME NEW m \in Mocker
             PROVE  \E o \in DOMAIN Objects :
                      /\ m \in Range(Objects[o])
                      /\ o \in Owned => \E e \in Expectation : o \in Declared[e].owns
  OBVIOUS
<1>1. PICK o \in DOMAIN Objects : m \in Range(Objects[o])
  BY DEF Mocker
<1>2. o \in Owned => \E e \in Expectation : o \in Declared[e].owns
  BY OwnershipHasLevels
<1> QED
  BY <1>1, <1>2

LEMMA InitVerdict ==
  Init => VerdictInv
<1> SUFFICES ASSUME Init PROVE VerdictInv
  OBVIOUS
<1>1. Len(Declared) \in Nat /\ Expectation = 1 .. Len(Declared)
  BY ExpectationsAreNumbers
<1>2. log = << >> /\ Len(log) = 0 /\ declared = 0 /\ ~reported /\ ~over /\ freed = {}
  BY DEF Init
<1>3. CallsTalk /\ VerifiesAlone
  BY DEF Init, CallsTalk, Talks, VerifiesAlone, Verifying
<1>4. NothingYet
  BY <1>1, <1>2 DEF NothingYet
<1>5. Placed
  <2>1. Range(<< >>) = {}
    BY DEF Range
  <2> QED
    BY <2>1 DEF Init, Placed
<1>6. TotalsAgree
  <2>1. \A e : Called(log, e) = {}
    BY <1>2 DEF Called, CalledUpTo
  <2>2. Cardinality({}) = 0
    BY FS_EmptySet
  <2>3. ExcessMarked
    BY <1>2 DEF ExcessMarked
  <2> QED
    BY <2>1, <2>2, <2>3 DEF Init, TotalsAgree, CountsCalls
<1>7. Exact
  <2>1. ~Pending
    BY DEF Init, Pending, IsBad
  <2>2. \A e \in Expectation : call_count[e] = 0 /\ ~Cleared(e)
    <3>1. \A e \in Expectation : ~ (declared = Len(Declared))
      BY <1>1, <1>2
    <3> QED
      BY <3>1 DEF Init, Cleared
  <2>3. \A e \in Expectation : ~Fails(e)
    BY <2>2, BoundsAreNumbers DEF Fails
  <2> QED
    BY <1>2, <2>1, <2>3 DEF Exact
<1>8. EverythingAwaits
  BY <1>2 DEF Init, EverythingAwaits, Awaits
<1> QED
  BY <1>3, <1>4, <1>5, <1>6, <1>7, <1>8 DEF VerdictInv

LEMMA ExpectCallKeepsVerdict ==
  ASSUME MocksInv, MocksInv', VerdictInv, ExpectCall
  PROVE  CallsTalk' /\ VerifiesAlone' /\ NothingYet' /\ Exact' /\ EverythingAwaits'
<1> DEFINE n == Len(Declared)
           e == declared + 1
           d == Declared[e]
<1>1. n \in Nat /\ Expectation = 1 .. n /\ declared \in 0 .. n /\ declared < n
  BY ExpectationsAreNumbers DEF MocksInv, Shape, ExpectCall
<1>2. /\ declared' = e
      /\ untyped_expectations' =
           [untyped_expectations EXCEPT ![d.mocker] =
              Append(untyped_expectations[d.mocker], e)]
      /\ UNCHANGED <<call_count, pc, call, todo, freed, reported, over, log>>
  BY DEF ExpectCall, counts, verification
<1>3. log = << >> /\ \A t \in Thread : pc[t] = "idle"
  BY <1>1 DEF MocksInv, SetFirst
<1>4. /\ ~reported /\ ~over /\ freed = {}
      /\ \A c \in 1 .. declared : c \in Range(untyped_expectations[Declared[c].mocker])
  BY <1>1 DEF VerdictInv, NothingYet
<1>5. CallsTalk'
  BY <1>2 DEF VerdictInv, CallsTalk
<1>6. VerifiesAlone'
  <2>1. todo = << >> /\ todo \in Seq(Mocker)
    BY <1>3 DEF VerdictInv, VerifiesAlone, Verifying
  <2> QED
    BY <1>2, <1>3, <2>1 DEF VerifiesAlone, Verifying
<1>7. e \in 1 .. n /\ e \in Expectation /\ d.mocker \in Mocker
  BY <1>1, DeclaredType
<1>8. untyped_expectations \in [Mocker -> Seq(Expectation)]
  BY DEF MocksInv, Shape
<1>9. \A c \in 1 .. e : c \in 1 .. declared \/ c = e
  BY <1>1
<1> HIDE DEF d
<1>10. ASSUME NEW c \in 1 .. e
       PROVE  c \in Range(untyped_expectations'[Declared[c].mocker])
  <2>1. Declared[c].mocker \in Mocker
    <3>1. c \in Expectation
      BY <1>1, <1>7
    <3> QED
      BY <3>1, DeclaredType
  <2>2. ASSUME NEW q \in Seq(Expectation)
        PROVE  Range(q) \subseteq Range(Append(q, e)) /\ e \in Range(Append(q, e))
    <3>1. /\ DOMAIN Append(q, e) = 1 .. Len(q) + 1 /\ Len(q) \in Nat
          /\ DOMAIN q = 1 .. Len(q) /\ Append(q, e)[Len(q) + 1] = e
      OBVIOUS
    <3>2. \A i \in 1 .. Len(q) : Append(q, e)[i] = q[i] /\ i \in 1 .. Len(q) + 1
      OBVIOUS
    <3>3. Len(q) + 1 \in 1 .. Len(q) + 1
      BY <3>1
    <3> QED
      BY <3>1, <3>2, <3>3 DEF Range
  <2>3. CASE c = e
    <3>1. untyped_expectations'[d.mocker] = Append(untyped_expectations[d.mocker], e)
      BY <1>2, <1>7, <1>8
    <3>2. e \in Range(untyped_expectations'[d.mocker])
      BY <1>7, <1>8, <2>2, <3>1
    <3> QED
      BY <2>3, <3>2 DEF d
  <2>4. CASE c # e
    <3>1. c \in Range(untyped_expectations[Declared[c].mocker])
      BY <1>4, <1>9, <2>4
    <3>2. CASE Declared[c].mocker = d.mocker
      <4>1. untyped_expectations'[d.mocker] = Append(untyped_expectations[d.mocker], e)
        BY <1>2, <1>7, <1>8
      <4> QED
        BY <1>7, <1>8, <2>2, <3>1, <3>2, <4>1
    <3>3. CASE Declared[c].mocker # d.mocker
      <4>1. untyped_expectations'[Declared[c].mocker]
              = untyped_expectations[Declared[c].mocker]
        BY <1>2, <1>8, <2>1, <3>3
      <4> QED
        BY <3>1, <4>1
    <3> QED
      BY <3>2, <3>3
  <2> QED
    BY <2>3, <2>4
<1>11. NothingYet'
  BY <1>2, <1>4, <1>10 DEF NothingYet
<1>12. Exact'
  <2>1. Len(log) = 0
    BY <1>3
  <2>2. ~Pending'
    BY <1>2, <1>3 DEF VerdictInv, CallsTalk, Talks, Pending, IsBad
  <2>3. \A c \in Expectation : call_count[c] = 0
    <3>1. \A c : Called(log, c) = {}
      BY <2>1 DEF Called, CalledUpTo
    <3>2. Cardinality({}) = 0
      BY FS_EmptySet
    <3> QED
      BY <3>1, <3>2 DEF VerdictInv, TotalsAgree, CountsCalls
  <2>4. \A c \in Expectation : ~ (Cleared(c))'
    <3> SUFFICES ASSUME NEW c \in Expectation, declared' = n
                 PROVE  c \in Range(untyped_expectations'[Declared[c].mocker])
      BY DEF Cleared
    <3>1. c \in 1 .. e
      BY <1>1, <1>2
    <3> QED
      BY <1>10, <3>1
  <2>5. \A c \in Expectation : ~ (Fails(c))'
    BY <2>4 DEF Fails
  <2> QED
    BY <1>2, <1>4, <2>1, <2>2, <2>5 DEF Exact
<1>13. EverythingAwaits'
  <2>1. \A m \in Mocker : Awaits(m)'
    <3> SUFFICES ASSUME NEW m \in Mocker PROVE Awaits(m)'
      OBVIOUS
    <3>1. PICK o \in DOMAIN Objects :
            /\ m \in Range(Objects[o])
            /\ o \in Owned => \E c \in Expectation : o \in Declared[c].owns
      BY MockersHaveOwners
    <3>2. freed' = {} /\ ~over'
      BY <1>2, <1>4
    <3>3. CASE o \in Owned
      <4>1. PICK c \in Expectation : o \in Declared[c].owns
        BY <3>1, <3>3
      <4>2. c \in Expectation \ freed'
        BY <3>2
      <4> QED
        BY <3>1, <4>1, <4>2 DEF Awaits
    <3>4. CASE o \notin Owned
      <4>1. o \in DOMAIN Objects \ Owned
        BY <3>1, <3>4
      <4> QED
        BY <3>1, <3>2, <4>1 DEF Awaits
    <3> QED
      BY <3>3, <3>4
  <2>2. ~over'
    BY <1>2, <1>4
  <2> QED
    BY <2>1, <2>2 DEF EverythingAwaits
<1> QED
  BY <1>5, <1>6, <1>11, <1>12, <1>13

-----------------------------------------------------------------------------
(***************************************************************************)
(* Whatever still has expectations will be verified.                       *)
(***************************************************************************)
LEMMA LeastLevel ==
  ASSUME NEW level \in [Expectation -> Expectation],
         NEW T \in SUBSET Expectation, T # {}
  PROVE  \E e \in T : \A d \in T : level[e] <= level[d]
<1> DEFINE L == {level[e] : e \in T}
<1>1. Expectation \subseteq Nat
  BY ExpectationsAreNumbers
<1>2. \A e \in T : level[e] \in Nat
  BY <1>1
<1>3. L \in SUBSET Nat /\ L # {}
  BY <1>2
<1> HIDE DEF L
<1>4. PICK k \in L : \A l \in L : k <= l
  BY <1>3, LeastNatural
<1>5. PICK e \in T : k = level[e]
  BY DEF L
<1>6. \A d \in T : level[d] \in L
  BY DEF L
<1> QED
  BY <1>4, <1>5, <1>6

(* What is left to verify at the end starts with a mock of the test.       *)
LEMMA TestOwnsAMock ==
  ASSUME Expectation # {}
  PROVE  MockersOf(DOMAIN Objects \ Owned) # << >>
<1>1. PICK level \in [Expectation -> Expectation] :
        \A d, e \in Expectation : \A o \in Declared[e].owns :
          Declared[d].mocker \in Range(Objects[o]) => level[e] < level[d]
  BY OwnershipHasLevels
<1>2. PICK d \in Expectation : \A e \in Expectation : level[d] <= level[e]
  BY LeastLevel
<1>3. Declared[d].mocker \in Mocker
  BY DeclaredType
<1>4. PICK o \in DOMAIN Objects :
        /\ Declared[d].mocker \in Range(Objects[o])
        /\ o \in Owned => \E e \in Expectation : o \in Declared[e].owns
  BY <1>3, MockersHaveOwners
<1>5. o \notin Owned
  <2> SUFFICES ASSUME NEW e \in Expectation, o \in Declared[e].owns PROVE FALSE
    BY <1>4
  <2>1. level[e] < level[d] /\ level[d] <= level[e]
    BY <1>1, <1>2, <1>4
  <2>2. level[e] \in Nat /\ level[d] \in Nat
    BY ExpectationsAreNumbers
  <2> QED
    BY <2>1, <2>2
<1>6. Declared[d].mocker \in Range(MockersOf(DOMAIN Objects \ Owned))
  <2>1. o \in DOMAIN Objects \ Owned /\ DOMAIN Objects \ Owned \subseteq DOMAIN Objects
    BY <1>5
  <2> HIDE DEF MockersOf
  <2>2. Range(MockersOf(DOMAIN Objects \ Owned))
          = UNION {Range(Objects[p]) : p \in DOMAIN Objects \ Owned}
    BY <2>1, MockersOfRange
  <2> QED
    BY <1>4, <2>1, <2>2
<1>7. Range(<< >>) = {}
  BY DEF Range
<1> QED
  BY <1>6, <1>7

(* When nothing is left to verify, no expectation is left: one of the      *)
(* lowest level would have an owner that something of a lower level keeps. *)
LEMMA AllVerified ==
  ASSUME MocksInv, Placed, over, \A s \in Sequence : last[s] = 0,
         \A m \in Mocker : Awaits(m), todo = << >>, Swept \/ Expectation = {}
  PROVE  \A m \in Mocker : untyped_expectations[m] = << >>
<1> DEFINE T == {e \in Expectation : \E m \in Mocker : e \in Range(untyped_expectations[m])}
<1>1. /\ untyped_expectations \in [Mocker -> Seq(Expectation)]
      /\ Downward(immediate, Len(Declared)) /\ immediate \in [Expectation -> SUBSET Expectation]
      /\ last \in [Sequence -> 0 .. declared]
  BY DEF MocksInv, Shape
<1>2. \A m \in Mocker : Range(untyped_expectations[m]) \subseteq Expectation
  BY <1>1 DEF Range
<1>3. SUFFICES ASSUME T # {} PROVE FALSE
  <2> SUFFICES ASSUME NEW m \in Mocker, untyped_expectations[m] # << >> PROVE T # {}
    BY <1>3
  <2>1. untyped_expectations[m] \in Seq(Expectation)
    BY <1>1
  <2>2. 1 \in DOMAIN untyped_expectations[m]
    BY <2>1
  <2>3. untyped_expectations[m][1] \in Range(untyped_expectations[m])
    BY <2>2 DEF Range
  <2> QED
    BY <1>2, <2>3
<1>4. T \in SUBSET Expectation /\ Swept
  BY <1>3
<1>5. PICK level \in [Expectation -> Expectation] :
        /\ \A d, e \in Expectation : MayKeep(d, e) => level[d] <= level[e]
        /\ \A d, e \in Expectation : \A o \in Declared[e].owns :
             Declared[d].mocker \in Range(Objects[o]) => level[e] < level[d]
  BY OwnershipHasLevels
<1> HIDE DEF T
<1>6. PICK e2 \in T : \A d \in T : level[e2] <= level[d]
  BY <1>3, <1>4, LeastLevel
<1>7. PICK m \in Mocker : e2 \in Range(untyped_expectations[m])
  BY DEF T
<1>8. Declared[e2].mocker = m /\ e2 \in Expectation
  BY <1>4, <1>7 DEF Placed
<1>9. PICK e \in Expectation \ freed : \E o \in Declared[e].owns : m \in Range(Objects[o])
  <2>1. Range(<< >>) = {}
    BY DEF Range
  <2>2. untyped_expectations[m] # << >>
    BY <1>7, <2>1
  <2> QED
    BY <2>1, <2>2 DEF Awaits
<1>10. level[e] < level[e2]
  BY <1>5, <1>8, <1>9
<1>11. e \in Held
  BY <1>4, <1>9 DEF Swept
<1>12. \A d \in Expectation : level[d] \in Nat
  BY ExpectationsAreNumbers
<1>13. UNION {Range(untyped_expectations[x]) : x \in Mocker} = T
  BY <1>2 DEF T
<1>14. Range(last) \ {0} = {}
  BY <1>1 DEF Range
<1>15. Held = T \cup UNION {Prerequisites[d] : d \in T}
  BY <1>13, <1>14 DEF Held
<1>16. CASE e \in T
  BY <1>4, <1>6, <1>8, <1>10, <1>12, <1>16
<1>17. CASE e \notin T
  <2>1. PICK e3 \in T : e \in Prerequisites[e3]
    BY <1>11, <1>15, <1>17
  <2> DEFINE S == {d \in Expectation : level[e3] <= level[d]}
             n == Len(Declared)
  <2>2. n \in Nat /\ Expectation = 1 .. n /\ e3 \in Expectation
    BY <1>4, ExpectationsAreNumbers
  <2>3. ASSUME NEW x \in 1 .. n, x \in S PROVE immediate[x] \subseteq S
    <3> SUFFICES ASSUME NEW d \in immediate[x] PROVE d \in S
      OBVIOUS
    <3>1. d \in Expectation /\ x \in Expectation
      BY <1>1, <2>2
    <3>2. level[x] <= level[d]
      BY <1>5, <3>1 DEF Placed
    <3>3. level[e3] <= level[x]
      BY <2>3
    <3> QED
      BY <1>12, <2>2, <3>1, <3>2, <3>3
  <2>4. Reaches(Prerequisites, immediate, n)
    BY <1>1, PrerequisitesReach
  <2>5. e3 \in S
    BY <1>12, <2>2
  <2> HIDE DEF S, n
  <2>6. \A x \in 1 .. n : x \in S => immediate[x] \subseteq S
    BY <2>3
  <2>7. Downward(immediate, n)
    BY <1>1 DEF n
  <2>8. \A x \in 1 .. n : x \in S => Prerequisites[x] \subseteq S
    BY <2>2, <2>4, <2>6, <2>7, ClosedReach
  <2>9. e \in S
    BY <2>1, <2>2, <2>5, <2>8
  <2>10. level[e3] <= level[e]
    BY <2>9 DEF S
  <2>11. level[e2] <= level[e3]
    BY <1>6
  <2> QED
    BY <1>8, <1>9, <1>10, <1>12, <2>2, <2>10, <2>11
<1> QED
  BY <1>16, <1>17

(* The first and the later ones of what is left to verify. *)
LEMMA HeadOrTail ==
  ASSUME NEW s \in Seq(Mocker), s # << >>, NEW m \in Range(s)
  PROVE  m = Head(s) \/ m \in Range(Tail(s))
<1>1. PICK i \in DOMAIN s : m = s[i]
  BY DEF Range
<1>2. i \in 1 .. Len(s) /\ Len(s) \in Nat
  BY <1>1
<1>3. CASE i = 1
  BY <1>1, <1>3
<1>4. CASE i # 1
  <2>1. i - 1 \in 1 .. Len(s) - 1
    BY <1>2, <1>4
  <2>2. /\ Tail(s) \in Seq(Mocker) /\ Len(Tail(s)) = Len(s) - 1
        /\ \A j \in 1 .. Len(s) - 1 : Tail(s)[j] = s[j + 1]
    OBVIOUS
  <2>3. PICK j \in 1 .. Len(s) - 1 : j = i - 1
    BY <2>1
  <2>4. Tail(s)[j] = s[i] /\ j \in DOMAIN Tail(s)
    BY <1>2, <2>2, <2>3
  <2> QED
    BY <1>1, <2>4 DEF Range
<1> QED
  BY <1>3, <1>4

LEMMA AwaitsKept ==
  ASSUME MocksInv, CallsTalk, VerifiesAlone, NEW t \in Thread, StepsOf(t),
         NEW m \in Mocker, Awaits(m)
  PROVE  Awaits(m)'
<1>1. UNCHANGED <<untyped_expectations, todo, freed, over>> => Awaits(m)'
  BY DEF Awaits
<1>2. /\ untyped_expectations \in [Mocker -> Seq(Expectation)]
      /\ todo \in Seq(Mocker)
  BY DEF MocksInv, Shape, VerifiesAlone
<1>3. \A u \in Thread \ {t} : pc[u] \notin Verifying
  BY OthersDoNotVerify
<1>4. pc[t] \notin Verifying => todo = << >>
  BY <1>3 DEF VerifiesAlone
<1>5. Range(<< >>) = {}
  BY DEF Range
<1>6. CASE PerformAction(t) /\ Clears(call[t])
  <2>1. pc[t] = "perform" /\ UNCHANGED <<untyped_expectations, freed, over>>
    BY <1>6 DEF PerformAction
  <2>2. todo = << >>
    BY <1>4, <2>1 DEF Verifying
  <2> QED
    BY <1>5, <2>1, <2>2 DEF Awaits
<1>7. CASE EndTest(t)
  <2> DEFINE S == DOMAIN Objects \ Owned
  <2>1. /\ pc[t] = "idle" /\ UNCHANGED <<untyped_expectations, freed>>
        /\ todo' = MockersOf(S)
    BY <1>7 DEF EndTest
  <2>2. todo = << >>
    BY <1>4, <2>1 DEF Verifying
  <2>3. S \subseteq DOMAIN Objects
    OBVIOUS
  <2> HIDE DEF MockersOf, S
  <2>4. Range(todo') = UNION {Range(Objects[o]) : o \in S}
    BY <2>1, <2>3, MockersOfRange
  <2>5. CASE \E o \in S : m \in Range(Objects[o])
    BY <2>4, <2>5 DEF Awaits
  <2>6. CASE ~ \E o \in S : m \in Range(Objects[o])
    BY <1>5, <2>1, <2>2, <2>6 DEF Awaits, S
  <2> QED
    BY <2>5, <2>6
<1>8. CASE VerifyMocker(t)
  <2>1. UNCHANGED <<todo, freed, over>>
    BY <1>8 DEF VerifyMocker
  <2>2. \/ untyped_expectations'[m] = untyped_expectations[m]
        \/ untyped_expectations'[m] = << >>
    BY MockersOnlyLose
  <2> QED
    BY <2>1, <2>2 DEF Awaits
<1>9. CASE DeleteExpectations(t)
  <2> DEFINE gone == (Expectation \ Held) \ freed
             owned == UNION {Declared[e].owns : e \in gone}
  <2>1. /\ pc[t] = "delete" /\ freed' = freed \cup gone
        /\ todo' = MockersOf(owned) \o Tail(todo)
        /\ UNCHANGED <<untyped_expectations, over>>
    BY <1>9 DEF DeleteExpectations
  <2>2. todo # << >> /\ untyped_expectations[Head(todo)] = << >>
    BY <2>1 DEF VerifiesAlone
  <2>3. owned \subseteq DOMAIN Objects
    BY DeclaredType, ObjectsType
  <2>4. /\ \A e \in Expectation \ freed : e \in Expectation \ freed' \/ e \in gone
        /\ \A e \in gone : Declared[e].owns \subseteq owned
    BY <2>1
  <2> HIDE DEF gone, owned, MockersOf
  <2>5. /\ MockersOf(owned) \in Seq(Mocker)
        /\ Range(MockersOf(owned)) = UNION {Range(Objects[o]) : o \in owned}
    BY <2>3, MockersOfRange
  <2>6. Tail(todo) \in Seq(Mocker)
    BY <1>2, <2>2
  <2>7. Range(todo') = Range(MockersOf(owned)) \cup Range(Tail(todo))
    <3> DEFINE q == MockersOf(owned)
               r == Tail(todo)
    <3>1. q \in Seq(Mocker) /\ r \in Seq(Mocker) /\ todo' = q \o r
      BY <2>1, <2>5, <2>6
    <3> HIDE DEF q, r
    <3>2. Range(q \o r) = Range(q) \cup Range(r)
      BY ONLY <3>1, RangeOfConcat
    <3> QED
      BY <3>1, <3>2 DEF q, r
  <2>8. CASE untyped_expectations[m] = << >>
    BY <2>1, <2>8 DEF Awaits
  <2>9. CASE m \in Range(todo)
    <3>1. m = Head(todo) \/ m \in Range(Tail(todo))
      BY <1>2, <2>2, <2>9, HeadOrTail
    <3>2. untyped_expectations'[m] = << >> \/ m \in Range(todo')
      BY <2>1, <2>2, <2>7, <3>1
    <3> QED
      BY <3>2 DEF Awaits
  <2>10. CASE \E e \in Expectation \ freed : \E o \in Declared[e].owns :
                m \in Range(Objects[o])
    <3>1. PICK e \in Expectation \ freed : \E o \in Declared[e].owns :
                 m \in Range(Objects[o])
      BY <2>10
    <3>2. CASE e \in Expectation \ freed'
      BY <3>1, <3>2 DEF Awaits
    <3>3. CASE e \in gone
      <4>1. PICK o \in Declared[e].owns : m \in Range(Objects[o])
        BY <3>1
      <4>2. o \in owned
        BY <2>4, <3>3, <4>1
      <4>3. m \in Range(todo')
        BY <2>5, <2>7, <4>1, <4>2
      <4> QED
        BY <4>3 DEF Awaits
    <3> QED
      BY <2>4, <3>1, <3>2, <3>3
  <2>11. CASE ~over /\ \E o \in DOMAIN Objects \ Owned : m \in Range(Objects[o])
    BY <2>1, <2>11 DEF Awaits
  <2> QED
    BY <2>8, <2>9, <2>10, <2>11 DEF Awaits
<1>10. CASE ~ (PerformAction(t) /\ Clears(call[t])) /\ ~EndTest(t)
              /\ ~VerifyMocker(t) /\ ~DeleteExpectations(t)
  <2>1. ASSUME NEW w \in Mocker, NEW a \in Argument, Invoke(t, w, a)
        PROVE  UNCHANGED <<untyped_expectations, todo, freed, over>>
    BY <2>1 DEF Invoke, verification
  <2>2. CASE PerformAction(t)
    BY <1>1, <1>10, <2>2 DEF PerformAction
  <2>3. CASE ReportCall(t)
    BY <1>1, <2>3 DEF ReportCall, verification
  <2>4. CASE Lock(t) \/ VerificationDone(t)
    BY <1>1, <2>4 DEF Lock, VerificationDone
  <2>5. CASE UninterestingCall(t) \/ UnexpectedCall(t) \/ MatchingCall(t)
    BY <1>1, <2>5 DEF UninterestingCall, UnexpectedCall, MatchingCall, verification
  <2> QED
    BY <1>1, <1>10, <2>1, <2>2, <2>3, <2>4, <2>5 DEF StepsOf, QuietSteps
<1> QED
  BY <1>6, <1>7, <1>8, <1>9, <1>10

LEMMA HeldUnchanged ==
  ASSUME UNCHANGED <<specs, untyped_expectations>>
  PROVE  Held' = Held
<1>1. UNCHANGED <<last, immediate, untyped_expectations>>
  BY DEF specs
<1>2. Prerequisites' = Prerequisites
  BY <1>1 DEF Prerequisites
<1> QED
  BY <1>1, <1>2 DEF Held

LEMMA EverythingAwaitsKept ==
  ASSUME MocksInv, CallsTalk, VerifiesAlone, Placed, EverythingAwaits,
         NEW t \in Thread, StepsOf(t)
  PROVE  EverythingAwaits'
<1>1. \A m \in Mocker : Awaits(m)'
  BY AwaitsKept DEF EverythingAwaits
<1>2. \A u \in Thread \ {t} : pc'[u] = pc[u] /\ call'[u] = call[u]
  BY TalkKept
<1>3. \A u \in Thread \ {t} : pc[u] \notin Verifying
  BY OthersDoNotVerify
<1>4. \A p : Goto(t, p) => pc'[t] = p
  BY DEF MocksInv, Shape, Goto
<1>5. /\ UNCHANGED declared
      /\ \A s \in Sequence : last'[s] = last[s] \/ last'[s] = 0
  BY MockersOnlyLose
<1>6. declared = Len(Declared)
  BY BusyAfterSet DEF StepsOf
<1> DEFINE Ended == /\ \A s \in Sequence : last'[s] = 0
                    /\ \A u \in Thread : pc'[u] \in Verifying \cup {"idle"} /\ call'[u] = None
                    /\ \A u \in Thread : pc'[u] \in {"lock", "verify"} =>
                         Swept' \/ todo' # << >> \/ Expectation = {}
                    /\ (\A u \in Thread : pc'[u] = "idle") =>
                         \A m \in Mocker : untyped_expectations'[m] = << >>
<1>7. SUFFICES ASSUME over' PROVE Ended
  BY <1>1, <1>5, <1>6, <1>7 DEF EverythingAwaits
<1>8. CASE EndTest(t)
  <2>1. /\ last' = [s \in Sequence |-> 0] /\ UNCHANGED call
        /\ \A u \in Thread : pc[u] = "idle"
        /\ todo' = MockersOf(DOMAIN Objects \ Owned) /\ pc'[t] = "lock"
    BY <1>4, <1>8 DEF EndTest
  <2>2. \A u \in Thread : call[u] = None
    BY <2>1 DEF CallsTalk, Talks
  <2>3. todo' # << >> \/ Expectation = {}
    BY <2>1, TestOwnsAMock
  <2>4. "lock" \in Verifying /\ "lock" # "idle"
    BY DEF Verifying
  <2> QED
    BY <1>2, <2>1, <2>2, <2>3, <2>4
<1>9. CASE ~EndTest(t)
  <2>1. over
    BY <1>7, <1>9 DEF StepsOf, QuietSteps, Invoke, PerformAction, ReportCall, Lock,
       VerifyMocker, DeleteExpectations, VerificationDone, UninterestingCall,
       UnexpectedCall, MatchingCall
  <2>2. /\ \A s \in Sequence : last[s] = 0
        /\ \A u \in Thread : pc[u] \in Verifying \cup {"idle"} /\ call[u] = None
        /\ \A u \in Thread : pc[u] \in {"lock", "verify"} =>
             Swept \/ todo # << >> \/ Expectation = {}
        /\ \A m \in Mocker : Awaits(m)
    BY <2>1 DEF EverythingAwaits
  <2>3. \A s \in Sequence : last'[s] = 0
    BY <1>5, <2>2
  <2>4. \A u \in Thread \ {t} : pc'[u] = "idle" /\ call'[u] = None
    BY <1>2, <1>3, <2>2
  <2>5. pc[t] \in {"idle", "lock", "verify", "delete"} /\ call[t] = None
    BY <2>2 DEF Verifying
  <2>6. ASSUME pc'[t] \in Verifying, call'[t] = None,
               pc'[t] \in {"lock", "verify"} => Swept' \/ todo' # << >> \/ Expectation = {}
        PROVE  Ended
    <3>1. pc'[t] # "idle"
      BY <2>6 DEF Verifying
    <3>2. \A u \in Thread : pc'[u] \in {"lock", "verify"} => u = t
      BY <2>4
    <3> QED
      BY <2>3, <2>4, <2>6, <3>1, <3>2
  <2>7. CASE Lock(t)
    <3>1. /\ pc[t] = "lock" /\ pc'[t] = "verify" /\ "verify" \in Verifying
          /\ UNCHANGED <<specs, untyped_expectations, call, todo, freed>>
      BY <1>4, <2>7 DEF Lock, Verifying
    <3>2. Swept' = Swept
      BY <3>1, HeldUnchanged DEF Swept
    <3> QED
      BY <2>2, <2>5, <2>6, <3>1, <3>2
  <2>8. CASE VerifyMocker(t)
    <3>1. pc'[t] = "delete" /\ "delete" \in Verifying /\ UNCHANGED call
      BY <1>4, <2>8 DEF VerifyMocker, Verifying
    <3> QED
      BY <2>5, <2>6, <3>1
  <2>9. CASE DeleteExpectations(t)
    <3>1. /\ pc'[t] = "lock" /\ "lock" \in Verifying
          /\ UNCHANGED <<specs, untyped_expectations, call>>
          /\ freed' = freed \cup ((Expectation \ Held) \ freed)
      BY <1>4, <2>9 DEF DeleteExpectations, Verifying
    <3>2. Held' = Held
      BY <3>1, HeldUnchanged
    <3>3. Swept'
      BY <3>1, <3>2 DEF Swept
    <3> QED
      BY <2>5, <2>6, <3>1, <3>3
  <2>10. CASE VerificationDone(t)
    <3>1. /\ pc[t] = "verify" /\ todo = << >>
          /\ Goto(t, IF call[t] = None THEN "idle" ELSE "report")
          /\ UNCHANGED <<call, untyped_expectations>>
      BY <2>10 DEF VerificationDone
    <3>2. pc'[t] = "idle"
      BY <1>4, <2>5, <3>1
    <3>3. Swept \/ Expectation = {}
      BY <2>2, <3>1
    <3>4. \A m \in Mocker : untyped_expectations[m] = << >>
      BY <2>1, <2>2, <3>1, <3>3, AllVerified
    <3>5. \A u \in Thread : pc'[u] = "idle" /\ call'[u] = None
      BY <2>4, <2>5, <3>1, <3>2
    <3> QED
      BY <2>3, <3>1, <3>4, <3>5
  <2>11. CASE ~Lock(t) /\ ~VerifyMocker(t) /\ ~DeleteExpectations(t) /\ ~VerificationDone(t)
    <3>1. \A m \in Mocker, a \in Argument : ~Invoke(t, m, a)
      BY <2>1 DEF Invoke
    <3>2. ~PerformAction(t) /\ ~ReportCall(t)
      BY <2>5 DEF PerformAction, ReportCall
    <3>3. ~UninterestingCall(t) /\ ~UnexpectedCall(t) /\ ~MatchingCall(t)
      BY <2>5 DEF UninterestingCall, UnexpectedCall, MatchingCall
    <3> QED
      BY <1>9, <2>11, <3>1, <3>2, <3>3 DEF StepsOf, QuietSteps
  <2> QED
    BY <2>7, <2>8, <2>9, <2>10, <2>11
<1> QED
  BY <1>8, <1>9

(* A step of a thread keeps what a failure is reported for. *)
LEMMA ThreadStepExact ==
  ASSUME MocksInv, VerdictInv, NEW t \in Thread, StepsOf(t)
  PROVE  Exact' /\ TotalsAgree'
<1>1. /\ CallsTalk /\ VerifiesAlone /\ Placed /\ TotalsAgree /\ Exact
      /\ pc \in [Thread -> {"idle", "find", "uninteresting", "perform", "report"}
                             \cup Verifying]
      /\ call \in [Thread -> Call \cup {None}]
  BY DEF VerdictInv, MocksInv, Shape
<1>2. Talks(pc[t], call[t])
  BY <1>1 DEF CallsTalk
<1>3. ASSUME UNCHANGED <<specs, untyped_expectations, counts, log>>,
             reported' <=> reported \/ (IsBad(call[t]) /\ ~IsBad(call'[t])),
             IsBad(call'[t]) => IsBad(call[t])
      PROVE  Exact' /\ TotalsAgree'
  <2>1. UNCHANGED <<declared, untyped_expectations, call_count, log>>
    BY <1>3 DEF specs, counts
  <2>2. Exact'
    BY <1>1, <1>3, <2>1, QuietExact
  <2>3. TotalsAgree'
    BY <1>1, <2>1, TotalsKept
  <2> QED
    BY <2>2, <2>3
<1>4. ASSUME NEW m \in Mocker, NEW a \in Argument, Invoke(t, m, a)
      PROVE  Exact' /\ TotalsAgree'
  <2>1. /\ UNCHANGED <<specs, untyped_expectations, counts, log, reported>>
        /\ pc[t] = "idle"
        /\ call' = [call EXCEPT ![t] = [mocker |-> m, argument |-> a, exp |-> None,
                                        action |-> None, kind |-> "found", throws |-> FALSE]]
    BY <1>4 DEF Invoke
  <2>2. ~IsBad(call'[t])
    BY <1>1, <2>1 DEF IsBad
  <2>3. ~IsBad(call[t])
    BY <1>2, <2>1 DEF Talks, IsBad
  <2> QED
    BY <1>3, <2>1, <2>2, <2>3
<1>5. CASE ReportCall(t)
  <2>1. /\ UNCHANGED <<specs, untyped_expectations, counts, log>>
        /\ pc[t] = "report" /\ reported' = (reported \/ (call[t].kind # "expected"
                                                          /\ ~call[t].throws))
        /\ call' = [call EXCEPT ![t] = None]
    BY <1>5 DEF ReportCall
  <2>2. ~IsBad(call'[t])
    BY <1>1, <2>1 DEF IsBad
  <2>3. call[t] \in Call /\ call[t].kind # "found" /\ call[t] # None
    BY <1>2, <2>1, NoneIsNothing DEF Talks
  <2>4. call[t].kind \in {"found", "expected", "excessive", "unexpected"}
    BY <2>3 DEF Call
  <2>5. IsBad(call[t]) <=> call[t].kind # "expected" /\ ~call[t].throws
    BY <2>3, <2>4 DEF IsBad
  <2> QED
    BY <1>3, <2>1, <2>2, <2>5
<1>6. CASE PerformAction(t) \/ Lock(t) \/ DeleteExpectations(t) \/ VerificationDone(t)
  <2>1. UNCHANGED <<specs, untyped_expectations, counts, log, reported, call>>
    BY <1>6 DEF PerformAction, Lock, DeleteExpectations, VerificationDone
  <2> QED
    BY <1>3, <2>1
<1>7. CASE EndTest(t)
  <2>1. UNCHANGED <<declared, untyped_expectations, call_count, log, reported, call>>
    BY <1>7 DEF EndTest, counts
  <2>2. Exact'
    BY <1>1, <2>1, QuietExact
  <2>3. TotalsAgree'
    BY <1>1, <2>1, TotalsKept
  <2> QED
    BY <2>2, <2>3
<1>8. CASE VerifyMocker(t)
  <2>1. UNCHANGED <<log, call_count>>
    BY <1>8 DEF VerifyMocker, counts
  <2> QED
    BY <1>1, <1>8, <2>1, VerifyExact, TotalsKept
<1>9. CASE UninterestingCall(t) \/ UnexpectedCall(t) \/ MatchingCall(t)
  <2>1. Exact' /\ \E x \in Entry : LoggedFree(x) \/ LoggedTaken(x)
    BY <1>1, <1>9, CallExact
  <2> QED
    BY <1>1, <2>1, TotalsKept
<1> QED
  BY <1>4, <1>5, <1>6, <1>7, <1>8, <1>9 DEF StepsOf, QuietSteps

LEMMA VerdictStep ==
  ASSUME MocksInv, MocksInv', VerdictInv, [Next]_vars
  PROVE  VerdictInv'
<1>1. Placed'
  BY PlacedKept DEF VerdictInv
<1>2. ASSUME NEW t \in Thread, StepsOf(t) PROVE VerdictInv'
  <2>1. CallsTalk' /\ VerifiesAlone'
    BY <1>2, TalkKept, AloneKept DEF VerdictInv
  <2>2. Exact' /\ TotalsAgree'
    BY <1>2, ThreadStepExact
  <2>3. EverythingAwaits'
    BY <1>2, EverythingAwaitsKept DEF VerdictInv
  <2>4. NothingYet'
    <3>1. declared = Len(Declared) /\ UNCHANGED declared
      BY <1>2, BusyAfterSet, MockersOnlyLose DEF StepsOf
    <3> QED
      BY <3>1, ExpectationsAreNumbers DEF NothingYet
  <2> QED
    BY <1>1, <2>1, <2>2, <2>3, <2>4 DEF VerdictInv
<1>3. CASE ExpectCall
  <2>1. CallsTalk' /\ VerifiesAlone' /\ NothingYet' /\ Exact' /\ EverythingAwaits'
    BY <1>3, ExpectCallKeepsVerdict
  <2>2. UNCHANGED <<log, call_count>>
    BY <1>3 DEF ExpectCall, counts
  <2>3. TotalsAgree'
    BY <2>2, TotalsKept DEF VerdictInv
  <2> QED
    BY <1>1, <2>1, <2>3 DEF VerdictInv
<1>4. CASE UNCHANGED vars
  <2>1. UNCHANGED <<declared, last, immediate, untyped_expectations, call_count, retired,
                    pc, call, mutex, todo, trash, freed, reported, over, log>>
    BY <1>4 DEF vars, specs, counts, verification
  <2>2. CallsTalk' /\ VerifiesAlone' /\ NothingYet' /\ TotalsAgree'
    BY <2>1, TotalsKept DEF VerdictInv, CallsTalk, VerifiesAlone, NothingYet
  <2>3. Exact'
    <3>1. Pending' <=> Pending
      BY <2>1 DEF Pending, IsBad
    <3>2. (\E e \in Expectation : Fails(e))' <=> \E e \in Expectation : Fails(e)
      BY <2>1, FaultUnchanged
    <3>3. (\E i \in 1 .. Len(log) : BadCall(log[i]))'
            <=> \E i \in 1 .. Len(log) : BadCall(log[i])
      BY <2>1 DEF BadCall, ErrorKind
    <3> QED
      BY <2>1, <3>1, <3>2, <3>3 DEF VerdictInv, Exact
  <2>4. Held' = Held
    BY <2>1, HeldUnchanged DEF specs
  <2>5. EverythingAwaits'
    BY <2>1, <2>4 DEF VerdictInv, EverythingAwaits, Awaits, Swept
  <2> QED
    BY <1>1, <2>2, <2>3, <2>5 DEF VerdictInv
<1> QED
  BY <1>2, <1>3, <1>4 DEF Next, Proceed, StepsOf, QuietSteps

(* Once the mocks are verified, every call in error whose action returned  *)
(* and every expectation that was called too rarely has been reported, and *)
(* nothing is reported without an error, for any statements, mocks that    *)
(* own one another, actions that clear them or throw, and threads:         *)
(* VerifyAndClearExpectationsLocked and UntypedInvokeWith of               *)
(* gmock-spec-builders.cc.                                                 *)
THEOREM ErrorsGetReported == Spec => []ErrorsAreReported
<1>1. Init => MocksInv /\ VerdictInv
  BY InitMocks, InitVerdict
<1>2. MocksInv /\ VerdictInv /\ [Next]_vars => MocksInv' /\ VerdictInv'
  BY MocksStep, VerdictStep
<1>3. MocksInv /\ VerdictInv => ErrorsAreReported
  <2> SUFFICES ASSUME MocksInv, VerdictInv, over, \A t \in Thread : pc[t] = "idle"
               PROVE  /\ TooFewCalls => reported
                      /\ \A i \in DOMAIN log : IsError(i) /\ ~log[i].throws => reported
                      /\ reported => TooFewCalls \/ \E i \in DOMAIN log : IsError(i)
    BY DEF ErrorsAreReported
  <2>1. log \in Seq(Entry) /\ DOMAIN log = 1 .. Len(log)
    BY DEF MocksInv, Shape
  <2>2. ~Pending
    BY DEF VerdictInv, CallsTalk, Talks, Pending, IsBad
  <2>3. \A e \in Expectation : Cleared(e)
    <3> SUFFICES ASSUME NEW e \in Expectation PROVE Cleared(e)
      OBVIOUS
    <3>1. Declared[e].mocker \in Mocker
      BY DeclaredType
    <3>2. declared = Len(Declared) /\ untyped_expectations[Declared[e].mocker] = << >>
      BY <3>1 DEF VerdictInv, EverythingAwaits
    <3>3. Range(<< >>) = {}
      BY DEF Range
    <3> QED
      BY <3>2, <3>3 DEF Cleared
  <2>4. TooFewCalls <=> \E e \in Expectation : Fails(e)
    <3> SUFFICES ASSUME NEW e \in Expectation
                 PROVE  Fails(e) <=> CallsOf(e, Len(log)) < Bounds(e)[1]
      BY DEF TooFewCalls
    <3>1. call_count[e] = Cardinality(Called(log, e))
      BY DEF VerdictInv, TotalsAgree, CountsCalls
    <3>2. CallsOf(e, Len(log)) = call_count[e]
      BY <3>1 DEF CallsOf, Called, CalledUpTo
    <3> QED
      BY <2>3, <3>2 DEF Fails
  <2>5. ASSUME NEW i \in 1 .. Len(log) PROVE IsError(i) <=> ErrorKind(log[i])
    <3>1. log[i].kind = "excessive" <=> Exceeds(log, i)
      BY <2>5 DEF VerdictInv, TotalsAgree, ExcessMarked
    <3>2. Exceeds(log, i) <=>
            \E e \in Expectation : log[i].exp = e /\ CallsOf(e, i) > Bounds(e)[2]
      BY DEF Exceeds, CallsOf, CalledUpTo
    <3> QED
      BY <3>1, <3>2 DEF IsError, ErrorKind
  <2>6. reported <=>
          \/ \E i \in 1 .. Len(log) : BadCall(log[i])
          \/ \E e \in Expectation : Fails(e)
    BY <2>2 DEF VerdictInv, Exact
  <2> QED
    BY <2>1, <2>4, <2>5, <2>6 DEF BadCall
<1> QED
  BY <1>1, <1>2, <1>3, PTL DEF Spec

-----------------------------------------------------------------------------
(***************************************************************************)
(* The type invariant.  That counts stay within MaxCalls takes the calls   *)
(* into account that are not in the log yet.                               *)
(***************************************************************************)
Waiting == {u \in Thread : pc[u] \in {"find", "uninteresting"}}
CallsAreBounded == Len(log) + Cardinality(Waiting) <= MaxCalls
VerifierHasMutex == \A t \in Thread : mutex = t <=> pc[t] = "verify"
Plain ==
  /\ trash \subseteq Expectation /\ freed \subseteq Expectation
  /\ reported \in BOOLEAN /\ over \in BOOLEAN

TypeInv == CallsAreBounded /\ VerifierHasMutex /\ Plain

LEMMA WaitingFinite ==
  IsFiniteSet(Waiting) /\ Cardinality(Waiting) \in Nat
<1>1. Waiting \subseteq Thread
  BY DEF Waiting
<1> QED
  BY <1>1, ThreadsAreFinite, FS_Subset, FS_CardinalityType

LEMMA WaitingIs ==
  ASSUME MocksInv, CallsTalk, NEW t \in Thread, StepsOf(t)
  PROVE  /\ pc'[t] \in {"find", "uninteresting"} => Waiting' = Waiting \cup {t}
         /\ pc'[t] \notin {"find", "uninteresting"} => Waiting' = Waiting \ {t}
<1>1. \A u \in Thread \ {t} : pc'[u] = pc[u]
  BY TalkKept
<1> QED
  BY <1>1 DEF Waiting

LEMMA PlainKept ==
  ASSUME MocksInv, VerifiesAlone, Plain, NEW t \in Thread, StepsOf(t)
  PROVE  Plain'
<1>1. ASSUME UNCHANGED <<trash, freed>> PROVE trash' \subseteq Expectation /\ freed' \subseteq Expectation
  BY <1>1 DEF Plain
<1>2. trash' \subseteq Expectation /\ freed' \subseteq Expectation
  <2>1. CASE VerifyMocker(t)
    <3>1. trash' = Range(untyped_expectations[Head(todo)]) /\ UNCHANGED freed
      BY <2>1 DEF VerifyMocker
    <3>2. todo \in Seq(Mocker) /\ todo # << >>
      BY <2>1 DEF VerifiesAlone, VerifyMocker
    <3>3. Head(todo) \in Mocker
      BY <3>2
    <3>4. untyped_expectations[Head(todo)] \in Seq(Expectation)
      BY <3>3 DEF MocksInv, Shape
    <3> QED
      BY <3>1, <3>4 DEF Plain, Range
  <2>2. CASE DeleteExpectations(t)
    BY <2>2 DEF DeleteExpectations, Plain
  <2>3. CASE ~VerifyMocker(t) /\ ~DeleteExpectations(t)
    BY <1>1, <2>3 DEF StepsOf, QuietSteps, Invoke, PerformAction, ReportCall, EndTest, Lock,
       VerificationDone, UninterestingCall, UnexpectedCall, MatchingCall, verification
  <2> QED
    BY <2>1, <2>2, <2>3
<1>3. over' = over \/ over' = TRUE
  BY DEF StepsOf, QuietSteps, Invoke, PerformAction, ReportCall, EndTest, Lock,
     VerifyMocker, DeleteExpectations, VerificationDone, UninterestingCall,
     UnexpectedCall, MatchingCall
<1>4. reported' \in BOOLEAN
  <2>1. CASE VerifyMocker(t)
    BY <2>1 DEF VerifyMocker
  <2>2. CASE ReportCall(t)
    BY <2>2 DEF ReportCall
  <2>3. CASE UninterestingCall(t)
    BY <2>3 DEF UninterestingCall
  <2>4. CASE ~VerifyMocker(t) /\ ~ReportCall(t) /\ ~UninterestingCall(t)
    <3>1. UNCHANGED reported
      BY <2>4 DEF StepsOf, QuietSteps, Invoke, PerformAction, EndTest, Lock,
         DeleteExpectations, VerificationDone, UnexpectedCall, MatchingCall
    <3> QED
      BY <3>1 DEF Plain
  <2> QED
    BY <2>1, <2>2, <2>3, <2>4
<1> QED
  BY <1>2, <1>3, <1>4 DEF Plain

LEMMA TypeStep ==
  ASSUME MocksInv, CallsTalk, VerifiesAlone, TypeInv, NEW t \in Thread, StepsOf(t)
  PROVE  CallsAreBounded' /\ VerifierHasMutex'
<1> DEFINE W == {"find", "uninteresting"}
           Told == CallsAreBounded' /\ VerifierHasMutex'
<1> SUFFICES Told
  OBVIOUS
<1>1. /\ \A u \in Thread \ {t} : pc'[u] = pc[u] /\ pc[u] \notin Verifying
      /\ \A p : Goto(t, p) => pc'[t] = p
      /\ None \notin Thread /\ log \in Seq(Entry) /\ Len(log) \in Nat
      /\ MaxCalls \in Nat
      /\ pc[t] \in W => t \in Waiting
      /\ pc[t] \notin W => t \notin Waiting
  BY TalkKept, OthersDoNotVerify, NoneIsNothing, MaxCallsType
  DEF MocksInv, Shape, Goto, Waiting
<1>2. \A u \in Thread \ {t} : pc[u] # "verify" /\ pc'[u] # "verify" /\ mutex # u
  BY <1>1 DEF Verifying, TypeInv, VerifierHasMutex
<1>3. IsFiniteSet(Waiting) /\ Cardinality(Waiting) \in Nat
      /\ Len(log) + Cardinality(Waiting) <= MaxCalls
  BY WaitingFinite DEF TypeInv, CallsAreBounded
<1>4. /\ pc'[t] \in W => Waiting' = Waiting \cup {t}
      /\ pc'[t] \notin W => Waiting' = Waiting \ {t}
  BY WaitingIs
<1>5. mutex = t <=> pc[t] = "verify"
  BY DEF TypeInv, VerifierHasMutex
<1>6. ASSUME UNCHANGED log, pc[t] \notin W, pc'[t] \notin W PROVE CallsAreBounded'
  <2>1. Waiting' = Waiting
    BY <1>1, <1>4, <1>6
  <2> QED
    BY <1>3, <1>6, <2>1 DEF CallsAreBounded
<1>7. ASSUME mutex' \in {mutex, None, t}, mutex' = t <=> pc'[t] = "verify"
      PROVE  VerifierHasMutex'
  BY <1>1, <1>2, <1>7 DEF VerifierHasMutex
<1> HIDE DEF W
<1>8. ASSUME NEW m \in Mocker, NEW a \in Argument, Invoke(t, m, a) PROVE Told
  <2>1. /\ pc[t] = "idle" /\ UNCHANGED <<log, mutex>>
        /\ Goto(t, IF untyped_expectations[m] = << >> THEN "uninteresting" ELSE "find")
        /\ Len(log) + Cardinality(Waiting) < MaxCalls
    BY <1>8 DEF Invoke, verification, Waiting
  <2>2. pc'[t] \in W /\ pc[t] \notin W /\ pc'[t] # "verify"
    BY <1>1, <2>1 DEF W
  <2>3. Cardinality(Waiting') = Cardinality(Waiting) + 1
    BY <1>1, <1>3, <1>4, <2>2, FS_AddElement
  <2>4. CallsAreBounded'
    BY <1>1, <1>3, <2>1, <2>3 DEF CallsAreBounded
  <2> QED
    BY <1>5, <1>7, <2>1, <2>2, <2>4
<1>9. ASSUME UninterestingCall(t) \/ UnexpectedCall(t) \/ MatchingCall(t) PROVE Told
  <2>1. /\ pc[t] \in {"find", "uninteresting"} /\ UNCHANGED mutex
        /\ pc'[t] \in {"perform", "idle"}
    BY <1>1, <1>9 DEF UninterestingCall, UnexpectedCall, MatchingCall, verification
  <2>2. pc[t] \in W /\ pc'[t] \notin W /\ pc[t] # "verify" /\ pc'[t] # "verify"
    BY <2>1 DEF W
  <2>3. PICK x : log' = Append(log, x)
    BY <1>9 DEF UninterestingCall, UnexpectedCall, MatchingCall, Logged
  <2>4. Len(log') = Len(log) + 1
    BY <1>1, <2>3
  <2>5. Cardinality(Waiting') = Cardinality(Waiting) - 1
    BY <1>1, <1>3, <1>4, <2>2, FS_RemoveElement
  <2>6. CallsAreBounded'
    BY <1>1, <1>3, <2>4, <2>5 DEF CallsAreBounded
  <2> QED
    BY <1>5, <1>7, <2>1, <2>2, <2>6
<1>10. CASE PerformAction(t) \/ ReportCall(t) \/ EndTest(t) \/ DeleteExpectations(t)
  <2>1. /\ pc[t] \in {"perform", "report", "idle", "delete"} /\ UNCHANGED <<mutex, log>>
        /\ pc'[t] \in {"lock", "report", "idle"}
    BY <1>1, <1>10 DEF PerformAction, ReportCall, EndTest, DeleteExpectations, verification
  <2>2. pc[t] \notin W /\ pc'[t] \notin W /\ pc[t] # "verify" /\ pc'[t] # "verify"
    BY <2>1 DEF W
  <2> QED
    BY <1>5, <1>6, <1>7, <2>1, <2>2
<1>11. CASE Lock(t)
  <2>1. pc[t] = "lock" /\ pc'[t] = "verify" /\ mutex' = t /\ UNCHANGED log
    BY <1>1, <1>11 DEF Lock
  <2>2. pc[t] \notin W /\ pc'[t] \notin W
    BY <2>1 DEF W
  <2> QED
    BY <1>6, <1>7, <2>1, <2>2
<1>12. CASE VerifyMocker(t) \/ VerificationDone(t)
  <2>1. /\ pc[t] = "verify" /\ mutex' = None /\ UNCHANGED log
        /\ pc'[t] \in {"delete", "idle", "report"}
    BY <1>1, <1>12 DEF VerifyMocker, VerificationDone
  <2>2. pc[t] \notin W /\ pc'[t] \notin W /\ pc'[t] # "verify"
    BY <2>1 DEF W
  <2> QED
    BY <1>1, <1>6, <1>7, <2>1, <2>2
<1> QED
  BY <1>8, <1>9, <1>10, <1>11, <1>12 DEF StepsOf, QuietSteps

(* What the variables of the mocks hold, for any number of calls: TypeOK.  *)
THEOREM MocksType == Spec => []TypeOK
<1>1. Init => MocksInv /\ VerdictInv /\ TypeInv
  <2> SUFFICES ASSUME Init PROVE TypeInv
    BY InitMocks, InitVerdict
  <2>1. Waiting = {} /\ Cardinality({}) = 0 /\ Len(log) = 0
    BY FS_EmptySet DEF Init, Waiting
  <2>2. CallsAreBounded
    BY <2>1, MaxCallsType DEF CallsAreBounded
  <2>3. VerifierHasMutex /\ Plain
    BY NoneIsNothing DEF Init, VerifierHasMutex, Plain
  <2> QED
    BY <2>2, <2>3 DEF TypeInv
<1>2. ASSUME MocksInv, VerdictInv, TypeInv, [Next]_vars
      PROVE  MocksInv' /\ VerdictInv' /\ TypeInv'
  <2>1. MocksInv' /\ VerdictInv'
    BY <1>2, MocksStep, VerdictStep
  <2>2. ASSUME NEW t \in Thread, StepsOf(t) PROVE TypeInv'
    <3>1. CallsTalk /\ VerifiesAlone /\ Plain
      BY <1>2 DEF VerdictInv, TypeInv
    <3> QED
      BY <1>2, <2>2, <3>1, TypeStep, PlainKept DEF TypeInv
  <2>3. CASE ExpectCall \/ UNCHANGED vars
    <3>1. UNCHANGED <<pc, mutex, trash, freed, reported, over, log>>
      BY <2>3 DEF ExpectCall, verification, vars
    <3>2. Waiting' = Waiting
      BY <3>1 DEF Waiting
    <3> QED
      BY <1>2, <2>1, <3>1, <3>2 DEF TypeInv, CallsAreBounded, VerifierHasMutex, Plain
  <2> QED
    BY <1>2, <2>1, <2>2, <2>3 DEF Next, Proceed, StepsOf, QuietSteps
<1>3. ASSUME MocksInv, VerdictInv, TypeInv PROVE TypeOK
  <2>1. Shape /\ CallsTalk /\ todo \in Seq(Mocker)
    BY <1>3 DEF MocksInv, VerdictInv, VerifiesAlone
  <2>2. \A e \in Expectation : immediate[e] \subseteq 1 .. e - 1
    BY <2>1, ExpectationsAreNumbers DEF Shape, Downward
  <2>3. call_count \in [Expectation -> 0 .. MaxCalls]
    <3>1. call_count \in [Expectation -> Nat] /\ Len(log) \in Nat
      BY <2>1 DEF Shape
    <3>2. Len(log) <= MaxCalls
      BY <1>3, <3>1, WaitingFinite, MaxCallsType DEF TypeInv, CallsAreBounded
    <3>3. ASSUME NEW e \in Expectation PROVE call_count[e] <= MaxCalls
      <4>1. IsFiniteSet(1 .. Len(log)) /\ Cardinality(1 .. Len(log)) = Len(log)
        <5>1. \A k \in Nat : IsFiniteSet(1 .. k) /\ Cardinality(1 .. k) = k
          BY FS_Interval
        <5> QED
          BY <3>1, <5>1
      <4>2. Called(log, e) \subseteq 1 .. Len(log)
        BY DEF Called, CalledUpTo
      <4>3. Cardinality(Called(log, e)) <= Cardinality(1 .. Len(log))
        BY <4>1, <4>2, FS_Subset
      <4>4. call_count[e] = Cardinality(Called(log, e)) /\ call_count[e] \in Nat
        BY <1>3, <3>1 DEF VerdictInv, TotalsAgree, CountsCalls
      <4> QED
        BY <3>1, <3>2, <4>1, <4>3, <4>4, MaxCallsType
    <3> QED
      BY <3>1, <3>3, MaxCallsType
  <2>4. \A t \in Thread : call[t] = None => pc[t] \in Verifying \cup {"idle"}
    <3> SUFFICES ASSUME NEW t \in Thread, call[t] = None
                 PROVE  pc[t] \in Verifying \cup {"idle"}
      OBVIOUS
    <3>1. Talks(pc[t], None) /\ None \notin Call
      BY <2>1, NoneIsNothing DEF CallsTalk
    <3>2. pc[t] \in {"idle", "find", "uninteresting", "perform", "report"} \cup Verifying
      BY <2>1 DEF Shape
    <3> QED
      BY <3>1, <3>2 DEF Talks
  <2> QED
    BY <1>3, <2>1, <2>2, <2>3, <2>4
    DEF TypeOK, Shape, TypeInv, VerifierHasMutex, Plain
<1> QED
  BY <1>1, <1>2, <1>3, PTL DEF Spec

-----------------------------------------------------------------------------
(***************************************************************************)
(* What the registry knows (MockRegistry).                                 *)
(***************************************************************************)
Phases == {"none", "MockClass()", "alive", "~MockClass()", "members"}
MockedMethods == UNION {m.methods : m \in Mockable}
MockLines == {u.line : u \in MockUse} \cup {NoLine}

ObjectType ==
  [phase : Phases, kind : Kinds, methods : SUBSET MockedMethods,
   registered : SUBSET MockedMethods, used : BOOLEAN, first_line : MockLines,
   may_leak : BOOLEAN, left : BOOLEAN]

(* What an object's entry should be, and when it should have one.          *)
HasEntry(object) ==
  object.registered # {} \/ (~object.used /\ (object.may_leak \/ object.left))

EntryOf(object) ==
  [leakable |-> object.may_leak \/ object.left, function_mockers |-> object.registered,
   first_used_line |-> object.first_line]

(* An object that is not there has nothing, and one that was used keeps its*)
(* mockers until they are destroyed.                                       *)
Consistent(object) ==
  /\ object.registered \subseteq object.methods
  /\ object.registered # {} => object.used
  /\ object.used /\ object.phase # "members" => object.registered # {}
  /\ ~object.used => object.first_line = NoLine
  /\ object.phase = "none" => object.registered = {} /\ ~object.used /\ ~object.may_leak
  /\ object.phase # "none" => object.methods # {}

DerivedReaction(kind) ==
  CASE kind = "NiceMock" -> "kAllow" [] kind = "NaggyMock" -> "kWarn"
    [] kind = "StrictMock" -> "kFail"

HasReaction(object) == object.phase = "alive" /\ object.kind # "plain"

KnownAs(a, object) ==
  /\ a \in DOMAIN states_ <=> HasEntry(object)
  /\ HasEntry(object) => states_[a] = EntryOf(object)
  /\ a \in DOMAIN g_uninteresting_call_reaction <=> HasReaction(object)
  /\ HasReaction(object) => g_uninteresting_call_reaction[a] = DerivedReaction(object.kind)

InOrderAt(a) ==
  /\ mock_objects[a] \in ObjectType
  /\ Consistent(mock_objects[a])
  /\ KnownAs(a, mock_objects[a])

StatementsUnderWay ==
  \A u \in being_set :
    /\ u \in MockUse /\ u.at \in Addresses
    /\ InBody(u.at) /\ u.method \in mock_objects[u.at].registered

RegistryInv ==
  /\ DOMAIN mock_objects = Addresses
  /\ DOMAIN states_ \subseteq Addresses
  /\ DOMAIN g_uninteresting_call_reaction \subseteq Addresses
  /\ \A a \in Addresses : InOrderAt(a)
  /\ StatementsUnderWay

(* A step that is about one address leaves the others as they are.         *)
SameEntry(map, next, b) ==
  /\ b \in DOMAIN next <=> b \in DOMAIN map
  /\ b \in DOMAIN map => next[b] = map[b]

OnlyAt(a) ==
  /\ DOMAIN mock_objects' = DOMAIN mock_objects
  /\ DOMAIN states_' \subseteq DOMAIN states_ \cup {a}
  /\ DOMAIN g_uninteresting_call_reaction' \subseteq DOMAIN g_uninteresting_call_reaction \cup {a}
  /\ \A b \in Addresses \ {a} :
       /\ mock_objects'[b] = mock_objects[b]
       /\ SameEntry(states_, states_', b)
       /\ SameEntry(g_uninteresting_call_reaction, g_uninteresting_call_reaction', b)

LEMMA OthersStay ==
  ASSUME RegistryInv, NEW a \in Addresses, OnlyAt(a), InOrderAt(a)', StatementsUnderWay'
  PROVE  RegistryInv'
<1>1. \A b \in Addresses : InOrderAt(b)'
  <2> SUFFICES ASSUME NEW b \in Addresses, b # a PROVE InOrderAt(b)'
    OBVIOUS
  <2>1. mock_objects'[b] = mock_objects[b] /\ InOrderAt(b)
    BY DEF OnlyAt, RegistryInv
  <2>2. KnownAs(b, mock_objects[b])'
    <3>1. /\ SameEntry(states_, states_', b)
          /\ SameEntry(g_uninteresting_call_reaction, g_uninteresting_call_reaction', b)
      BY DEF OnlyAt
    <3> QED
      BY <2>1, <3>1 DEF KnownAs, InOrderAt, SameEntry
  <2> QED
    BY <2>1, <2>2 DEF InOrderAt
<1> QED
  BY <1>1 DEF RegistryInv, OnlyAt, Addresses

(* What the operations on the tables do.                                   *)
LEMMA StoredIn ==
  ASSUME NEW map, NEW a, NEW value
  PROVE  /\ DOMAIN Stored(map, a, value) = DOMAIN map \cup {a}
         /\ Stored(map, a, value)[a] = value
         /\ \A b : b # a => SameEntry(map, Stored(map, a, value), b)
BY DEF Stored, SameEntry

LEMMA ErasedFrom ==
  ASSUME NEW map, NEW a
  PROVE  /\ DOMAIN Erased(map, a) = DOMAIN map \ {a}
         /\ \A b : b # a => SameEntry(map, Erased(map, a), b)
BY DEF Erased, SameEntry

LEMMA EntryStays == ASSUME NEW map, NEW b PROVE SameEntry(map, map, b)
BY DEF SameEntry

LEMMA ObjectChanged ==
  ASSUME RegistryInv, NEW a \in Addresses, NEW object,
         mock_objects' = [mock_objects EXCEPT ![a] = object]
  PROVE  /\ DOMAIN mock_objects' = DOMAIN mock_objects
         /\ mock_objects'[a] = object
         /\ \A b \in Addresses \ {a} : mock_objects'[b] = mock_objects[b]
BY DEF RegistryInv

(* Statements under way keep what they need.                               *)
LEMMA StatementsStay ==
  ASSUME RegistryInv, NEW a \in Addresses, being_set' \subseteq being_set,
         \A b \in Addresses \ {a} : mock_objects'[b] = mock_objects[b],
         \/ NoStatementAt(a)
         \/ InBody(a)' /\ mock_objects[a].registered \subseteq mock_objects'[a].registered
  PROVE  StatementsUnderWay'
<1> SUFFICES ASSUME NEW u \in being_set'
             PROVE  /\ u \in MockUse /\ u.at \in Addresses /\ InBody(u.at)'
                    /\ u.method \in mock_objects'[u.at].registered
  BY DEF StatementsUnderWay, Addresses
<1>1. /\ u \in MockUse /\ u.at \in Addresses /\ InBody(u.at)
      /\ u.method \in mock_objects[u.at].registered
  BY DEF RegistryInv, StatementsUnderWay
<1>2. CASE u.at = a
  <2>1. ~ NoStatementAt(a)
    BY <1>2 DEF NoStatementAt
  <2> QED
    BY <1>1, <1>2, <2>1
<1>3. CASE u.at # a
  <2>1. mock_objects'[u.at] = mock_objects[u.at]
    BY <1>1, <1>3
  <2> QED
    BY <1>1, <2>1 DEF InBody
<1> QED
  BY <1>2, <1>3

(* A step between two phases in which an object has the same entry.        *)
LEMMA PhaseChanged ==
  ASSUME RegistryInv, NEW a \in Addresses, NEW phase \in Phases \ {"none"},
         mock_objects' = [mock_objects EXCEPT ![a].phase = phase],
         mock_objects[a].phase \notin {"none", "members"}, NoStatementAt(a),
         UNCHANGED <<states_, being_set>>,
         DOMAIN g_uninteresting_call_reaction'
           \subseteq DOMAIN g_uninteresting_call_reaction \cup {a},
         \A b \in Addresses \ {a} :
           SameEntry(g_uninteresting_call_reaction, g_uninteresting_call_reaction', b),
         a \in DOMAIN g_uninteresting_call_reaction'
           <=> phase = "alive" /\ mock_objects[a].kind # "plain",
         a \in DOMAIN g_uninteresting_call_reaction' =>
           g_uninteresting_call_reaction'[a] = DerivedReaction(mock_objects[a].kind)
  PROVE  RegistryInv'
<1> DEFINE object == mock_objects[a]
           next == [object EXCEPT !.phase = phase]
<1>1. object \in ObjectType /\ Consistent(object) /\ KnownAs(a, object)
  BY DEF RegistryInv, InOrderAt
<1>2. mock_objects' = [mock_objects EXCEPT ![a] = next]
  OBVIOUS
<1>3. /\ DOMAIN mock_objects' = DOMAIN mock_objects
      /\ mock_objects'[a] = next
      /\ \A b \in Addresses \ {a} : mock_objects'[b] = mock_objects[b]
  <2> HIDE DEF next
  <2> QED
    BY <1>2, ObjectChanged
<1>4. /\ next \in ObjectType /\ next.phase = phase /\ next.kind = object.kind
      /\ next.methods = object.methods /\ next.registered = object.registered
      /\ next.used = object.used /\ next.first_line = object.first_line
      /\ next.may_leak = object.may_leak /\ next.left = object.left
  BY <1>1 DEF ObjectType
<1> HIDE DEF next
<1>5. Consistent(next)
  BY <1>1, <1>4 DEF Consistent
<1>6. HasEntry(next) <=> HasEntry(object)
  BY <1>4 DEF HasEntry
<1>7. EntryOf(next) = EntryOf(object)
  BY <1>4 DEF EntryOf
<1>8. HasReaction(next) <=> a \in DOMAIN g_uninteresting_call_reaction'
  BY <1>4 DEF HasReaction
<1>9. KnownAs(a, mock_objects[a])'
  <2>1. a \in DOMAIN states_' <=> HasEntry(next)
    BY <1>1, <1>6 DEF KnownAs
  <2>2. HasEntry(next) => states_'[a] = EntryOf(next)
    BY <1>1, <1>6, <1>7 DEF KnownAs
  <2>3. HasReaction(next) => g_uninteresting_call_reaction'[a] = DerivedReaction(next.kind)
    BY <1>4, <1>8
  <2> QED
    BY <1>3, <1>8, <2>1, <2>2, <2>3 DEF KnownAs
<1>10. InOrderAt(a)'
  BY <1>3, <1>4, <1>5, <1>9 DEF InOrderAt
<1>11. OnlyAt(a)
  BY <1>3, EntryStays DEF OnlyAt
<1>12. StatementsUnderWay'
  BY <1>3, StatementsStay
<1> QED
  BY <1>10, <1>11, <1>12, OthersStay

(* A step that is about the entry of one object.                           *)
LEMMA EntryChanged ==
  ASSUME RegistryInv, NEW a \in Addresses, NEW object,
         mock_objects' = [mock_objects EXCEPT ![a] = object],
         object \in ObjectType, Consistent(object),
         HasReaction(object) <=> HasReaction(mock_objects[a]),
         object.kind = mock_objects[a].kind \/ ~ HasReaction(object),
         UNCHANGED g_uninteresting_call_reaction,
         DOMAIN states_' \subseteq DOMAIN states_ \cup {a},
         \A b \in Addresses \ {a} : SameEntry(states_, states_', b),
         a \in DOMAIN states_' <=> HasEntry(object),
         HasEntry(object) => states_'[a] = EntryOf(object),
         StatementsUnderWay'
  PROVE  RegistryInv'
<1>1. KnownAs(a, mock_objects[a])
  BY DEF RegistryInv, InOrderAt
<1>2. KnownAs(a, object)'
  BY <1>1 DEF KnownAs
<1>3. /\ DOMAIN mock_objects' = DOMAIN mock_objects
      /\ mock_objects'[a] = object
      /\ \A b \in Addresses \ {a} : mock_objects'[b] = mock_objects[b]
  BY ObjectChanged
<1>4. InOrderAt(a)'
  BY <1>2, <1>3 DEF InOrderAt
<1>5. OnlyAt(a)
  BY <1>3, EntryStays DEF OnlyAt
<1> QED
  BY <1>4, <1>5, OthersStay

(* What the invariant says of one address.                                 *)
LEMMA TablesOf ==
  ASSUME RegistryInv, NEW a \in Addresses
  PROVE  /\ mock_objects[a] \in ObjectType /\ Consistent(mock_objects[a])
         /\ KnownAs(a, mock_objects[a])
BY DEF RegistryInv, InOrderAt

LEMMA ConstructMockClassKeeps ==
  ASSUME RegistryInv, NEW m \in Mockable, ConstructMockClass(m)
  PROVE  RegistryInv'
<1> DEFINE a == m.at
           object == Unused("MockClass()", m.kind, m.methods, mock_objects[m.at].left)
<1>1. a \in Addresses
  BY DEF Addresses
<1>2. /\ mock_objects[a] \in ObjectType /\ Consistent(mock_objects[a])
      /\ KnownAs(a, mock_objects[a]) /\ mock_objects[a].phase = "none"
  BY <1>1, TablesOf DEF ConstructMockClass, Now
<1>3. m.kind \in Kinds /\ m.methods # {} /\ m.methods \subseteq MockedMethods
  BY MocksHaveMethods DEF MockedMethods
<1>4. object = [phase |-> "MockClass()", kind |-> m.kind, methods |-> m.methods,
                registered |-> {}, used |-> FALSE, first_line |-> NoLine, may_leak |-> FALSE,
                left |-> mock_objects[a].left]
  BY DEF Unused
<1>5. object \in ObjectType
  <2>1. mock_objects[a].left \in BOOLEAN
    BY <1>2 DEF ObjectType
  <2>2. NoLine \in MockLines /\ "MockClass()" \in Phases
    BY DEF MockLines, Phases
  <2>3. [phase |-> "MockClass()", kind |-> m.kind, methods |-> m.methods, registered |-> {},
         used |-> FALSE, first_line |-> NoLine, may_leak |-> FALSE,
         left |-> mock_objects[a].left] \in ObjectType
    BY <1>3, <2>1, <2>2 DEF ObjectType
  <2> HIDE DEF object
  <2> QED
    BY <1>4, <2>3
<1>6. Consistent(object) /\ ~ HasReaction(object) /\ ~ HasReaction(mock_objects[a])
  BY <1>2, <1>3, <1>4 DEF Consistent, HasReaction
<1>7. /\ HasEntry(object) <=> HasEntry(mock_objects[a])
      /\ HasEntry(object) => EntryOf(object) = EntryOf(mock_objects[a])
  BY <1>2, <1>4 DEF HasEntry, EntryOf, Consistent, ObjectType
<1>8. mock_objects' = [mock_objects EXCEPT ![a] = object]
  BY DEF ConstructMockClass
<1> HIDE DEF object
<1>9. NoStatementAt(a)
  BY <1>2 DEF RegistryInv, StatementsUnderWay, NoStatementAt, InBody
<1>10. UNCHANGED <<states_, g_uninteresting_call_reaction, being_set>>
  BY DEF ConstructMockClass
<1>11. \A b \in Addresses \ {a} : mock_objects'[b] = mock_objects[b]
  BY <1>1, <1>8, ObjectChanged
<1>12. StatementsUnderWay'
  BY <1>1, <1>9, <1>10, <1>11, StatementsStay
<1>13. /\ a \in DOMAIN states_' <=> HasEntry(object)
       /\ HasEntry(object) => states_'[a] = EntryOf(object)
  BY <1>2, <1>7, <1>10 DEF KnownAs
<1>14. \A b \in Addresses \ {a} : SameEntry(states_, states_', b)
  BY <1>10, EntryStays
<1> HIDE DEF a
<1> QED
  BY <1>1, <1>5, <1>6, <1>8, <1>10, <1>12, <1>13, <1>14, EntryChanged

LEMMA DestructorsKeep ==
  ASSUME RegistryInv, NEW a \in Addresses,
         MockClassThrows(a) \/ ConstructDerived(a) \/ DestroyDerived(a) \/ DestroyMockClass(a)
  PROVE  RegistryInv'
<1>1. /\ mock_objects[a] \in ObjectType /\ Consistent(mock_objects[a])
      /\ KnownAs(a, mock_objects[a])
  BY TablesOf
<1>2. mock_objects[a].kind \in Kinds
  BY <1>1 DEF ObjectType
<1> DEFINE g == g_uninteresting_call_reaction
           kind == mock_objects[a].kind
<1>3. ASSUME NEW phase \in {"alive", "~MockClass()", "members"},
             mock_objects' = [mock_objects EXCEPT ![a].phase = phase],
             mock_objects[a].phase \notin {"none", "members"}, NoStatementAt(a),
             UNCHANGED <<states_, being_set>>,
             DOMAIN g' \subseteq DOMAIN g \cup {a},
             \A b \in Addresses \ {a} : SameEntry(g, g', b),
             a \in DOMAIN g' <=> phase = "alive" /\ kind # "plain",
             a \in DOMAIN g' => g'[a] = DerivedReaction(kind)
      PROVE  RegistryInv'
  <2>1. phase \in Phases \ {"none"}
    BY DEF Phases
  <2> QED
    BY <1>3, <2>1, PhaseChanged
<1>4. ASSUME MockClassThrows(a) \/ DestroyMockClass(a) PROVE RegistryInv'
  <2>1. /\ mock_objects' = [mock_objects EXCEPT ![a].phase = "members"]
        /\ mock_objects[a].phase \in {"MockClass()", "~MockClass()"} /\ NoStatementAt(a)
        /\ UNCHANGED <<states_, being_set, g>>
    BY <1>4 DEF MockClassThrows, DestroyMockClass, Now
  <2>2. a \notin DOMAIN g'
    BY <1>1, <2>1 DEF KnownAs, HasReaction
  <2>3. DOMAIN g' \subseteq DOMAIN g \cup {a} /\ \A b \in Addresses \ {a} : SameEntry(g, g', b)
    BY <2>1, EntryStays
  <2> HIDE DEF g, kind
  <2> QED
    BY <1>3, <2>1, <2>2, <2>3
<1>5. ASSUME ConstructDerived(a) PROVE RegistryInv'
  <2>1. /\ mock_objects' = [mock_objects EXCEPT ![a].phase = "alive"]
        /\ mock_objects[a].phase = "MockClass()" /\ NoStatementAt(a)
        /\ UNCHANGED <<states_, being_set>>
    BY <1>5 DEF ConstructDerived, Now
  <2>2. CASE kind = "plain"
    <3>1. UNCHANGED g
      BY <1>5, <2>2 DEF ConstructDerived
    <3>2. a \notin DOMAIN g'
      BY <1>1, <2>1, <3>1 DEF KnownAs, HasReaction
    <3>3. DOMAIN g' \subseteq DOMAIN g \cup {a} /\ \A b \in Addresses \ {a} : SameEntry(g, g', b)
      BY <3>1, EntryStays
    <3> HIDE DEF g, kind
    <3> QED
      BY <1>3, <2>1, <2>2, <3>2, <3>3
  <2>3. CASE kind # "plain"
    <3>1. g' = Stored(g, a, DerivedReaction(kind))
      BY <1>2, <1>5, <2>3
         DEF ConstructDerived, SetReactionOnUninterestingCalls, DerivedReaction, Kinds
    <3>2. /\ DOMAIN g' = DOMAIN g \cup {a} /\ g'[a] = DerivedReaction(kind)
          /\ \A b : b # a => SameEntry(g, g', b)
      <4> DEFINE r == DerivedReaction(kind)
                 s == Stored(g, a, r)
      <4>1. DOMAIN s = DOMAIN g \cup {a} /\ s[a] = r /\ \A b : b # a => SameEntry(g, s, b)
        <5>1. \A map, value :
                /\ DOMAIN Stored(map, a, value) = DOMAIN map \cup {a}
                /\ Stored(map, a, value)[a] = value
                /\ \A b : b # a => SameEntry(map, Stored(map, a, value), b)
          BY StoredIn
        <5> HIDE DEF r, g
        <5> QED
          BY <5>1
      <4>2. g' = s
        BY <3>1
      <4> HIDE DEF s
      <4> QED
        BY <4>1, <4>2
    <3> HIDE DEF g, kind
    <3> QED
      BY <1>3, <2>1, <2>3, <3>2
  <2> QED
    BY <2>2, <2>3
<1>6. ASSUME DestroyDerived(a) PROVE RegistryInv'
  <2>1. /\ mock_objects' = [mock_objects EXCEPT ![a].phase = "~MockClass()"]
        /\ mock_objects[a].phase = "alive" /\ NoStatementAt(a)
        /\ UNCHANGED <<states_, being_set>>
    BY <1>6 DEF DestroyDerived, Now
  <2>2. /\ DOMAIN g' \subseteq DOMAIN g \cup {a} /\ a \notin DOMAIN g'
        /\ \A b \in Addresses \ {a} : SameEntry(g, g', b)
    <3>1. CASE kind = "plain"
      <4>1. UNCHANGED g
        BY <1>6, <3>1 DEF DestroyDerived
      <4>2. a \notin DOMAIN g'
        BY <1>1, <3>1, <4>1 DEF KnownAs, HasReaction
      <4> QED
        BY <4>1, <4>2, EntryStays
    <3>2. CASE kind # "plain"
      <4>1. g' = Erased(g, a)
        BY <1>6, <3>2 DEF DestroyDerived, UnregisterCallReaction
      <4> QED
        BY <4>1, ErasedFrom
    <3> QED
      BY <3>1, <3>2
  <2> HIDE DEF g, kind
  <2> QED
    BY <1>3, <2>1, <2>2
<1> QED
  BY <1>4, <1>5, <1>6

(* The entry there is, or a new one, says what the object is.              *)
LEMMA StateIsEntry ==
  ASSUME RegistryInv, NEW a \in Addresses, InBody(a)
  PROVE  StateAt(a) = EntryOf(mock_objects[a])
<1>1. /\ mock_objects[a] \in ObjectType /\ Consistent(mock_objects[a])
      /\ KnownAs(a, mock_objects[a])
  BY TablesOf
<1> DEFINE object == mock_objects[a]
<1>2. CASE a \in DOMAIN states_
  BY <1>1, <1>2 DEF KnownAs, StateAt
<1>3. CASE a \notin DOMAIN states_
  <2>1. ~ HasEntry(object)
    BY <1>1, <1>3 DEF KnownAs
  <2>2. object.registered = {} /\ object.phase # "members"
    BY <2>1 DEF HasEntry, InBody
  <2>3. ~ object.used
    BY <1>1, <2>2 DEF Consistent, ObjectType
  <2>4. ~ (object.may_leak \/ object.left) /\ object.first_line = NoLine
    BY <1>1, <2>1, <2>3 DEF Consistent, HasEntry
  <2>5. (object.may_leak \/ object.left) = FALSE
    BY <2>4
  <2>6. StateAt(a) = [leakable |-> FALSE, function_mockers |-> {}, first_used_line |-> NoLine]
    BY <1>3 DEF StateAt, NewState
  <2>7. EntryOf(object) = [leakable |-> FALSE, function_mockers |-> {},
                           first_used_line |-> NoLine]
    BY <2>2, <2>4, <2>5 DEF EntryOf
  <2> QED
    BY <2>6, <2>7
<1> QED
  BY <1>2, <1>3

(* A step that stores the entry of an object in a body.                    *)
LEMMA EntryStored ==
  ASSUME RegistryInv, NEW a \in Addresses, NEW object, InBody(a),
         SetState(a, EntryOf(object)),
         mock_objects' = [mock_objects EXCEPT ![a] = object],
         object \in ObjectType, Consistent(object), HasEntry(object),
         object.phase = mock_objects[a].phase, object.kind = mock_objects[a].kind,
         UNCHANGED g_uninteresting_call_reaction,
         StatementsUnderWay'
  PROVE  RegistryInv'
<1> DEFINE entry == EntryOf(object)
<1>1. states_' = Stored(states_, a, entry)
  BY DEF SetState
<1>2. /\ DOMAIN Stored(states_, a, entry) = DOMAIN states_ \cup {a}
      /\ Stored(states_, a, entry)[a] = entry
      /\ \A b : b # a => SameEntry(states_, Stored(states_, a, entry), b)
  <2>1. \A map, value :
          /\ DOMAIN Stored(map, a, value) = DOMAIN map \cup {a}
          /\ Stored(map, a, value)[a] = value
          /\ \A b : b # a => SameEntry(map, Stored(map, a, value), b)
    BY StoredIn
  <2> HIDE DEF entry
  <2> QED
    BY <2>1
<1>3. /\ DOMAIN states_' = DOMAIN states_ \cup {a} /\ states_'[a] = entry
      /\ \A b \in Addresses \ {a} : SameEntry(states_, states_', b)
  <2> DEFINE s == Stored(states_, a, entry)
  <2> HIDE DEF s
  <2> QED
    BY <1>1, <1>2 DEF s
<1>4. HasReaction(object) <=> HasReaction(mock_objects[a])
  BY DEF HasReaction
<1> QED
  BY <1>3, <1>4, EntryChanged

LEMMA RegisterKeeps ==
  ASSUME RegistryInv, NEW u \in MockUse, RegisterMocker(u)
  PROVE  RegistryInv'
<1> DEFINE a == u.at
           old == mock_objects[a]
           object == [old EXCEPT !.registered = @ \cup {u.method}, !.used = TRUE]
<1>1. /\ a \in Addresses /\ InBody(a) /\ u.method \in old.methods
      /\ UNCHANGED g_uninteresting_call_reaction /\ being_set' = being_set \cup {u}
  BY DEF RegisterMocker
<1>2. old \in ObjectType /\ Consistent(old)
  BY <1>1, TablesOf
<1>3. mock_objects' = [mock_objects EXCEPT ![a] = object]
  <2>1. DOMAIN mock_objects = Addresses
    BY DEF RegistryInv
  <2> QED
    BY <1>1, <1>2, <2>1 DEF RegisterMocker
<1>4. /\ object \in ObjectType
      /\ object.phase = old.phase /\ object.kind = old.kind /\ object.methods = old.methods
      /\ object.registered = old.registered \cup {u.method} /\ object.used = TRUE
      /\ object.first_line = old.first_line /\ object.may_leak = old.may_leak
      /\ object.left = old.left
  BY <1>1, <1>2 DEF ObjectType
<1>5. SetState(a, [EntryOf(old) EXCEPT !.function_mockers = @ \cup {u.method}])
  <2>1. StateAt(a) = EntryOf(old)
    BY <1>1, StateIsEntry
  <2> QED
    BY <2>1 DEF RegisterMocker
<1> HIDE DEF object, old
<1>6. [EntryOf(old) EXCEPT !.function_mockers = @ \cup {u.method}] = EntryOf(object)
  BY <1>4 DEF EntryOf
<1>7. Consistent(object) /\ HasEntry(object)
  BY <1>1, <1>2, <1>4 DEF Consistent, HasEntry, InBody, old
<1>8. /\ mock_objects'[a] = object
      /\ \A b \in Addresses \ {a} : mock_objects'[b] = mock_objects[b]
  <2> HIDE DEF a
  <2> QED
    BY <1>1, <1>3, ObjectChanged
<1>9. StatementsUnderWay'
  <2> SUFFICES ASSUME NEW v \in being_set'
               PROVE  /\ v \in MockUse /\ v.at \in Addresses /\ InBody(v.at)'
                      /\ v.method \in mock_objects'[v.at].registered
    BY DEF StatementsUnderWay, Addresses
  <2>1. CASE v = u
    BY <1>1, <1>4, <1>8, <2>1 DEF InBody, old
  <2>2. CASE v # u
    <3>1. /\ v \in MockUse /\ v.at \in Addresses /\ InBody(v.at)
          /\ v.method \in mock_objects[v.at].registered
      BY <1>1, <2>2 DEF RegistryInv, StatementsUnderWay
    <3>2. CASE v.at = a
      BY <1>4, <1>8, <3>1, <3>2 DEF InBody, old
    <3>3. CASE v.at # a
      BY <1>8, <3>1, <3>3 DEF InBody
    <3> QED
      BY <3>2, <3>3
  <2> QED
    BY <2>1, <2>2
<1>10. object.phase = mock_objects[a].phase /\ object.kind = mock_objects[a].kind
  BY <1>4 DEF old
<1>11. SetState(a, EntryOf(object))
  BY <1>5, <1>6
<1> HIDE DEF a
<1> QED
  BY <1>1, <1>3, <1>4, <1>7, <1>9, <1>10, <1>11, EntryStored

LEMMA RegisterUseKeeps ==
  ASSUME RegistryInv, NEW u \in being_set, RegisterUseByOnCallOrExpectCall(u)
  PROVE  RegistryInv'
<1> DEFINE a == u.at
           old == mock_objects[a]
           line == IF old.first_line = NoLine THEN u.line ELSE old.first_line
           object == [old EXCEPT !.first_line = line]
<1>1. /\ u \in MockUse /\ a \in Addresses /\ InBody(a) /\ u.method \in old.registered
      /\ UNCHANGED g_uninteresting_call_reaction /\ being_set' \subseteq being_set
  BY DEF RegistryInv, StatementsUnderWay, RegisterUseByOnCallOrExpectCall
<1>2. old \in ObjectType /\ Consistent(old)
  BY <1>1, TablesOf
<1>3. mock_objects' = [mock_objects EXCEPT ![a] = object]
  <2>1. mock_objects' = [mock_objects EXCEPT ![u.at].first_line =
                           IF @ = NoLine THEN u.line ELSE @]
    BY DEF RegisterUseByOnCallOrExpectCall
  <2> QED
    BY <2>1
<1>4. line \in MockLines /\ u.line # NoLine
  BY <1>1, <1>2, LinesAreLines DEF MockLines, ObjectType
<1>5. StateAt(a) = EntryOf(old)
  BY <1>1, StateIsEntry
<1>6. SetState(a, [EntryOf(old) EXCEPT !.first_used_line = line])
  <2>1. EntryOf(old).first_used_line = old.first_line
    BY DEF EntryOf
  <2>2. SetState(a, [EntryOf(old) EXCEPT !.first_used_line =
                       IF EntryOf(old).first_used_line = NoLine THEN u.line ELSE @])
    BY <1>5 DEF RegisterUseByOnCallOrExpectCall
  <2>3. [EntryOf(old) EXCEPT !.first_used_line =
           IF EntryOf(old).first_used_line = NoLine THEN u.line ELSE @]
          = [EntryOf(old) EXCEPT !.first_used_line = line]
    BY <2>1
  <2> QED
    BY <2>2, <2>3
<1> HIDE DEF line
<1>7. /\ object \in ObjectType
      /\ object.phase = old.phase /\ object.kind = old.kind /\ object.methods = old.methods
      /\ object.registered = old.registered /\ object.used = old.used
      /\ object.first_line = line /\ object.may_leak = old.may_leak
      /\ object.left = old.left
  BY <1>2, <1>4 DEF ObjectType
<1> HIDE DEF object, old
<1>8. [EntryOf(old) EXCEPT !.first_used_line = line] = EntryOf(object)
  BY <1>7 DEF EntryOf
<1>9. Consistent(object) /\ HasEntry(object)
  <2>1. old.registered # {} /\ old.used
    BY <1>1, <1>2 DEF Consistent
  <2> QED
    BY <1>2, <1>7, <2>1 DEF Consistent, HasEntry
<1>10. /\ mock_objects'[a] = object
       /\ \A b \in Addresses \ {a} : mock_objects'[b] = mock_objects[b]
  <2> HIDE DEF a
  <2> QED
    BY <1>1, <1>3, ObjectChanged
<1>11. object.phase = mock_objects[a].phase /\ object.kind = mock_objects[a].kind
  BY <1>7 DEF old
<1>12. StatementsUnderWay'
  <2>1. InBody(a)'
    BY <1>1, <1>10, <1>11 DEF InBody
  <2>2. mock_objects[a].registered \subseteq mock_objects'[a].registered
    BY <1>7, <1>10 DEF old
  <2> HIDE DEF a
  <2> QED
    BY <1>1, <1>10, <2>1, <2>2, StatementsStay
<1>13. SetState(a, EntryOf(object))
  BY <1>6, <1>8
<1> HIDE DEF a
<1> QED
  BY <1>1, <1>3, <1>7, <1>9, <1>11, <1>12, <1>13, EntryStored

LEMMA AllowLeakKeeps ==
  ASSUME RegistryInv, NEW a \in Addresses, AllowLeak(a)
  PROVE  RegistryInv'
<1> DEFINE old == mock_objects[a]
           object == [old EXCEPT !.may_leak = TRUE]
<1>1. /\ InBody(a) /\ UNCHANGED g_uninteresting_call_reaction /\ UNCHANGED being_set
      /\ mock_objects' = [mock_objects EXCEPT ![a] = object]
  BY DEF AllowLeak
<1>2. old \in ObjectType /\ Consistent(old)
  BY TablesOf
<1>3. SetState(a, [EntryOf(old) EXCEPT !.leakable = TRUE])
  BY <1>1, StateIsEntry DEF AllowLeak
<1>4. /\ object \in ObjectType
      /\ object.phase = old.phase /\ object.kind = old.kind /\ object.methods = old.methods
      /\ object.registered = old.registered /\ object.used = old.used
      /\ object.first_line = old.first_line /\ object.may_leak = TRUE
      /\ object.left = old.left
  BY <1>2 DEF ObjectType
<1> HIDE DEF object, old
<1>5. [EntryOf(old) EXCEPT !.leakable = TRUE] = EntryOf(object)
  <2>1. (object.may_leak \/ object.left) = TRUE
    BY <1>4
  <2>2. EntryOf(object) = [leakable |-> object.may_leak \/ object.left,
                           function_mockers |-> object.registered,
                           first_used_line |-> object.first_line]
    BY DEF EntryOf
  <2>3. EntryOf(object) = [leakable |-> TRUE, function_mockers |-> old.registered,
                           first_used_line |-> old.first_line]
    BY <1>4, <2>1, <2>2
  <2>4. EntryOf(old) = [leakable |-> old.may_leak \/ old.left,
                        function_mockers |-> old.registered, first_used_line |-> old.first_line]
    BY DEF EntryOf
  <2>5. \A leakable, mockers, line, value :
          [[leakable |-> leakable, function_mockers |-> mockers, first_used_line |-> line]
             EXCEPT !.leakable = value]
            = [leakable |-> value, function_mockers |-> mockers, first_used_line |-> line]
    OBVIOUS
  <2>6. [EntryOf(old) EXCEPT !.leakable = TRUE]
          = [leakable |-> TRUE, function_mockers |-> old.registered,
             first_used_line |-> old.first_line]
    <3> DEFINE leakable == old.may_leak \/ old.left
    <3>1. EntryOf(old) = [leakable |-> leakable, function_mockers |-> old.registered,
                          first_used_line |-> old.first_line]
      BY <2>4
    <3> HIDE DEF leakable
    <3>2. \A value : [EntryOf(old) EXCEPT !.leakable = value]
                       = [leakable |-> value, function_mockers |-> old.registered,
                          first_used_line |-> old.first_line]
      BY <3>1, <2>5
    <3> QED
      BY <3>2
  <2> QED
    BY <2>3, <2>6
<1>6. Consistent(object) /\ HasEntry(object)
  <2>1. old.phase # "none" /\ old.used \in BOOLEAN
    BY <1>1, <1>2 DEF InBody, old, ObjectType
  <2>2. old.phase # "members"
    BY <1>1 DEF InBody, old
  <2> QED
    BY <1>2, <1>4, <2>1, <2>2 DEF Consistent, HasEntry
<1>7. object.phase = mock_objects[a].phase /\ object.kind = mock_objects[a].kind
  BY <1>4 DEF old
<1>8. StatementsUnderWay'
  <2>1. /\ mock_objects'[a] = object
        /\ \A b \in Addresses \ {a} : mock_objects'[b] = mock_objects[b]
    BY <1>1, ObjectChanged
  <2>2. InBody(a)' /\ mock_objects[a].registered \subseteq mock_objects'[a].registered
    BY <1>1, <1>4, <2>1 DEF InBody, old
  <2> QED
    BY <1>1, <2>1, <2>2, StatementsStay
<1>9. SetState(a, EntryOf(object))
  BY <1>3, <1>5
<1> QED
  BY <1>1, <1>4, <1>6, <1>7, <1>8, <1>9, EntryStored

(* What is left of an object without a mocker.                             *)
LEMMA WithoutOne ==
  ASSUME NEW old \in ObjectType, Consistent(old), old.phase = "members",
         NEW method \in old.methods
  PROVE  LET object == WithoutMocker(old, method)
             others == old.registered \ {method}
             unused == ~ old.used /\ (old.may_leak \/ old.left)
         IN  /\ object \in ObjectType /\ Consistent(object) /\ ~ HasReaction(object)
             /\ HasEntry(object) <=> others # {} \/ unused
             /\ HasEntry(object) =>
                  EntryOf(object) = [leakable |-> old.may_leak \/ old.left,
                                     function_mockers |-> others,
                                     first_used_line |-> old.first_line]
<1> DEFINE object == WithoutMocker(old, method)
           others == old.registered \ {method}
           unused == ~ old.used /\ (old.may_leak \/ old.left)
<1>1. old.used \in BOOLEAN /\ old.may_leak \in BOOLEAN /\ old.left \in BOOLEAN
  BY DEF ObjectType
<1>2. CASE old.methods = {method}
  <2>1. object = [phase |-> "none", kind |-> "plain", methods |-> {}, registered |-> {},
                  used |-> FALSE, first_line |-> NoLine, may_leak |-> FALSE, left |-> unused]
    BY <1>2 DEF WithoutMocker, NoObject, Unused
  <2>2. unused \in BOOLEAN /\ others = {}
    BY <1>2 DEF Consistent
  <2>3. unused => (old.may_leak \/ old.left) = TRUE /\ old.first_line = NoLine
    BY DEF Consistent
  <2>4. NoLine \in MockLines /\ "none" \in Phases /\ "plain" \in Kinds
    BY DEF MockLines, Phases, Kinds
  <2> HIDE DEF unused
  <2>5. object \in ObjectType
    <3> HIDE DEF object
    <3> QED
      BY <2>1, <2>2, <2>4 DEF ObjectType
  <2>6. /\ object.phase = "none" /\ object.kind = "plain" /\ object.methods = {}
        /\ object.registered = {} /\ object.used = FALSE /\ object.first_line = NoLine
        /\ object.may_leak = FALSE /\ object.left = unused
    <3> HIDE DEF object
    <3> QED
      BY <2>1
  <2> HIDE DEF object
  <2>7. Consistent(object) /\ ~ HasReaction(object)
    BY <2>6 DEF Consistent, HasReaction
  <2>8. HasEntry(object) <=> unused
    BY <2>2, <2>6 DEF HasEntry
  <2>9. ASSUME unused
        PROVE  EntryOf(object) = [leakable |-> old.may_leak \/ old.left,
                                  function_mockers |-> others,
                                  first_used_line |-> old.first_line]
    <3>1. (object.may_leak \/ object.left) = TRUE
      BY <2>6, <2>9
    <3>2. EntryOf(object) = [leakable |-> object.may_leak \/ object.left,
                             function_mockers |-> {}, first_used_line |-> NoLine]
      BY <2>6 DEF EntryOf
    <3> QED
      BY <2>2, <2>3, <2>9, <3>1, <3>2
  <2> QED
    BY <2>2, <2>5, <2>7, <2>8, <2>9 DEF object, unused
<1>3. CASE old.methods # {method}
  <2>1. object = [old EXCEPT !.methods = @ \ {method}, !.registered = @ \ {method}]
    BY <1>3 DEF WithoutMocker
  <2>2. /\ object \in ObjectType
        /\ object.phase = "members" /\ object.kind = old.kind
        /\ object.methods = old.methods \ {method} /\ object.registered = others
        /\ object.used = old.used /\ object.first_line = old.first_line
        /\ object.may_leak = old.may_leak /\ object.left = old.left
    <3> HIDE DEF object
    <3> QED
      BY <2>1 DEF ObjectType
  <2> HIDE DEF object
  <2>3. Consistent(object) /\ ~ HasReaction(object)
    BY <1>3, <2>2 DEF Consistent, HasReaction
  <2>4. HasEntry(object) <=> others # {} \/ unused
    BY <2>2 DEF HasEntry
  <2>5. EntryOf(object) = [leakable |-> old.may_leak \/ old.left, function_mockers |-> others,
                           first_used_line |-> old.first_line]
    BY <2>2 DEF EntryOf
  <2> QED
    BY <2>2, <2>3, <2>4, <2>5 DEF object
<1> QED
  BY <1>2, <1>3

(* The last mocker takes the entry along, unless no statement made one.    *)
LEMMA DestroyMockerKeeps ==
  ASSUME RegistryInv, NEW a \in Addresses, NEW method \in mock_objects[a].methods,
         DestroyMocker(a, method)
  PROVE  RegistryInv'
<1> DEFINE old == mock_objects[a]
           object == WithoutMocker(old, method)
           others == old.registered \ {method}
           unused == ~ old.used /\ (old.may_leak \/ old.left)
           entry == [leakable |-> old.may_leak \/ old.left, function_mockers |-> others,
                     first_used_line |-> old.first_line]
<1>1. /\ old.phase = "members" /\ UnregisterLocked(a, method)
      /\ UNCHANGED g_uninteresting_call_reaction /\ UNCHANGED being_set
      /\ mock_objects' = [mock_objects EXCEPT ![a] = object]
  BY DEF DestroyMocker, Now
<1>2. old \in ObjectType /\ Consistent(old) /\ KnownAs(a, old)
  BY TablesOf
<1>3. /\ object \in ObjectType /\ Consistent(object) /\ ~ HasReaction(object)
      /\ HasEntry(object) <=> others # {} \/ unused
      /\ HasEntry(object) => EntryOf(object) = entry
  BY <1>1, <1>2, WithoutOne
<1>4. ~ HasReaction(old)
  BY <1>1 DEF HasReaction
<1>5. StatementsUnderWay'
  <2>1. NoStatementAt(a)
    BY <1>1 DEF RegistryInv, StatementsUnderWay, NoStatementAt, InBody
  <2> HIDE DEF object
  <2> QED
    BY <1>1, <2>1, ObjectChanged, StatementsStay
<1>6. /\ DOMAIN states_' \subseteq DOMAIN states_ \cup {a}
      /\ \A b \in Addresses \ {a} : SameEntry(states_, states_', b)
      /\ a \in DOMAIN states_' <=> others # {} \/ unused
      /\ a \in DOMAIN states_' => states_'[a] = entry
  <2>1. CASE method \notin old.registered
    <3>1. UNCHANGED states_
      <4>1. a \in DOMAIN states_ => StateAt(a).function_mockers = old.registered
        BY <1>2 DEF KnownAs, StateAt, EntryOf
      <4> QED
        BY <1>1, <2>1, <4>1 DEF UnregisterLocked
    <3>2. others = old.registered
      BY <2>1
    <3>3. a \in DOMAIN states_ <=> others # {} \/ unused
      BY <1>2, <3>2 DEF KnownAs, HasEntry
    <3>4. a \in DOMAIN states_ => states_[a] = entry
      BY <1>2, <3>2 DEF KnownAs, EntryOf
    <3> QED
      BY <3>1, <3>3, <3>4, EntryStays
  <2>2. CASE method \in old.registered
    <3>1. a \in DOMAIN states_ /\ states_[a] = EntryOf(old) /\ old.used
      BY <1>2, <2>2 DEF KnownAs, HasEntry, Consistent
    <3>2. states_[a].function_mockers = old.registered /\ StateAt(a) = states_[a]
      BY <3>1 DEF EntryOf, StateAt
    <3>3. states_' = IF others = {} THEN Erased(states_, a)
                     ELSE [states_ EXCEPT ![a].function_mockers = others]
      BY <1>1, <2>2, <3>1, <3>2 DEF UnregisterLocked
    <3>4. ~ unused
      BY <3>1
    <3>5. CASE others = {}
      <4>1. states_' = Erased(states_, a)
        BY <3>3, <3>5
      <4>2. \A map : /\ DOMAIN Erased(map, a) = DOMAIN map \ {a}
                     /\ \A b : b # a => SameEntry(map, Erased(map, a), b)
        BY ErasedFrom
      <4>3. /\ DOMAIN states_' = DOMAIN states_ \ {a}
            /\ \A b : b # a => SameEntry(states_, states_', b)
        BY <4>1, <4>2
      <4> QED
        BY <3>4, <3>5, <4>3
    <3>6. CASE others # {}
      <4>1. states_' = [states_ EXCEPT ![a] = [EntryOf(old) EXCEPT !.function_mockers = others]]
        BY <3>1, <3>3, <3>6
      <4>2. [EntryOf(old) EXCEPT !.function_mockers = others] = entry
        BY DEF EntryOf
      <4>3. states_' = [states_ EXCEPT ![a] = entry]
        BY <4>1, <4>2
      <4> HIDE DEF entry
      <4> QED
        BY <3>1, <3>6, <4>3 DEF SameEntry
    <3> QED
      BY <3>5, <3>6
  <2> QED
    BY <2>1, <2>2
<1>7. /\ HasReaction(object) <=> HasReaction(old)
      /\ a \in DOMAIN states_' <=> HasEntry(object)
      /\ HasEntry(object) => states_'[a] = EntryOf(object)
  BY <1>3, <1>4, <1>6
<1> HIDE DEF object
<1> QED
  BY <1>1, <1>3, <1>5, <1>6, <1>7, EntryChanged

LEMMA RegistryAtFirst == RegistryInit => RegistryInv
<1> SUFFICES ASSUME RegistryInit PROVE RegistryInv
  OBVIOUS
<1>1. /\ states_ = << >> /\ g_uninteresting_call_reaction = << >> /\ being_set = {}
      /\ mock_objects = [a \in Addresses |-> NoObject(FALSE)]
  BY DEF RegistryInit
<1>2. DOMAIN states_ = {} /\ DOMAIN g_uninteresting_call_reaction = {}
  BY <1>1
<1>3. ASSUME NEW a \in Addresses PROVE InOrderAt(a)
  <2> DEFINE object == mock_objects[a]
  <2>1. object = [phase |-> "none", kind |-> "plain", methods |-> {}, registered |-> {},
                  used |-> FALSE, first_line |-> NoLine, may_leak |-> FALSE, left |-> FALSE]
    BY <1>1 DEF NoObject, Unused
  <2> HIDE DEF object
  <2>2. NoLine \in MockLines /\ "none" \in Phases /\ "plain" \in Kinds
    BY DEF MockLines, Phases, Kinds
  <2>3. object \in ObjectType
    BY <2>1, <2>2 DEF ObjectType
  <2>4. Consistent(object) /\ ~ HasReaction(object) /\ ~ HasEntry(object)
    BY <2>1 DEF Consistent, HasReaction, HasEntry
  <2>5. KnownAs(a, object)
    BY <1>2, <2>4 DEF KnownAs
  <2> QED
    BY <2>3, <2>4, <2>5 DEF InOrderAt, object
<1>4. DOMAIN mock_objects = Addresses /\ StatementsUnderWay
  BY <1>1 DEF StatementsUnderWay
<1> QED
  BY <1>2, <1>3, <1>4 DEF RegistryInv

LEMMA RegistryKept == RegistryInv /\ [RegistryNext]_registry_vars => RegistryInv'
<1> SUFFICES ASSUME RegistryInv, [RegistryNext]_registry_vars PROVE RegistryInv'
  OBVIOUS
<1>1. CASE RegistryNext
  <2>1. ASSUME NEW m \in Mockable, ConstructMockClass(m) PROVE RegistryInv'
    BY <2>1, ConstructMockClassKeeps
  <2>2. ASSUME NEW a \in Addresses,
               MockClassThrows(a) \/ ConstructDerived(a) \/ DestroyDerived(a)
                 \/ DestroyMockClass(a)
        PROVE  RegistryInv'
    BY <2>2, DestructorsKeep
  <2>3. ASSUME NEW a \in Addresses, AllowLeak(a) PROVE RegistryInv'
    BY <2>3, AllowLeakKeeps
  <2>4. ASSUME NEW a \in Addresses, NEW method \in mock_objects[a].methods,
               DestroyMocker(a, method)
        PROVE  RegistryInv'
    BY <2>4, DestroyMockerKeeps
  <2>5. ASSUME NEW u \in MockUse, RegisterMocker(u) PROVE RegistryInv'
    BY <2>5, RegisterKeeps
  <2>6. ASSUME NEW u \in being_set, RegisterUseByOnCallOrExpectCall(u) PROVE RegistryInv'
    BY <2>6, RegisterUseKeeps
  <2> QED
    BY <1>1, <2>1, <2>2, <2>3, <2>4, <2>5, <2>6 DEF RegistryNext
<1>2. CASE UNCHANGED registry_vars
  BY <1>2 DEF registry_vars, RegistryInv, InOrderAt, KnownAs, StatementsUnderWay, InBody,
              Addresses
<1> QED
  BY <1>1, <1>2

(* What is known of mock objects is true, for any classes, addresses,      *)
(* statements and threads, whatever lived at an address before: the        *)
(* reaction to an uninteresting call is that of the object that is there;  *)
(* what is reported at exit was used and leaked, and all of that is but    *)
(* for the successors of objects that might leak and were never used.      *)
THEOREM RegistryIsTrue == RegistrySpec => []RegistryKnowsTheLiving
<1>1. ASSUME RegistryInv PROVE RegistryKnowsTheLiving
  <2>1. ASSUME NEW a \in Addresses, InBody(a)
        PROVE  GetReactionOnUninterestingCalls(a) = ReactionOf(a)
    <3> DEFINE object == mock_objects[a]
    <3>1. KnownAs(a, object) /\ object.kind \in Kinds
      BY <1>1, TablesOf DEF ObjectType
    <3>2. CASE HasReaction(object)
      <4>1. GetReactionOnUninterestingCalls(a) = DerivedReaction(object.kind)
        BY <3>1, <3>2 DEF KnownAs, GetReactionOnUninterestingCalls
      <4> QED
        BY <3>1, <3>2, <4>1 DEF ReactionOf, HasReaction, DerivedReaction, Kinds
    <3>3. CASE ~ HasReaction(object)
      <4>1. GetReactionOnUninterestingCalls(a) = DefaultReaction(default_mock_behavior)
        BY <3>1, <3>3 DEF KnownAs, GetReactionOnUninterestingCalls
      <4> QED
        BY <3>1, <3>3, <4>1 DEF ReactionOf, HasReaction
    <3> QED
      BY <3>2, <3>3
  <2> DEFINE Reported == {b \in Addresses : /\ mock_objects[b].registered # {}
                                            /\ ~mock_objects[b].may_leak /\ ~mock_objects[b].left}
             Known == {b \in DOMAIN states_ : ~states_[b].leakable}
  <2>2. ASSUME NEW b PROVE b \in Known <=> b \in Reported
    <3>1. b \in DOMAIN states_ => b \in Addresses
      BY <1>1 DEF RegistryInv
    <3>2. CASE b \in Addresses
      <4>1. /\ b \in DOMAIN states_ <=> HasEntry(mock_objects[b])
            /\ HasEntry(mock_objects[b]) => states_[b] = EntryOf(mock_objects[b])
        BY <1>1, <3>2, TablesOf DEF KnownAs
      <4>2. EntryOf(mock_objects[b]).leakable
              = (mock_objects[b].may_leak \/ mock_objects[b].left)
        BY DEF EntryOf
      <4> QED
        BY <3>2, <4>1, <4>2 DEF HasEntry
    <3> QED
      BY <3>1, <3>2
  <2>3. ASSUME NEW b \in Known
        PROVE  states_[b].first_used_line = mock_objects[b].first_line
    <3>1. b \in Addresses /\ b \in DOMAIN states_
      BY <1>1 DEF RegistryInv
    <3>2. states_[b] = EntryOf(mock_objects[b])
      BY <1>1, <3>1, TablesOf DEF KnownAs
    <3> QED
      BY <3>2 DEF EntryOf
  <2>4. LeakedObjects = {<<a, mock_objects[a].first_line>> : a \in Reported}
    <3>1. Known = Reported
      BY <2>2
    <3>2. LeakedObjects = {<<a, states_[a].first_used_line>> : a \in Known}
      BY DEF LeakedObjects
    <3> HIDE DEF Known, Reported
    <3> QED
      BY <2>3, <3>1, <3>2
  <2> HIDE DEF Known
  <2>5. LeakedObjects \subseteq LeaksAt(Addresses)
    BY <2>4 DEF LeaksAt
  <2>6. LeaksAt({a \in Addresses : ~mock_objects[a].left}) \subseteq LeakedObjects
    BY <2>4 DEF LeaksAt
  <2> QED
    BY <2>1, <2>5, <2>6 DEF RegistryKnowsTheLiving
<1> QED
  BY <1>1, RegistryAtFirst, RegistryKept, PTL DEF RegistrySpec
=============================================================================
