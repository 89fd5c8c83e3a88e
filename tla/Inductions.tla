----------------------------- MODULE Inductions -----------------------------
(***************************************************************************)
(* Induction over natural numbers, stated for sets: what an induction is   *)
(* about is the set of the numbers that have a property.                   *)
(***************************************************************************)
EXTENDS Integers, WellFoundedInduction, TLAPS

(* Every set of natural numbers has a least element. *)
LEMMA LeastNatural ==
  ASSUME NEW T \in SUBSET Nat, T # {}
  PROVE  \E n \in T : \A m \in T : n <= m
<1>1. IsWellFoundedOn(OpToRel(<, Nat), Nat)
  BY NatLessThanWellFounded
<1>2. PICK n \in T : \A m \in T : ~ (<<m, n>> \in OpToRel(<, Nat))
  BY <1>1, WFMin
<1>3. \A m \in T : ~ (m < n)
  BY <1>2 DEF OpToRel
<1> QED
  BY <1>3

(* A set that contains 0 and is closed under the next number, up to n,
   contains the whole interval.                                            *)
LEMMA UpwardInduction ==
  ASSUME NEW n \in Nat, NEW T, 0 \in T,
         \A i \in 0..n : i # n /\ i \in T => i + 1 \in T
  PROVE  \A i \in 0..n : i \in T
<1> DEFINE Missed == {i \in 0..n : i \notin T}
<1>1. SUFFICES ASSUME Missed # {} PROVE FALSE
  OBVIOUS
<1>2. Missed \in SUBSET Nat
  OBVIOUS
<1> HIDE DEF Missed
<1>3. PICK i \in Missed : \A m \in Missed : i <= m
  BY <1>1, <1>2, LeastNatural
<1> USE DEF Missed
<1>4. i \in 0..n /\ i \notin T /\ i # 0
  OBVIOUS
<1>5. i - 1 \in 0..n /\ i - 1 \notin Missed
  BY <1>3, <1>4
<1> QED
  BY <1>4, <1>5

(* A set that contains each number of an interval if it contains the       *)
(* smaller ones contains the interval.                                     *)
LEMMA StrongInduction ==
  ASSUME NEW n \in Nat, NEW T,
         \A i \in 1..n : (\A j \in 1..i - 1 : j \in T) => i \in T
  PROVE  \A i \in 1..n : i \in T
<1> DEFINE Missed == {i \in 1..n : i \notin T}
<1>1. SUFFICES ASSUME Missed # {} PROVE FALSE
  OBVIOUS
<1>2. Missed \in SUBSET Nat
  OBVIOUS
<1> HIDE DEF Missed
<1>3. PICK i \in Missed : \A m \in Missed : i <= m
  BY <1>1, <1>2, LeastNatural
<1> USE DEF Missed
<1>4. \A j \in 1..i - 1 : j \in T
  BY <1>3
<1> QED
  BY <1>4

(* A finite interval bounds the sets of its numbers: each has a greatest.  *)
LEMMA GreatestInInterval ==
  ASSUME NEW n \in Nat, NEW S \in SUBSET (1..n), S # {}
  PROVE  \E m \in S : \A k \in S : k <= m
<1> DEFINE T == {n - k : k \in S}
<1>1. T \in SUBSET Nat /\ T # {}
  <2>1. \A k \in S : n - k \in Nat
    OBVIOUS
  <2>2. PICK k \in S : TRUE
    OBVIOUS
  <2>3. n - k \in T
    OBVIOUS
  <2> QED
    BY <2>1, <2>3
<1> HIDE DEF T
<1>2. PICK l \in T : \A m \in T : l <= m
  BY <1>1, LeastNatural
<1> USE DEF T
<1>3. PICK m \in S : l = n - m
  OBVIOUS
<1>4. ASSUME NEW k \in S PROVE k <= m
  <2>1. n - k \in T
    OBVIOUS
  <2>2. l <= n - k
    BY <1>2, <2>1
  <2> QED
    BY <1>3, <2>2
<1> QED
  BY <1>4

(* The same downwards.                                                     *)
LEMMA DownwardInduction ==
  ASSUME NEW n \in Nat, NEW T,
         \A i \in 1..n : (\A k \in i + 1 .. n : k \in T) => i \in T
  PROVE  \A i \in 1..n : i \in T
<1> DEFINE U == {k \in 1..n : n + 1 - k \in T}
<1>1. ASSUME NEW i \in 1..n, \A j \in 1 .. i - 1 : j \in U PROVE i \in U
  <2> DEFINE l == n + 1 - i
  <2>1. l \in 1..n
    OBVIOUS
  <2>2. ASSUME NEW k \in l + 1 .. n PROVE k \in T
    <3>1. n + 1 - k \in 1 .. i - 1
      OBVIOUS
    <3>2. n + 1 - (n + 1 - k) = k
      OBVIOUS
    <3> QED
      BY <1>1, <3>1, <3>2
  <2> HIDE DEF l
  <2>3. l \in T
    BY <2>1, <2>2
  <2> QED
    BY <2>3 DEF l
<1> HIDE DEF U
<1>2. \A i \in 1..n : i \in U
  BY <1>1, StrongInduction
<1>3. ASSUME NEW i \in 1..n PROVE i \in T
  <2>1. n + 1 - i \in 1..n /\ n + 1 - (n + 1 - i) = i
    OBVIOUS
  <2>2. n + 1 - i \in U
    BY <1>2, <2>1
  <2> QED
    BY <2>1, <2>2 DEF U
<1> QED
  BY <1>3

(* F[i] makes the entry at i from those after it. *)
MadeFromLater(n, V, F) ==
  /\ \A i \in 1..n, f \in [1..n -> V] : F[i][f] \in V
  /\ \A i \in 1..n, f \in [1..n -> V], g \in [1..n -> V] :
       (\A k \in i + 1 .. n : f[k] = g[k]) => F[i][f] = F[i][g]

HasTable(n, V, F) == \E f \in [1..n -> V] : \A i \in 1..n : f[i] = F[i][f]

(* A table in which each entry is made from those after it.                *)
LEMMA DownwardRecursion ==
  ASSUME NEW n \in Nat, NEW V, NEW v \in V, NEW F, MadeFromLater(n, V, F)
  PROVE  HasTable(n, V, F)
<1> USE DEF MadeFromLater, HasTable
<1> DEFINE T == {k \in 0..n : \E f \in [1..n -> V] : \A i \in n + 1 - k .. n : f[i] = F[i][f]}
<1>1. 0 \in T
  <2> DEFINE f == [i \in 1..n |-> v]
  <2>1. f \in [1..n -> V]
    OBVIOUS
  <2>2. n + 1 - 0 .. n = {} /\ 0 \in 0..n
    OBVIOUS
  <2> HIDE DEF f
  <2>3. \A i \in n + 1 - 0 .. n : f[i] = F[i][f]
    BY <2>2
  <2> QED
    BY <2>1, <2>2, <2>3
<1>2. ASSUME NEW k \in 0..n, k # n, k \in T PROVE k + 1 \in T
  <2>1. PICK f \in [1..n -> V] : \A i \in n + 1 - k .. n : f[i] = F[i][f]
    BY <1>2
  <2> DEFINE m == n - k
             g == [f EXCEPT ![m] = F[m][f]]
  <2>2. m \in 1..n /\ n + 1 - k = m + 1 /\ n + 1 - (k + 1) = m /\ k + 1 \in 0..n
    BY <1>2
  <2> HIDE DEF m
  <2>3. g \in [1..n -> V] /\ g[m] = F[m][f] /\ \A i \in m + 1 .. n : g[i] = f[i]
    BY <2>2
  <2> HIDE DEF g
  <2>4. ASSUME NEW i \in m .. n PROVE g[i] = F[i][g]
    <3>1. i \in 1..n /\ \A l \in i + 1 .. n : f[l] = g[l]
      BY <2>2, <2>3
    <3>2. F[i][f] = F[i][g]
      BY <2>3, <3>1
    <3>3. g[i] = F[i][f]
      BY <2>1, <2>2, <2>3
    <3> QED
      BY <3>2, <3>3
  <2> QED
    BY <2>2, <2>3, <2>4
<1> HIDE DEF T
<1>3. \A i \in 0..n : i \in T
  BY <1>1, <1>2, UpwardInduction
<1>4. n + 1 - n = 1
  OBVIOUS
<1> QED
  BY <1>3, <1>4 DEF T

=============================================================================
