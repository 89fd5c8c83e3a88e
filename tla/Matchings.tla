------------------------------ MODULE Matchings ------------------------------
(***************************************************************************)
(* UnorderedElementsAre, IsSubsetOf and IsSupersetOf (gmock-matchers.cc):  *)
(* elements 1..m and matchers 1..n, and the pairs that match as a graph.   *)
(***************************************************************************)
EXTENDS Naturals, Sequences, SequencesExt, FiniteSets, FiniteSetsExt

kUnused == 0

RECURSIVE TryAugment(_, _, _, _)

(* Searches a path from element l to a free matcher, and takes it. state:  *)
(* left_, right_, the matchers seen, and whether a path was found.         *)
TryAugment(graph, n, state, l) ==
  LET try(s, r) ==
        IF s.found \/ r \in s.seen \/ <<l, r>> \notin graph THEN s
        ELSE LET seen == [s EXCEPT !.seen = @ \cup {r}]
                 onward == IF s.right[r] = kUnused THEN [seen EXCEPT !.found = TRUE]
                           ELSE TryAugment(graph, n, seen, s.right[r])
             IN  IF onward.found
                   THEN [onward EXCEPT !.left[l] = r, !.right[r] = l]
                   ELSE onward
  IN  FoldLeft(try, state, [r \in 1 .. n |-> r])

(* MaxBipartiteMatchState::Compute: each element in turn, seen reset. *)
FindMaxBipartiteMatching(graph, m, n) ==
  LET start == [left |-> [l \in 1 .. m |-> kUnused],
                right |-> [r \in 1 .. n |-> kUnused], seen |-> {}, found |-> FALSE]
      end == FoldLeft(LAMBDA s, l :
                        TryAugment(graph, n, [s EXCEPT !.seen = {}, !.found = FALSE], l),
                      start, [l \in 1 .. m |-> l])
  IN  {<<l, end.left[l]>> : l \in {l \in 1 .. m : end.left[l] # kUnused}}

(* flags: the requirements Superset and Subset, both for an exact match.   *)
VerifyMatchMatrix(graph, m, n, flags) ==
  /\ "Superset" \in flags => \A r \in 1 .. n : \E l \in 1 .. m : <<l, r>> \in graph
  /\ "Subset" \in flags => \A l \in 1 .. m : \E r \in 1 .. n : <<l, r>> \in graph

FindPairing(graph, m, n, flags) ==
  LET max_flow == Cardinality(FindMaxBipartiteMatching(graph, m, n))
  IN  /\ "Superset" \in flags => max_flow >= n
      /\ "Subset" \in flags => max_flow >= m

MatchAndExplain(graph, m, n, flags) ==
  \/ m = 0 /\ n = 0
  \/ /\ flags = {"Superset", "Subset"} => m = n
     /\ VerifyMatchMatrix(graph, m, n, flags)
     /\ FindPairing(graph, m, n, flags)

(* Elements and matchers are numbered from 1; the offsets are from 0.      *)
SpaceIndex(edge, n) == (edge[1] - 1) * n + edge[2] - 1

(* Adds 1 to the graph as a number: the first edge that is missing comes,  *)
(* those before it go; all of them go when none is missing.                *)
NextGraph(graph, m, n) ==
  LET Missing == ((1 .. m) \X (1 .. n)) \ graph
      b == CHOOSE e \in Missing : \A f \in Missing : SpaceIndex(e, n) <= SpaceIndex(f, n)
  IN  [more |-> Missing # {},
       graph |-> IF Missing = {} THEN {}
                 ELSE {b} \cup {e \in graph : SpaceIndex(e, n) > SpaceIndex(b, n)}]

-----------------------------------------------------------------------------
(* No element or matcher is in two pairs. *)
IsMatching(pairs) ==
  \A p, q \in pairs : p # q => p[1] # q[1] /\ p[2] # q[2]

(* What the three matchers promise: an assignment of different elements to *)
(* all matchers, of different matchers to all elements, or both.           *)
Assignable(graph, m, n, flags) ==
  \E pairs \in SUBSET graph :
    /\ IsMatching(pairs)
    /\ "Superset" \in flags => Cardinality(pairs) = n
    /\ "Subset" \in flags => Cardinality(pairs) = m
=============================================================================
