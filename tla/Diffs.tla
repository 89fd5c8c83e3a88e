-------------------------------- MODULE Diffs --------------------------------
(***************************************************************************)
(* The diff of an EXPECT_EQ on texts of several lines (gtest.cc, namespace *)
(* edit_distance): the Wagner-Fischer table of edits, and the hunks of the *)
(* unified diff made of them.  A text is its sequence of lines.            *)
(***************************************************************************)
EXTENDS Naturals, Sequences, SequencesExt, FiniteSets, FiniteSetsExt

(* Costs in units of 0.00001. *)
EditCost == 100000
ReplaceCost == 100001

(* One cell of the table: the best last move of left[1..l] to right[1..r]. *)
BestMove(table, left, right, l, r) ==
  LET add == table[l, r - 1].cost
      remove == table[l - 1, r].cost
      replace == table[l - 1, r - 1].cost
  IN  IF left[l] = right[r] THEN [cost |-> replace, move |-> "match"]
      ELSE IF add < remove /\ add < replace
        THEN [cost |-> add + EditCost, move |-> "add"]
      ELSE IF remove < add /\ remove < replace
        THEN [cost |-> remove + EditCost, move |-> "remove"]
      ELSE [cost |-> replace + ReplaceCost, move |-> "replace"]

FirstRowAndColumn(m, n) ==
  [c \in (0 .. m) \X (0 .. n) |->
     IF c[2] = 0 THEN [cost |-> c[1] * EditCost, move |-> "remove"]
                 ELSE [cost |-> c[2] * EditCost, move |-> "add"]]

EditTable(left, right) ==
  LET m == Len(left)  n == Len(right)
      cells == [k \in 1 .. m * n |-> <<((k - 1) \div n) + 1, ((k - 1) % n) + 1>>]
  IN  FoldLeft(LAMBDA table, c :
                 [table EXCEPT ![c] = BestMove(table, left, right, c[1], c[2])],
               FirstRowAndColumn(m, n), cells)

(* The path through the table, from its end. *)
CalculateOptimalEdits(left, right) ==
  LET table == EditTable(left, right)
      path[l \in 0 .. Len(left), r \in 0 .. Len(right)] ==
        IF l = 0 /\ r = 0 THEN << >>
        ELSE LET move == table[l, r].move
             IN  Append(path[IF move = "add" THEN l ELSE l - 1,
                             IF move = "remove" THEN r ELSE r - 1], move)
  IN  path[Len(left), Len(right)]

-----------------------------------------------------------------------------
(* How far l_i and r_i are when edit_i is e. *)
LeftBefore(edits, e) == Cardinality({k \in 1 .. e - 1 : edits[k] # "add"})
RightBefore(edits, e) == Cardinality({k \in 1 .. e - 1 : edits[k] # "remove"})

NextEdit(edits, e) ==
  Min({k \in e .. Len(edits) : edits[k] # "match"} \cup {Len(edits) + 1})

(* Hunk: a common line flushes the removed lines and the added ones.       *)
Flushed(hunk) ==
  [common |-> hunk.common \o hunk.removes \o hunk.adds,
   removes |-> << >>, adds |-> << >>]

PushEdit(hunk, left, right, edits, k) ==
  LET l == LeftBefore(edits, k) + 1
      r == RightBefore(edits, k) + 1
  IN  IF edits[k] = "match"
        THEN [Flushed(hunk) EXCEPT !.common = Append(@, <<" ", left[l]>>)]
      ELSE [hunk EXCEPT
        !.removes = IF edits[k] = "add" THEN @ ELSE Append(@, <<"-", left[l]>>),
        !.adds = IF edits[k] = "remove" THEN @ ELSE Append(@, <<"+", right[r]>>)]

(* Where the hunk ends whose first edit is first: behind enough matches,   *)
(* unless the next edit is close.                                          *)
EndOfHunk(edits, first, context) ==
  LET matchesBefore(k) ==
        k - 1 - Max({first - 1} \cup {i \in first .. k - 1 : edits[i] # "match"})
  IN  Min({k \in first .. Len(edits) :
             /\ matchesBefore(k) >= context
             /\ \/ NextEdit(edits, k) = Len(edits) + 1
                \/ NextEdit(edits, k) - k >= context} \cup {Len(edits) + 1})

Count(lines, sign) == Cardinality({i \in DOMAIN lines : lines[i][1] = sign})

(* The hunk of the edits first .. end - 1, with the lines before it.       *)
Hunk(left, right, edits, first, end, context) ==
  LET l == LeftBefore(edits, first)
      r == RightBefore(edits, first)
      prefix == IF l < context THEN l ELSE context
      empty == [common |-> [i \in 1 .. prefix |-> <<" ", left[l - prefix + i]>>],
                removes |-> << >>, adds |-> << >>]
      pushed == FoldLeft(LAMBDA h, k : PushEdit(h, left, right, edits, k), empty,
                         [i \in 1 .. end - first |-> first + i - 1])
      lines == Flushed(pushed).common
  IN  [left_start |-> l - prefix + 1, right_start |-> r - prefix + 1,
       lines |-> lines,
       left_length |-> Count(lines, "-") + Count(lines, " "),
       right_length |-> Count(lines, "+") + Count(lines, " ")]

(* A hunk without edits ends the diff. *)
CreateUnifiedDiff(left, right, context) ==
  LET edits == CalculateOptimalEdits(left, right)
      hunks[e \in 1 .. Len(edits) + 1] ==
        LET first == NextEdit(edits, e)
            end == EndOfHunk(edits, first, context)
        IN  IF end = first THEN << >>
            ELSE <<Hunk(left, right, edits, first, end, context)>> \o hunks[end]
  IN  hunks[1]

-----------------------------------------------------------------------------
(* Patch: the text that comes of left when the hunks are applied to it, or *)
(* nothing if they do not fit.                                             *)
Side(hunk, signs) ==
  LET ls == SelectSeq(hunk.lines, LAMBDA x : x[1] \in signs)
  IN  [i \in DOMAIN ls |-> ls[i][2]]

Fits(left, hunk) ==
  SubSeq(left, hunk.left_start, hunk.left_start + hunk.left_length - 1)
    = Side(hunk, {" ", "-"})

Patched(left, diff) ==
  LET apply(done, h) ==
        [text |-> done.text \o SubSeq(left, done.next, h.left_start - 1)
                    \o Side(h, {" ", "+"}),
         next |-> h.left_start + h.left_length]
      all == FoldLeft(apply, [text |-> << >>, next |-> 1], diff)
  IN  all.text \o SubSeq(left, all.next, Len(left))
=============================================================================
