---------------------------- MODULE BoxScheduler ----------------------------
(***************************************************************************)
(* One BoxScheduler (box_scheduler.rb) and the families a shipping manager *)
(* loads and passes to it.  A call packs one portion per iteration of its  *)
(* while loop; nothing else happens until it has returned or raised.       *)
(*                                                                         *)
(* The text a call returns is modelled as its boxes.  A box lists its      *)
(* brushes and heads one by one, so that "2 blue replacement heads" is     *)
(* <<blue, blue>>.  Dates are day numbers, weights tenths of an ounce.     *)
(***************************************************************************)
EXTENDS Families

CONSTANT Day        \* what Date.parse makes of a text, or Nil if it raises

ASSUME DayType == Day \in [DateText -> Int \cup {Nil}] /\ Nil \notin Int

VARIABLES
  has_starter_box_shipped,
  call,             \* the operation under way, "none" between calls
  family_data_arg,  \* the family the last call was made for
  preferences,      \* the Hash: its [colour, count] pairs, counted down
  at,               \* the pair that each has reached
  box,              \* the heads in the open box
  boxes,            \* the boxes written so far
  answer            \* how the last call ended

schedulerVars ==
  <<has_starter_box_shipped, call, family_data_arg, preferences, at,
    box, boxes, answer>>

vars == <<familyVars, schedulerVars>>

Preference == [colour : Colour \cup {Nil}, count : Nat]

ASSUME NilIsNoHash == Nil \notin Seq(Preference)

Box ==
  [brushes  : Seq(Colour),
   heads    : Seq(Colour),
   kits     : Nat,
   schedule : Seq(Int \cup DateText),
   mail     : {"first", "priority"}]

TypeOK ==
  /\ FamiliesTypeOK
  /\ has_starter_box_shipped \in BOOLEAN
  /\ call \in {"none", "starter", "refill"}
  /\ family_data_arg \in Family
  /\ preferences \in Seq(Preference)
  /\ at \in 1..(Len(preferences) + 1)
  /\ box \in Seq(Colour)
  /\ boxes \in Seq(Box)
  /\ answer \in {"none", "loaded", "starter boxes", "refill boxes",
                 "NO STARTER BOXES GENERATED", "PLEASE LOAD USER PREFERENCES", "raised"}

Init ==
  /\ FamiliesInit
  /\ has_starter_box_shipped = FALSE
  /\ call = "none"
  /\ family_data_arg \in Family
  /\ preferences = << >>
  /\ at = 1
  /\ box = << >>
  /\ boxes = << >>
  /\ answer = "none"

-----------------------------------------------------------------------------
(* Mail class. *)

brush_wgt == 90
brush_head_wgt == 10
paste_kit_wgt == 76
first_class_wgt_limit == 160

(* Mutant: paste kits weigh nothing. *)
calculate_shipping_method_without_kits(num_brushes, num_brush_heads, num_paste_kits) ==
  IF num_brushes * brush_wgt + num_brush_heads * brush_head_wgt < first_class_wgt_limit
  THEN "first" ELSE "priority"

calculate_shipping_method(num_brushes, num_brush_heads, num_paste_kits) ==
  IF num_brushes * brush_wgt + num_brush_heads * brush_head_wgt
       + num_paste_kits * paste_kit_wgt < first_class_wgt_limit
  THEN "first" ELSE "priority"

compute_refill_dates(effective_date) == [i \in 1..4 |-> effective_date + 90 * i]

-----------------------------------------------------------------------------
(* How a call starts and ends. *)

Between == call = "none" /\ UNCHANGED familyVars

Start(op, f) ==
  /\ call' = op
  /\ preferences' = get_brush_preferences(f)
  /\ at' = 1
  /\ box' = << >>
  /\ boxes' = << >>
  /\ UNCHANGED <<has_starter_box_shipped, answer>>

(* An end without boxes, whether the call refuses or raises. *)
EndWith(how) ==
  /\ call' = "none"
  /\ preferences' = << >>
  /\ at' = 1
  /\ box' = << >>
  /\ boxes' = << >>
  /\ answer' = how
  /\ UNCHANGED has_starter_box_shipped

LoadFamily(f, rows) ==
  /\ call = "none"
  /\ Load(f, rows)
  /\ family_data_arg' = f
  /\ EndWith("loaded")

(* CSV.read raises: no such file, or not a CSV file. *)
LoadUnreadable(f) ==
  /\ Between
  /\ family_data_arg' = f
  /\ EndWith("raised")

ShipStarterBox(f) ==
  /\ Between
  /\ family_data_arg' = f
  /\ \/ get_brush_preferences(f) # Nil /\ Start("starter", f)
     \/ get_brush_preferences(f) = Nil /\ EndWith("NO STARTER BOXES GENERATED")

HasEffectiveDate(f) ==
  contract_effective_date[f] # Nil /\ Day[contract_effective_date[f]] # Nil

(* Mutant: nobody asks whether a starter box has been shipped. *)
ShipRefillBoxesAnyTime(f) ==
  /\ Between
  /\ family_data_arg' = f
  /\ \/ get_brush_preferences(f) = Nil /\ EndWith("PLEASE LOAD USER PREFERENCES")
     \/ get_brush_preferences(f) # Nil /\ HasEffectiveDate(f) /\ Start("refill", f)
     \/ get_brush_preferences(f) # Nil /\ ~ HasEffectiveDate(f) /\ EndWith("raised")

ShipRefillBoxes(f) ==
  /\ Between
  /\ family_data_arg' = f
  /\ \/ ~ has_starter_box_shipped /\ EndWith("NO STARTER BOXES GENERATED")
     \/ /\ has_starter_box_shipped
        /\ get_brush_preferences(f) = Nil
        /\ EndWith("PLEASE LOAD USER PREFERENCES")
     \/ /\ has_starter_box_shipped
        /\ get_brush_preferences(f) # Nil
        /\ HasEffectiveDate(f)
        /\ Start("refill", f)
     \* Date.parse raises
     \/ /\ has_starter_box_shipped
        /\ get_brush_preferences(f) # Nil
        /\ ~ HasEffectiveDate(f)
        /\ EndWith("raised")

-----------------------------------------------------------------------------
(* The loops. *)

Capacity(op) == IF op = "starter" THEN 2 ELSE 4

(* Mutant: the branch for more heads than there is space is missing. *)
RefillPortionNoSplit(left, items_in_box) ==
  LET space_left == 4 - items_in_box
  IN  IF left = 1 \/ space_left = 1 THEN 1
      ELSE IF left <= space_left THEN left ELSE 0

(* How many of the current colour one iteration packs. *)
StarterPortion(left, brushes_in_box) ==
  IF brushes_in_box = 0 /\ left >= 2 THEN 2 ELSE 1

RefillPortion(left, items_in_box) ==
  LET space_left == 4 - items_in_box
  IN  IF left = 1 \/ space_left = 1 THEN 1
      ELSE IF left <= space_left THEN left
      ELSE space_left

Portion(op, left, packed) ==
  IF op = "starter" THEN StarterPortion(left, packed) ELSE RefillPortion(left, packed)

Copies(colour, n) == [i \in 1..n |-> colour]

(* preference[1] -= n *)
Less(preference, n) ==
  [colour |-> preference.colour, count |-> preference.count - n]

(* A box with n kits, n brushes and heads or n heads alone is closed. *)
StarterBox(contents, n) ==
  [brushes  |-> contents,
   heads    |-> contents,
   kits     |-> n,
   schedule |-> <<contract_effective_date[family_data_arg]>>,
   mail     |-> calculate_shipping_method(n, n, n)]

RefillBox(contents, n) ==
  [brushes  |-> << >>,
   heads    |-> contents,
   kits     |-> n,
   schedule |-> compute_refill_dates(Day[contract_effective_date[family_data_arg]]),
   mail     |-> calculate_shipping_method(0, n, n)]

Closed(contents, n) ==
  IF call = "starter" THEN StarterBox(contents, n) ELSE RefillBox(contents, n)

(* Only a starter box is closed with a date nobody has checked. *)
CanClose == call = "starter" => contract_effective_date[family_data_arg] # Nil

InLoop == UNCHANGED <<familyVars, has_starter_box_shipped, call, family_data_arg, answer>>

(* The conditions of the each and of the while loop. *)
MorePreferences == at <= Len(preferences)

MoreToPack == MorePreferences /\ preferences[at].count > 0

NextPortion == Portion(call, preferences[at].count, Len(box))

(* One iteration of the while loop. *)
Pack ==
  LET contents == box \o Copies(preferences[at].colour, NextPortion)
  IN
  /\ call # "none" /\ MoreToPack
  /\ preferences[at].colour # Nil
  /\ preferences' = [preferences EXCEPT ![at] = Less(@, NextPortion)]
  /\ \/ /\ Len(contents) # Capacity(call)
        /\ box' = contents
        /\ UNCHANGED boxes
     \/ /\ Len(contents) = Capacity(call)
        /\ CanClose
        /\ box' = << >>
        /\ boxes' = Append(boxes, Closed(contents, Capacity(call)))
  /\ UNCHANGED at
  /\ InLoop

(* The while loop is left and each goes on to the next pair. *)
NextPreference ==
  /\ call # "none" /\ MorePreferences /\ ~ MoreToPack
  /\ at' = at + 1
  /\ UNCHANGED <<preferences, box, boxes>>
  /\ InLoop

(* String << nil raises: the colour, or the date of a starter box, is nil. *)
Raise ==
  /\ call # "none"
  /\ \/ MoreToPack /\ preferences[at].colour = Nil
     \/ MoreToPack /\ Len(box) + NextPortion = Capacity(call) /\ ~ CanClose
     \/ ~ MorePreferences /\ box # << >> /\ ~ CanClose
  /\ EndWith("raised")
  /\ UNCHANGED <<familyVars, family_data_arg>>

(* Mutant: a box that is not full stays behind. *)
ReturnFullBoxes ==
  /\ call # "none" /\ ~ MorePreferences
  /\ box = << >> \/ CanClose
  /\ preferences' = << >> /\ at' = 1 /\ box' = << >>
  /\ has_starter_box_shipped' = (has_starter_box_shipped \/ call = "starter")
  /\ answer' = (IF call = "starter" THEN "starter boxes" ELSE "refill boxes")
  /\ call' = "none"
  /\ UNCHANGED <<boxes, familyVars, family_data_arg>>

(* Mutant: the flag is not set. *)
ReturnUnflagged ==
  /\ call # "none" /\ ~ MorePreferences
  /\ \/ box = << >> /\ UNCHANGED boxes
     \/ box # << >> /\ CanClose /\ boxes' = Append(boxes, Closed(box, Len(box)))
  /\ preferences' = << >> /\ at' = 1 /\ box' = << >>
  /\ answer' = (IF call = "starter" THEN "starter boxes" ELSE "refill boxes")
  /\ call' = "none"
  /\ UNCHANGED <<has_starter_box_shipped, familyVars, family_data_arg>>

(* After the loops: what is left in the open box goes out, too. *)
Return ==
  /\ call # "none" /\ ~ MorePreferences
  /\ \/ box = << >> /\ UNCHANGED boxes
     \/ box # << >> /\ CanClose /\ boxes' = Append(boxes, Closed(box, Len(box)))
  /\ preferences' = << >>
  /\ at' = 1
  /\ box' = << >>
  /\ has_starter_box_shipped' = (has_starter_box_shipped \/ call = "starter")
  /\ answer' = (IF call = "starter" THEN "starter boxes" ELSE "refill boxes")
  /\ call' = "none"
  /\ UNCHANGED <<familyVars, family_data_arg>>

Manager ==
  \E f \in Family :
    \/ \E rows \in File : LoadFamily(f, rows)
    \/ LoadUnreadable(f)
    \/ ShipStarterBox(f)
    \/ ShipRefillBoxes(f)

Continue == Pack \/ NextPreference \/ Raise \/ Return

Next == Manager \/ Continue

Spec == Init /\ [][Next]_vars

(* A call runs until it ends; the manager may never make another. *)
FairSpec == Spec /\ WF_vars(Continue)

-----------------------------------------------------------------------------
(***************************************************************************)
(* Safety.                                                                 *)
(***************************************************************************)

(* The operation the boxes come from. *)
Operation ==
  IF call # "none" THEN call
  ELSE IF answer = "starter boxes" THEN "starter" ELSE "refill"

Weight(b) ==
  Len(b.brushes) * brush_wgt + Len(b.heads) * brush_head_wgt + b.kits * paste_kit_wgt

TruthfulBox(b, op) ==
  /\ Len(b.heads) \in 1..Capacity(op)
  /\ b.brushes = IF op = "starter" THEN b.heads ELSE << >>
  /\ b.kits = Len(b.heads)
  /\ b.mail = "first" <=> Weight(b) < first_class_wgt_limit

(* Whatever the loops carry over from colour to colour, every box written
   is what its text says: within the capacity, only the last one partly
   filled, one kit for each member it serves, and the mail class that its
   real weight gives, not the numbers the code passes by hand.             *)
BoxesTruthful ==
  \A i \in DOMAIN boxes :
    /\ TruthfulBox(boxes[i], Operation)
    /\ call # "none" \/ i # Len(boxes) => Len(boxes[i].heads) = Capacity(Operation)

HeadsIn(list, c) == Cardinality({i \in DOMAIN list : list[i] = c})

Written(c) ==
  Cardinality({p \in (1..Len(boxes)) \X (1..4) :
                 p[2] \in DOMAIN boxes[p[1]].heads /\ boxes[p[1]].heads[p[2]] = c})

StillToPack(c) ==
  Cardinality(UNION {{k} \X (1..preferences[k].count) :
                       k \in {k \in DOMAIN preferences : preferences[k].colour = c}})

(* At every iteration, and when the call has returned, the heads in closed
   boxes, in the open box and still to be packed are exactly one for every
   member of the family who asked for the colour.                          *)
NoHeadLostOrAdded ==
  call # "none" \/ answer \in {"starter boxes", "refill boxes"} =>
    \A c \in Colour :
      Written(c) + HeadsIn(box, c) + StillToPack(c)
        = HeadsIn(brush_preferences[family_data_arg], c)
=============================================================================
