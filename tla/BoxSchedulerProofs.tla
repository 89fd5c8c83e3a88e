------------------------- MODULE BoxSchedulerProofs -------------------------
(***************************************************************************)
(* Theorems about BoxScheduler: type correctness, the truth of every box   *)
(* and no head lost or added, for any families, files, colours and dates.  *)
(* First, lemmas about what a Family keeps of a file.  Then, with the      *)
(* history variable of MCBoxScheduler, the dates of refills after starter  *)
(* boxes and that the scheduler keeps ShippingPromise.  Last, the report of*)
(* BoxingKata, over any BoxScheduler.                                      *)
(***************************************************************************)
EXTENDS BoxingKata, MCBoxScheduler, SequenceTheorems, FiniteSetTheorems, WellFoundedInduction, TLAPS


(* A set of naturals has a least element: among the intervals 1..y there is
   one that contains no other strictly.                                    *)
LEMMA MinOfNaturals ==
  ASSUME NEW S \in SUBSET Nat, S # {}
  PROVE  Sets!Min(S) \in S /\ \A y \in S : Sets!Min(S) <= y
<1> DEFINE Upto == {1..y : y \in S}
<1>1. Upto \subseteq FiniteSubsetsOf(Nat) /\ Upto # {}
  <2>1. \A y \in S : 1..y \in SUBSET Nat /\ IsFiniteSet(1..y)
    BY FS_Interval
  <2> QED
    BY <2>1, Zenon DEF FiniteSubsetsOf
<1>2. PICK X \in Upto : \A Y \in Upto : ~ (<<Y, X>> \in StrictSubsetOrdering(Nat))
  BY <1>1, FS_StrictSubsetOrderingWellFounded, WFMin
<1>3. PICK x \in S : X = 1..x
  BY <1>2
<1>4. \A y \in S : x <= y
  <2> SUFFICES ASSUME NEW y \in S, y < x
               PROVE  FALSE
    OBVIOUS
  <2>1. 1..y \subseteq 1..x /\ 1..y # 1..x
    BY x \in 1..x, x \notin 1..y
  <2>2. <<1..y, 1..x>> \in StrictSubsetOrdering(Nat)
    BY <2>1 DEF StrictSubsetOrdering
  <2> QED
    BY <1>2, <1>3, <2>2
<1> QED
  BY <1>4 DEF Sets!Min

(* FirstSet yields an entry of the column, or what was there before. *)
LEMMA FirstSetType ==
  ASSUME NEW T, NEW old \in T \cup {Nil}, NEW column \in Seq(T \cup {Nil})
  PROVE  FirstSet(old, column) \in T \cup {Nil}
<1> DEFINE given == {i \in DOMAIN column : column[i] # Nil}
<1>1. CASE old # Nil \/ given = {}
  BY <1>1 DEF FirstSet
<1>2. CASE ~ (old # Nil \/ given = {})
  <2>1. Sets!Min(given) \in given
    BY <1>2, MinOfNaturals
  <2>2. column[Sets!Min(given)] \in T \cup {Nil}
    BY <2>1
  <2> QED
    BY <1>2, <2>2 DEF FirstSet
<1> QED
  BY <1>1, <1>2

(* A function on 1..n is a sequence of length n. *)
LEMMA FunctionIsSequence ==
  ASSUME NEW S, NEW n \in Nat, NEW f \in [1..n -> S]
  PROVE  f \in Seq(S) /\ Len(f) = n
<1>1. f \in Seq(S)
  BY SeqDef
<1>2. DOMAIN f = 1..n
  OBVIOUS
<1>3. Len(f) \in Nat /\ DOMAIN f = 1..Len(f)
  BY <1>1, LenProperties
<1> QED
  BY <1>1, <1>2, <1>3

(* The columns of a file, and their types. *)
LEMMA ColumnTypes ==
  ASSUME NEW rows \in Seq(Row)
  PROVE  /\ Colours(rows) \in Seq(Colour \cup {Nil})
         /\ PrimaryIds(rows) \in Seq(Id \cup {Nil})
         /\ EffectiveDates(rows) \in Seq(DateText \cup {Nil})
<1>1. Len(rows) \in Nat /\ DOMAIN rows = 1..Len(rows)
  BY LenProperties
<1>2. \A i \in 1..Len(rows) : rows[i] \in Row
  BY ElementOfSeq
<1>3. Colours(rows) \in [1..Len(rows) -> Colour \cup {Nil}]
  BY <1>1, <1>2 DEF Colours, Row
<1>4. PrimaryIds(rows) \in [1..Len(rows) -> Id \cup {Nil}]
  BY <1>1, <1>2 DEF PrimaryIds, Row
<1>5. EffectiveDates(rows) \in [1..Len(rows) -> DateText \cup {Nil}]
  BY <1>1, <1>2 DEF EffectiveDates, Row
<1> QED
  BY <1>1, <1>3, <1>4, <1>5, FunctionIsSequence

(* The counted Hash has one pair for every entry of the list. *)
LEMMA TallyType ==
  ASSUME NEW T, NEW list \in Seq(T)
  PROVE  /\ Tally(list) \in Seq([colour : T, count : Nat])
         /\ Len(Tally(list)) = Len(list)
<1> DEFINE count(i) == IF \E j \in 1..(i - 1) : list[j] = list[i] THEN 0
                       ELSE Cardinality({j \in DOMAIN list : list[j] = list[i]})
<1>1. DOMAIN list = 1..Len(list) /\ Len(list) \in Nat
  BY LenProperties
<1>2. \A i \in DOMAIN list : count(i) \in Nat
  <2>1. IsFiniteSet(DOMAIN list)
    BY <1>1, FS_Interval
  <2>2. \A i : IsFiniteSet({j \in DOMAIN list : list[j] = list[i]})
    BY <2>1, FS_Subset
  <2> QED
    BY <2>2, FS_CardinalityType
<1>3. Tally(list) = [i \in DOMAIN list |-> [colour |-> list[i], count |-> count(i)]]
  BY DEF Tally
<1> HIDE DEF count
<1>4. Tally(list) \in [1..Len(list) -> [colour : T, count : Nat]]
  BY <1>1, <1>2, <1>3
<1> QED
  BY <1>1, <1>4, FunctionIsSequence

(* A load leaves well-typed families. *)
LEMMA LoadType ==
  ASSUME FamiliesTypeOK, NEW f \in Family, NEW rows \in File, Load(f, rows)
  PROVE  FamiliesTypeOK'
<1>1. rows \in Seq(Row)
  BY FileType
<1>2. /\ Colours(rows) \in Seq(Colour \cup {Nil})
      /\ PrimaryIds(rows) \in Seq(Id \cup {Nil})
      /\ EffectiveDates(rows) \in Seq(DateText \cup {Nil})
  BY <1>1, ColumnTypes
<1>3. \A old \in Id \cup {Nil} : FirstSet(old, PrimaryIds(rows)) \in Id \cup {Nil}
  BY <1>2, FirstSetType
<1>4. \A old \in DateText \cup {Nil} :
        FirstSet(old, EffectiveDates(rows)) \in DateText \cup {Nil}
  BY <1>2, FirstSetType
<1> QED
  BY <1>1, <1>2, <1>3, <1>4 DEF Load, FamiliesTypeOK


-----------------------------------------------------------------------------
(***************************************************************************)
(* The local variables of a call.  Between calls they are empty; in a call *)
(* the open box has room; the date of a refill has been parsed.            *)
(***************************************************************************)
CallInv ==
  /\ call = "none" => preferences = << >> /\ box = << >>
  /\ call # "none" => Len(box) < Capacity(call)
  /\ call = "refill" => HasEffectiveDate(family_data_arg)

SchedulerInv == TypeOK /\ CallInv

(* A portion is at most what is left, and never overfills the box. *)
LEMMA PortionFits ==
  ASSUME NEW op \in {"starter", "refill"}, NEW left \in Nat, left > 0,
         NEW packed \in Nat, packed < Capacity(op)
  PROVE  /\ Portion(op, left, packed) \in 1..left
         /\ packed + Portion(op, left, packed) <= Capacity(op)
<1>1. CASE op = "starter"
  BY <1>1 DEF Portion, StarterPortion, Capacity
<1>2. CASE op = "refill"
  BY <1>2 DEF Portion, RefillPortion, Capacity
<1> QED
  BY <1>1, <1>2

LEMMA CopiesType ==
  ASSUME NEW colour \in Colour, NEW n \in Nat
  PROVE  Copies(colour, n) \in Seq(Colour) /\ Len(Copies(colour, n)) = n
<1>1. Copies(colour, n) \in [1..n -> Colour]
  BY DEF Copies
<1> QED
  BY <1>1, FunctionIsSequence

(* A box that can be closed is a box. *)
LEMMA ClosedType ==
  ASSUME TypeOK, CallInv, call # "none", CanClose,
         NEW contents \in Seq(Colour), NEW n \in Nat
  PROVE  Closed(contents, n) \in Box
<1> DEFINE date == contract_effective_date[family_data_arg]
<1>1. \A a, b, c : calculate_shipping_method(a, b, c) \in {"first", "priority"}
  BY DEF calculate_shipping_method
<1>2. date \in DateText \cup {Nil}
  BY DEF TypeOK, FamiliesTypeOK
<1>3. CASE call = "starter"
  <2>1. <<date>> \in Seq(Int \cup DateText)
    BY <1>2, <1>3 DEF CanClose
  <2> QED
    BY <1>1, <1>3, <2>1 DEF Closed, StarterBox, Box
<1>4. CASE call = "refill"
  <2>1. Day[date] \in Int
    BY <1>2, <1>4, DayType DEF CallInv, HasEffectiveDate
  <2>2. compute_refill_dates(Day[date]) \in [1..4 -> Int \cup DateText]
    BY <2>1 DEF compute_refill_dates
  <2>3. compute_refill_dates(Day[date]) \in Seq(Int \cup DateText)
    BY <2>2, FunctionIsSequence
  <2>4. << >> \in Seq(Colour)
    BY EmptySeq
  <2> QED
    BY <1>1, <1>4, <2>3, <2>4 DEF Closed, RefillBox, Box
<1> QED
  BY <1>3, <1>4 DEF TypeOK

-----------------------------------------------------------------------------
(***************************************************************************)
(* Type correctness.                                                       *)
(***************************************************************************)

(* What one iteration of the while loop takes and where it puts it. *)
LEMMA PackedContents ==
  ASSUME SchedulerInv, Pack
  PROVE  LET contents == box \o Copies(preferences[at].colour, NextPortion)
         IN  /\ call \in {"starter", "refill"} /\ at \in 1..Len(preferences)
             /\ preferences[at] \in Preference
             /\ NextPortion \in 1..preferences[at].count
             /\ Capacity(call) \in Nat
             /\ contents \in Seq(Colour)
             /\ Len(contents) \in 1..Capacity(call)
<1> USE DEF SchedulerInv
<1> DEFINE contents == box \o Copies(preferences[at].colour, NextPortion)
<1>1. call \in {"starter", "refill"} /\ at \in 1..Len(preferences)
  <2>1. Len(preferences) \in Nat /\ at \in 1..(Len(preferences) + 1)
    BY LenProperties DEF TypeOK
  <2>2. at <= Len(preferences) /\ call # "none"
    BY DEF Pack, MoreToPack, MorePreferences
  <2>3. call \in {"starter", "refill"}
    BY <2>2 DEF TypeOK
  <2>4. at \in 1..Len(preferences)
    BY <2>1, <2>2
  <2> QED
    BY <2>3, <2>4
<1>2. /\ preferences[at] \in Preference
      /\ preferences[at].count \in Nat /\ preferences[at].count > 0
      /\ preferences[at].colour \in Colour
      /\ Len(box) \in Nat /\ Len(box) < Capacity(call)
      /\ Capacity(call) \in Nat
  <2>1. preferences[at] \in Preference
    BY <1>1, ElementOfSeq DEF TypeOK
  <2>2. Len(box) \in Nat /\ Len(box) < Capacity(call)
    BY <1>1, LenProperties DEF TypeOK, CallInv
  <2> QED
    BY <2>1, <2>2 DEF Pack, MoreToPack, Preference, Capacity
<1>3. /\ NextPortion \in 1..preferences[at].count
      /\ Len(box) + NextPortion <= Capacity(call)
  BY <1>1, <1>2, PortionFits DEF NextPortion
<1>4. /\ contents \in Seq(Colour)
      /\ Len(contents) = Len(box) + NextPortion
  <2>1. NextPortion \in Nat
    BY <1>2, <1>3
  <2>2. /\ Copies(preferences[at].colour, NextPortion) \in Seq(Colour)
        /\ Len(Copies(preferences[at].colour, NextPortion)) = NextPortion
    BY <1>2, <2>1, CopiesType
  <2> QED
    BY <2>2, ConcatProperties DEF TypeOK
<1>5. Len(contents) \in 1..Capacity(call)
  BY <1>2, <1>3, <1>4
<1> QED
  BY <1>1, <1>2, <1>3, <1>4, <1>5

LEMMA PackKeepsInv ==
  ASSUME SchedulerInv, Pack
  PROVE  SchedulerInv'
<1> USE DEF SchedulerInv
<1> DEFINE contents == box \o Copies(preferences[at].colour, NextPortion)
<1>1. call \in {"starter", "refill"} /\ at \in 1..Len(preferences)
  BY PackedContents
<1>2. /\ preferences[at] \in Preference /\ NextPortion \in 1..preferences[at].count
      /\ Capacity(call) \in Nat
  BY PackedContents
<1>4. contents \in Seq(Colour) /\ Len(contents) \in 1..Capacity(call)
  BY PackedContents
<1>5. /\ preferences' \in Seq(Preference)
      /\ Len(preferences') = Len(preferences)
  <2>1. Less(preferences[at], NextPortion) \in Preference
    BY <1>1, <1>2 DEF Less, Preference
  <2>2. preferences' = [preferences EXCEPT ![at] = Less(preferences[at], NextPortion)]
    BY DEF Pack
  <2> QED
    BY <1>1, <2>1, <2>2, ExceptSeq DEF TypeOK
<1>6. /\ box' \in Seq(Colour)
      /\ Len(box') < Capacity(call)
      /\ boxes' \in Seq(Box)
  <2>1. CASE Len(contents) # Capacity(call)
    <3>1. box' = contents /\ boxes' = boxes
      BY <2>1 DEF Pack
    <3>2. Len(contents) < Capacity(call)
      BY <1>2, <1>4, <2>1
    <3> HIDE DEF contents
    <3> QED
      BY <1>4, <3>1, <3>2 DEF TypeOK
  <2>2. CASE Len(contents) = Capacity(call)
    <3>1. /\ box' = << >> /\ CanClose
          /\ boxes' = Append(boxes, Closed(contents, Capacity(call)))
      BY <2>2 DEF Pack
    <3>2. Closed(contents, Capacity(call)) \in Box
      BY <1>1, <1>2, <1>4, <3>1, ClosedType
    <3>3. << >> \in Seq(Colour) /\ Len(<< >>) < Capacity(call)
      BY EmptySeq DEF Capacity
    <3> HIDE DEF contents
    <3> QED
      BY <3>1, <3>2, <3>3, AppendProperties DEF TypeOK
  <2> QED
    BY <2>1, <2>2
<1> HIDE DEF contents
<1> QED
  BY <1>1, <1>5, <1>6
  DEF Pack, InLoop, familyVars, TypeOK, FamiliesTypeOK, CallInv, HasEffectiveDate

(* What a call leaves behind when it has ended. *)
LEMMA NoBoxNoHead ==
  /\ << >> \in Seq(Preference) /\ << >> \in Seq(Colour) /\ << >> \in Seq(Box)
  /\ 1 \in 1..(Len(<< >>) + 1)
<1>1. Len(<< >>) = 0
  OBVIOUS
<1> QED
  BY <1>1, EmptySeq

LEMMA EndWithKeepsInv ==
  ASSUME SchedulerInv, FamiliesTypeOK', family_data_arg' \in Family,
         NEW how \in {"loaded", "raised", "NO STARTER BOXES GENERATED",
                      "PLEASE LOAD USER PREFERENCES"},
         EndWith(how)
  PROVE  SchedulerInv'
<1>1. preferences' = << >> /\ at' = 1 /\ box' = << >> /\ boxes' = << >> /\ call' = "none"
  BY DEF EndWith
<1>2. at' \in 1..(Len(preferences') + 1)
  BY <1>1, NoBoxNoHead
<1>3. TypeOK'
  BY <1>1, <1>2, NoBoxNoHead DEF EndWith, SchedulerInv, TypeOK
<1>4. CallInv'
  BY <1>1 DEF CallInv
<1> QED
  BY <1>3, <1>4 DEF SchedulerInv

LEMMA StartKeepsInv ==
  ASSUME SchedulerInv, NEW f \in Family, NEW op \in {"starter", "refill"},
         op = "refill" => HasEffectiveDate(f),
         UNCHANGED familyVars, family_data_arg' = f,
         get_brush_preferences(f) # Nil, Start(op, f)
  PROVE  SchedulerInv'
<1>1. preferences' \in Seq(Preference)
  BY TallyType
  DEF Start, get_brush_preferences, SchedulerInv, TypeOK, FamiliesTypeOK, Preference
<1>2. Len(preferences') \in Nat
  BY <1>1, LenProperties
<1>3. at' \in 1..(Len(preferences') + 1)
  BY <1>2 DEF Start
<1>4. << >> \in Seq(Colour) /\ << >> \in Seq(Box) /\ Len(<< >>) < Capacity(op)
  BY EmptySeq DEF Capacity
<1>5. HasEffectiveDate(f) => HasEffectiveDate(f)'
  BY DEF HasEffectiveDate, familyVars
<1> QED
  BY <1>1, <1>3, <1>4, <1>5
  DEF Start, SchedulerInv, TypeOK, FamiliesTypeOK, familyVars, CallInv

LEMMA ReturnKeepsInv ==
  ASSUME SchedulerInv, Return
  PROVE  SchedulerInv'
<1>1. boxes' \in Seq(Box)
  <2>1. CASE box = << >>
    BY <2>1 DEF Return, SchedulerInv, TypeOK
  <2>2. CASE box # << >>
    <3>1. boxes' = Append(boxes, Closed(box, Len(box))) /\ CanClose /\ call # "none"
      BY <2>2 DEF Return
    <3>2. Closed(box, Len(box)) \in Box
      BY <3>1, ClosedType, LenProperties DEF SchedulerInv, TypeOK
    <3> QED
      BY <3>1, <3>2, AppendProperties DEF SchedulerInv, TypeOK
  <2> QED
    BY <2>1, <2>2
<1>2. preferences' = << >> /\ at' = 1 /\ box' = << >> /\ call' = "none"
  BY DEF Return
<1>3. at' \in 1..(Len(preferences') + 1)
  BY <1>2, NoBoxNoHead
<1>4. has_starter_box_shipped' \in BOOLEAN
  BY DEF Return, SchedulerInv, TypeOK
<1>5. FamiliesTypeOK' /\ family_data_arg' \in Family
  BY DEF Return, SchedulerInv, TypeOK, FamiliesTypeOK, familyVars
<1>6. answer' \in {"starter boxes", "refill boxes"}
  BY DEF Return
<1>7. TypeOK'
  BY <1>1, <1>2, <1>3, <1>4, <1>5, <1>6, NoBoxNoHead DEF TypeOK
<1>8. CallInv'
  BY <1>2 DEF CallInv
<1> QED
  BY <1>7, <1>8 DEF SchedulerInv

(* A call never meets a value of the wrong kind: the counts stay naturals
   while they are counted down, the cursor stays inside the Hash, the open
   box has room at every iteration, and a refill is never dated by nil
   (box_scheduler.rb:7-113).                                               *)
LEMMA SchedulerInvInductive == Spec => []SchedulerInv
<1>1. Init => SchedulerInv
  <2> SUFFICES ASSUME Init
               PROVE  SchedulerInv
    OBVIOUS
  <2>1. at \in 1..(Len(preferences) + 1)
    BY NoBoxNoHead DEF Init
  <2>2. FamiliesTypeOK
    BY DEF Init, FamiliesInit, FamiliesTypeOK
  <2> QED
    BY <2>1, <2>2, NoBoxNoHead DEF Init, SchedulerInv, TypeOK, CallInv
<1>2. SchedulerInv /\ [Next]_vars => SchedulerInv'
  <2> SUFFICES ASSUME SchedulerInv, [Next]_vars
               PROVE  SchedulerInv'
    OBVIOUS
  <2>0. UNCHANGED familyVars => FamiliesTypeOK'
    BY DEF familyVars, FamiliesTypeOK, SchedulerInv, TypeOK
  <2>1. ASSUME NEW f \in Family, NEW rows \in File, LoadFamily(f, rows)
        PROVE  SchedulerInv'
    BY <2>1, LoadType, EndWithKeepsInv DEF LoadFamily, SchedulerInv, TypeOK
  <2>2. ASSUME NEW f \in Family, LoadUnreadable(f)
        PROVE  SchedulerInv'
    BY <2>0, <2>2, EndWithKeepsInv DEF LoadUnreadable, Between
  <2>3. ASSUME NEW f \in Family, ShipStarterBox(f)
        PROVE  SchedulerInv'
    BY <2>0, <2>3, EndWithKeepsInv, StartKeepsInv DEF ShipStarterBox, Between
  <2>4. ASSUME NEW f \in Family, ShipRefillBoxes(f)
        PROVE  SchedulerInv'
    BY <2>0, <2>4, EndWithKeepsInv, StartKeepsInv DEF ShipRefillBoxes, Between
  <2>5. CASE Pack
    BY <2>5, PackKeepsInv
  <2>6. CASE NextPreference
    <3>1. Len(preferences) \in Nat /\ at \in 1..(Len(preferences) + 1)
      BY LenProperties DEF SchedulerInv, TypeOK
    <3>2. at' \in 1..(Len(preferences) + 1)
      <4>1. at <= Len(preferences) /\ at' = at + 1
        BY <2>6 DEF NextPreference, MorePreferences
      <4> QED
        BY <3>1, <4>1
    <3>3. FamiliesTypeOK'
      BY <2>0, <2>6 DEF NextPreference, InLoop
    <3>4. TypeOK'
      BY <2>6, <3>2, <3>3 DEF NextPreference, InLoop, SchedulerInv, TypeOK
    <3>5. CallInv'
      BY <2>6
      DEF NextPreference, InLoop, familyVars, SchedulerInv, CallInv, HasEffectiveDate
    <3> QED
      BY <3>4, <3>5 DEF SchedulerInv
  <2>7. CASE Raise
    BY <2>0, <2>7, EndWithKeepsInv DEF Raise, SchedulerInv, TypeOK
  <2>8. CASE Return
    BY <2>8, ReturnKeepsInv
  <2>9. CASE UNCHANGED vars
    BY <2>9
    DEF vars, schedulerVars, familyVars, SchedulerInv, TypeOK, FamiliesTypeOK,
        CallInv, HasEffectiveDate
  <2> QED
    BY <2>1, <2>2, <2>3, <2>4, <2>5, <2>6, <2>7, <2>8, <2>9 DEF Next, Manager, Continue
<1> QED
  BY <1>1, <1>2, PTL DEF Spec

THEOREM SchedulerTypeCorrect == Spec => []TypeOK
BY SchedulerInvInductive, PTL DEF SchedulerInv

-----------------------------------------------------------------------------
(***************************************************************************)
(* Truthful boxes.                                                         *)
(***************************************************************************)

(* A box is written with the numbers of what is in it. *)
LEMMA ClosedIsTruthful ==
  ASSUME NEW contents \in Seq(Colour), call \in {"starter", "refill"},
         Len(contents) \in 1..Capacity(call)
  PROVE  /\ TruthfulBox(Closed(contents, Len(contents)), call)
         /\ Closed(contents, Len(contents)).heads = contents
<1> DEFINE n == Len(contents)
<1> DEFINE b == Closed(contents, n)
<1>1. n \in Nat
  BY LenProperties
<1>2. CASE call = "starter"
  <2>1. /\ b.heads = contents /\ b.brushes = contents /\ b.kits = n
        /\ b.mail = calculate_shipping_method(n, n, n)
    BY <1>2 DEF Closed, StarterBox
  <2> HIDE DEF b
  <2>2. Weight(b) = n * brush_wgt + n * brush_head_wgt + n * paste_kit_wgt
    BY <2>1 DEF Weight
  <2>3. b.mail = "first" <=> Weight(b) < first_class_wgt_limit
    BY <2>1, <2>2 DEF calculate_shipping_method
  <2>4. TruthfulBox(b, call) /\ b.heads = contents
    BY <1>2, <2>1, <2>3 DEF TruthfulBox
  <2> QED
    BY <2>4 DEF b
<1>3. CASE call = "refill"
  <2>1. /\ b.heads = contents /\ b.brushes = << >> /\ b.kits = n
        /\ b.mail = calculate_shipping_method(0, n, n)
    BY <1>3 DEF Closed, RefillBox
  <2> HIDE DEF b
  <2>2. Len(<< >>) = 0
    OBVIOUS
  <2>3. Weight(b) = 0 * brush_wgt + n * brush_head_wgt + n * paste_kit_wgt
    BY <2>1, <2>2 DEF Weight
  <2>4. b.mail = "first" <=> Weight(b) < first_class_wgt_limit
    BY <2>1, <2>3 DEF calculate_shipping_method
  <2>5. TruthfulBox(b, call) /\ b.heads = contents
    BY <1>3, <2>1, <2>4 DEF TruthfulBox
  <2> QED
    BY <2>5 DEF b
<1> QED
  BY <1>2, <1>3

(* Writing one more truthful box of the current call: full, unless the call
   returns with it.                                                        *)
LEMMA AppendTruthful ==
  ASSUME BoxesTruthful, boxes \in Seq(Box), call \in {"starter", "refill"},
         NEW b \in Box, TruthfulBox(b, call), boxes' = Append(boxes, b),
         Operation' = call,
         call' # "none" => Len(b.heads) = Capacity(call)
  PROVE  BoxesTruthful'
<1>1. Operation = call
  BY DEF Operation
<1>2. /\ Len(boxes) \in Nat /\ DOMAIN boxes = 1..Len(boxes)
      /\ Len(boxes') = Len(boxes) + 1
      /\ DOMAIN boxes' = 1..(Len(boxes) + 1)
      /\ boxes'[Len(boxes) + 1] = b
      /\ \A i \in 1..Len(boxes) : boxes'[i] = boxes[i]
  BY AppendProperties, LenProperties
<1>3. ASSUME NEW i \in DOMAIN boxes'
      PROVE  /\ TruthfulBox(boxes'[i], call)
             /\ call' # "none" \/ i # Len(boxes') => Len(boxes'[i].heads) = Capacity(call)
  <2>1. CASE i = Len(boxes) + 1
    BY <1>2, <2>1
  <2>2. CASE i # Len(boxes) + 1
    <3>1. i \in DOMAIN boxes /\ boxes'[i] = boxes[i]
      BY <1>2, <1>3, <2>2
    <3> QED
      BY <1>1, <3>1 DEF BoxesTruthful
  <2> QED
    BY <2>1, <2>2
<1> QED
  BY <1>3 DEF BoxesTruthful, TruthfulBox, Capacity

(* Every box a scheduler ever writes is what its text says, for any family,
   any list of colours and any order of calls (box_scheduler.rb:7-149).    *)
THEOREM BoxesAlwaysTruthful == Spec => []BoxesTruthful
<1>1. Init => BoxesTruthful
  BY DEF Init, BoxesTruthful
<1>2. SchedulerInv /\ SchedulerInv' /\ BoxesTruthful /\ [Next]_vars => BoxesTruthful'
  <2> SUFFICES ASSUME SchedulerInv, SchedulerInv', BoxesTruthful, [Next]_vars
               PROVE  BoxesTruthful'
    OBVIOUS
  <2>0. boxes' = << >> => BoxesTruthful'
    BY DEF BoxesTruthful
  <2>1. CASE Manager
    BY <2>0, <2>1
    DEF Manager, LoadFamily, LoadUnreadable, ShipStarterBox, ShipRefillBoxes, Start, EndWith
  <2>2. CASE Pack
    <3> DEFINE contents == box \o Copies(preferences[at].colour, NextPortion)
    <3>1. call \in {"starter", "refill"} /\ call' = call /\ boxes \in Seq(Box)
      BY <2>2 DEF Pack, InLoop, SchedulerInv, TypeOK
    <3>2. Operation = call /\ Operation' = call
      BY <3>1 DEF Operation
    <3>3. CASE boxes' = boxes
      BY <3>1, <3>2, <3>3 DEF BoxesTruthful, TruthfulBox, Capacity
    <3>4. CASE boxes' # boxes
      <4>1. /\ Len(contents) = Capacity(call)
            /\ boxes' = Append(boxes, Closed(contents, Len(contents)))
            /\ CanClose
        BY <2>2, <3>4 DEF Pack
      <4>2. contents \in Seq(Colour) /\ Len(contents) \in 1..Capacity(call)
        BY <4>1, <2>2, PackedContents DEF Capacity
      <4> HIDE DEF contents
      <4>3. /\ TruthfulBox(Closed(contents, Len(contents)), call)
            /\ Closed(contents, Len(contents)).heads = contents
        BY <3>1, <4>2, ClosedIsTruthful
      <4>4. Closed(contents, Len(contents)) \in Box
        BY <3>1, <4>1, <4>2, ClosedType DEF SchedulerInv
      <4> QED
        BY <3>1, <3>2, <4>1, <4>3, <4>4, AppendTruthful
    <3> QED
      BY <3>3, <3>4
  <2>3. CASE Return
    <3>1. call \in {"starter", "refill"} /\ call' = "none" /\ boxes \in Seq(Box)
      BY <2>3 DEF Return, SchedulerInv, TypeOK
    <3>2. Operation = call /\ Operation' = call
      BY <2>3, <3>1 DEF Return, Operation
    <3>3. CASE box = << >>
      BY <2>3, <3>1, <3>2, <3>3 DEF Return, BoxesTruthful, TruthfulBox, Capacity
    <3>4. CASE box # << >>
      <4>1. boxes' = Append(boxes, Closed(box, Len(box))) /\ CanClose
        BY <2>3, <3>4 DEF Return
      <4>2. box \in Seq(Colour) /\ Len(box) \in 1..Capacity(call)
        <5>1. box \in Seq(Colour) /\ Len(box) < Capacity(call)
          BY <3>1 DEF SchedulerInv, TypeOK, CallInv
        <5>2. Len(box) \in Nat /\ Len(box) # 0
          BY <3>4, <5>1, LenProperties, EmptySeq
        <5> QED
          BY <3>1, <5>1, <5>2 DEF Capacity
      <4>3. TruthfulBox(Closed(box, Len(box)), call)
        BY <3>1, <4>2, ClosedIsTruthful
      <4>4. Closed(box, Len(box)) \in Box
        BY <3>1, <4>1, <4>2, ClosedType DEF SchedulerInv
      <4> QED
        BY <3>1, <3>2, <4>1, <4>3, <4>4, AppendTruthful
    <3> QED
      BY <3>3, <3>4
  <2>4. CASE NextPreference \/ UNCHANGED vars
    <3>1. boxes' = boxes /\ call' = call /\ answer' = answer
      BY <2>4 DEF NextPreference, InLoop, vars, schedulerVars
    <3> QED
      BY <3>1 DEF BoxesTruthful, TruthfulBox, Operation, Capacity
  <2>5. CASE Raise
    BY <2>0, <2>5 DEF Raise, EndWith
  <2> QED
    BY <2>1, <2>2, <2>3, <2>4, <2>5 DEF Next, Continue
<1> QED
  BY <1>1, <1>2, SchedulerInvInductive, PTL DEF Spec

-----------------------------------------------------------------------------
(***************************************************************************)
(* No head is lost or added.  The counts of the promise are the sizes of   *)
(* three sets, which an iteration of the while loop moves elements         *)
(* between.                                                                *)
(***************************************************************************)
PlacesOf(list, c) == {i \in DOMAIN list : list[i] = c}

WrittenAt(bs, c) ==
  {p \in (1..Len(bs)) \X (1..4) :
     p[2] \in DOMAIN bs[p[1]].heads /\ bs[p[1]].heads[p[2]] = c}

LeftIn(prefs, c) ==
  UNION {{k} \X (1..prefs[k].count) :
           k \in {k \in DOMAIN prefs : prefs[k].colour = c}}

LEMMA CountsAreSizes ==
  ASSUME NEW c
  PROVE  /\ \A list : HeadsIn(list, c) = Cardinality(PlacesOf(list, c))
         /\ Written(c) = Cardinality(WrittenAt(boxes, c))
         /\ StillToPack(c) = Cardinality(LeftIn(preferences, c))
BY DEF HeadsIn, PlacesOf, Written, WrittenAt, StillToPack, LeftIn

LEMMA PlacesAreFinite ==
  ASSUME NEW S, NEW list \in Seq(S), NEW c
  PROVE  IsFiniteSet(PlacesOf(list, c)) /\ Cardinality(PlacesOf(list, c)) \in Nat
<1>1. DOMAIN list = 1..Len(list) /\ Len(list) \in Nat
  BY LenProperties
<1>2. IsFiniteSet(DOMAIN list)
  BY <1>1, FS_Interval
<1>3. PlacesOf(list, c) \in SUBSET (DOMAIN list)
  BY DEF PlacesOf
<1> QED
  BY <1>2, <1>3, FS_Subset, FS_CardinalityType

(* Two finite sets without a common element. *)
LEMMA SizeOfDisjointUnion ==
  ASSUME NEW S, NEW T, IsFiniteSet(S), IsFiniteSet(T), S \cap T = {}
  PROVE  /\ IsFiniteSet(S \cup T)
         /\ Cardinality(S) \in Nat /\ Cardinality(T) \in Nat
         /\ Cardinality(S \cup T) = Cardinality(S) + Cardinality(T)
<1>1. Cardinality(S) \in Nat /\ Cardinality(T) \in Nat
  BY FS_CardinalityType
<1>2. Cardinality(S \cap T) = 0
  BY FS_EmptySet
<1>3. /\ IsFiniteSet(S \cup T)
      /\ Cardinality(S \cup T) = Cardinality(S) + Cardinality(T) - Cardinality(S \cap T)
  BY FS_Union
<1> QED
  BY <1>1, <1>2, <1>3

LEMMA SizeOfColumn ==
  ASSUME NEW x, NEW S, IsFiniteSet(S)
  PROVE  IsFiniteSet({x} \X S) /\ Cardinality({x} \X S) = Cardinality(S)
<1>1. IsFiniteSet({x}) /\ Cardinality({x}) = 1 /\ Cardinality(S) \in Nat
  BY FS_Singleton, FS_CardinalityType
<1> QED
  BY <1>1, FS_Product

(* Copies add their number to the heads of their own colour. *)
LEMMA HeadsInConcat ==
  ASSUME NEW list \in Seq(Colour), NEW colour \in Colour, NEW n \in Nat, NEW c
  PROVE  HeadsIn(list \o Copies(colour, n), c)
           = HeadsIn(list, c) + (IF colour = c THEN n ELSE 0)
<1> DEFINE l == Len(list)
           more == list \o Copies(colour, n)
           new == IF colour = c THEN (l + 1)..(l + n) ELSE {}
<1>1. l \in Nat /\ DOMAIN list = 1..l
  BY LenProperties
<1>2. /\ Len(more) = l + n /\ DOMAIN more = 1..(l + n)
      /\ \A i \in 1..(l + n) : more[i] = IF i <= l THEN list[i] ELSE colour
  <2>1. Copies(colour, n) \in Seq(Colour) /\ Len(Copies(colour, n)) = n
    BY CopiesType
  <2>2. \A i \in 1..n : Copies(colour, n)[i] = colour
    BY DEF Copies
  <2>3. /\ more \in Seq(Colour) /\ Len(more) = l + n
        /\ \A i \in 1..(l + n) : more[i] = IF i <= l THEN list[i]
                                           ELSE Copies(colour, n)[i - l]
    BY <2>1, ConcatProperties
  <2>4. DOMAIN more = 1..(l + n)
    BY <2>3, LenProperties
  <2>5. \A i \in 1..(l + n) : ~ (i <= l) => i - l \in 1..n
    BY <1>1
  <2> HIDE DEF l, more
  <2> QED
    BY <2>2, <2>3, <2>4, <2>5
<1> HIDE DEF l, more
<1>3. PlacesOf(more, c) = PlacesOf(list, c) \cup new
  BY <1>1, <1>2 DEF PlacesOf
<1>4. PlacesOf(list, c) \cap new = {}
  BY <1>1 DEF PlacesOf
<1>5. IsFiniteSet(new) /\ Cardinality(new) = IF colour = c THEN n ELSE 0
  BY <1>1, FS_Interval, FS_EmptySet
<1> HIDE DEF new
<1>6. Cardinality(PlacesOf(more, c)) = Cardinality(PlacesOf(list, c)) + Cardinality(new)
  BY <1>3, <1>4, <1>5, PlacesAreFinite, SizeOfDisjointUnion
<1> QED
  BY <1>5, <1>6 DEF more, HeadsIn, PlacesOf

(* A box that is written adds its heads. *)
LEMMA WrittenAppend ==
  ASSUME NEW bs \in Seq(Box), NEW b \in Box, Len(b.heads) <= 4, NEW c,
         \A i \in DOMAIN bs : Len(bs[i].heads) <= 4
  PROVE  Cardinality(WrittenAt(Append(bs, b), c))
           = Cardinality(WrittenAt(bs, c)) + HeadsIn(b.heads, c)
<1> DEFINE l == Len(bs)
           more == Append(bs, b)
           new == {l + 1} \X PlacesOf(b.heads, c)
<1>1. l \in Nat /\ DOMAIN bs = 1..l /\ b.heads \in Seq(Colour)
  BY LenProperties DEF Box
<1>2. /\ Len(more) = l + 1 /\ more[l + 1] = b
      /\ \A i \in 1..l : more[i] = bs[i]
  BY <1>1, AppendProperties
<1>3. PlacesOf(b.heads, c) \subseteq 1..4
  BY <1>1, LenProperties DEF PlacesOf
<1> HIDE DEF l, more
<1>4. WrittenAt(more, c) = WrittenAt(bs, c) \cup new
  <2>1. ASSUME NEW p
        PROVE  p \in WrittenAt(more, c) <=> p \in WrittenAt(bs, c) \cup new
    <3>1. p \in WrittenAt(more, c) <=>
            \E i \in 1..(l + 1), j \in 1..4 :
              p = <<i, j>> /\ j \in DOMAIN more[i].heads /\ more[i].heads[j] = c
      BY <1>2 DEF WrittenAt
    <3>2. p \in WrittenAt(bs, c) <=>
            \E i \in 1..l, j \in 1..4 :
              p = <<i, j>> /\ j \in DOMAIN bs[i].heads /\ bs[i].heads[j] = c
      BY DEF WrittenAt, l
    <3>3. p \in new <=> \E j \in 1..4 : p = <<l + 1, j>> /\ j \in PlacesOf(b.heads, c)
      BY <1>3
    <3> QED
      BY <1>1, <1>2, <3>1, <3>2, <3>3 DEF PlacesOf
  <2> QED
    BY <2>1
<1>5. WrittenAt(bs, c) \cap new = {}
  BY <1>1 DEF WrittenAt, l
<1>6. IsFiniteSet(WrittenAt(bs, c))
  <2>1. \A k \in Nat : IsFiniteSet(1..k)
    BY FS_Interval
  <2>2. WrittenAt(bs, c) \in SUBSET ((1..l) \X (1..4))
    BY DEF WrittenAt, l
  <2>3. IsFiniteSet(1..l) /\ IsFiniteSet(1..4)
    BY <1>1, <2>1
  <2> QED
    BY <2>2, <2>3, FS_Product, FS_Subset
<1>7. IsFiniteSet(new) /\ Cardinality(new) = HeadsIn(b.heads, c)
  <2>1. IsFiniteSet(PlacesOf(b.heads, c))
    BY <1>1, PlacesAreFinite
  <2> QED
    BY <2>1, SizeOfColumn, CountsAreSizes
<1> HIDE DEF new
<1> QED
  BY <1>4, <1>5, <1>6, <1>7, SizeOfDisjointUnion DEF more

LEMMA ImageIsFinite ==
  ASSUME NEW S, IsFiniteSet(S), NEW T, NEW f \in [S -> T],
         \A t \in T : \E s \in S : f[s] = t
  PROVE  IsFiniteSet(T)
BY FS_Surjection DEF Surjection

(* What is packed is left no longer. *)
LEMMA LeftIsFinite ==
  ASSUME NEW prefs \in Seq(Preference), NEW c
  PROVE  IsFiniteSet(LeftIn(prefs, c))
<1> DEFINE K == {k \in DOMAIN prefs : prefs[k].colour = c}
           columns == {{k} \X (1..prefs[k].count) : k \in K}
           f == [k \in K |-> {k} \X (1..prefs[k].count)]
<1>1. DOMAIN prefs = 1..Len(prefs) /\ Len(prefs) \in Nat
  BY LenProperties
<1>2. IsFiniteSet(K)
  <2>1. IsFiniteSet(DOMAIN prefs)
    BY <1>1, FS_Interval
  <2> QED
    BY <2>1, FS_Subset
<1>3. ASSUME NEW k \in K
      PROVE  IsFiniteSet({k} \X (1..prefs[k].count))
  <2>1. prefs[k] \in Preference
    BY <1>1, ElementOfSeq
  <2>2. IsFiniteSet(1..prefs[k].count)
    BY <2>1, FS_Interval DEF Preference
  <2> QED
    BY <2>2, SizeOfColumn
<1>4. IsFiniteSet(columns)
  <2>1. f \in [K -> columns] /\ \A T \in columns : \E k \in K : f[k] = T
    OBVIOUS
  <2> HIDE DEF f, K, columns
  <2> QED
    BY <1>2, <2>1, ImageIsFinite
<1>5. \A T \in columns : IsFiniteSet(T)
  BY <1>3
<1>6. LeftIn(prefs, c) = UNION columns
  BY DEF LeftIn
<1> HIDE DEF columns
<1> QED
  BY <1>4, <1>5, <1>6, FS_UNION

LEMMA LeftAfterPacking ==
  ASSUME NEW prefs \in Seq(Preference), NEW k \in DOMAIN prefs,
         NEW n \in 1..prefs[k].count, NEW c
  PROVE  Cardinality(LeftIn(prefs, c))
           = Cardinality(LeftIn([prefs EXCEPT ![k] = Less(@, n)], c))
               + (IF prefs[k].colour = c THEN n ELSE 0)
<1> DEFINE count == prefs[k].count
           less == [prefs EXCEPT ![k] = Less(@, n)]
           gone == IF prefs[k].colour = c THEN {k} \X ((count - n + 1)..count) ELSE {}
<1>1. count \in Nat /\ prefs[k] \in Preference
  <2>1. k \in 1..Len(prefs)
    BY LenProperties
  <2>2. prefs[k] \in Preference
    BY <2>1, ElementOfSeq
  <2> QED
    BY <2>2 DEF Preference
<1>2. Less(prefs[k], n) \in Preference
  BY <1>1 DEF Less, Preference
<1>3. /\ less \in Seq(Preference) /\ DOMAIN less = DOMAIN prefs
      /\ less[k].colour = prefs[k].colour /\ less[k].count = count - n
      /\ \A i \in DOMAIN prefs : i # k => less[i] = prefs[i]
  <2>1. less \in Seq(Preference)
    BY <1>2, ExceptSeq
  <2> QED
    BY <2>1 DEF Less
<1>4. LeftIn(prefs, c) = LeftIn(less, c) \cup gone
  <2>1. ASSUME NEW ps
        PROVE  \A p : p \in LeftIn(ps, c) <=>
                 \E i \in DOMAIN ps : /\ ps[i].colour = c
                                      /\ \E j \in 1..ps[i].count : p = <<i, j>>
    BY DEF LeftIn
  <2>2. \A j : j \in 1..count <=> j \in 1..(count - n) \/ j \in (count - n + 1)..count
    BY <1>1
  <2>3. \A p : p \in gone <=> /\ prefs[k].colour = c
                              /\ \E j \in (count - n + 1)..count : p = <<k, j>>
    OBVIOUS
  <2> HIDE DEF less, gone, count
  <2>4. ASSUME NEW p
        PROVE  p \in LeftIn(prefs, c) <=> p \in LeftIn(less, c) \/ p \in gone
    BY <1>3, <2>1, <2>2, <2>3 DEF count
  <2> QED
    BY <2>4
<1>5. LeftIn(less, c) \cap gone = {}
  <2>1. \A j \in (count - n + 1)..count : j \notin 1..(count - n)
    BY <1>1
  <2> QED
    BY <1>3, <2>1 DEF LeftIn
<1>6. IsFiniteSet(gone) /\ Cardinality(gone) = IF prefs[k].colour = c THEN n ELSE 0
  <2> DEFINE a == count - n + 1
  <2>1. a \in Int /\ count \in Int /\ ~ (a > count) /\ count - a + 1 = n
    BY <1>1
  <2> HIDE DEF a
  <2>2. IsFiniteSet(a..count) /\ Cardinality(a..count) = n
    BY <2>1, FS_Interval
  <2>3. IsFiniteSet({k} \X (a..count)) /\ Cardinality({k} \X (a..count)) = n
    BY <2>2, SizeOfColumn
  <2> QED
    BY <2>3, FS_EmptySet DEF a
<1> HIDE DEF gone
<1> QED
  BY <1>3, <1>4, <1>5, <1>6, LeftIsFinite, SizeOfDisjointUnion

(* A Hash that has just been counted holds every entry of the list once.   *)
LEMMA LeftInTally ==
  ASSUME NEW list \in Seq(Colour \cup {Nil}), NEW c
  PROVE  Cardinality(LeftIn(Tally(list), c)) = HeadsIn(list, c)
<1> DEFINE S == PlacesOf(list, c)
           n == Cardinality(S)
           t == Tally(list)
<1>0. DOMAIN list = 1..Len(list) /\ Len(list) \in Nat
  BY LenProperties
<1>1. IsFiniteSet(S) /\ n \in Nat /\ S \subseteq Nat
  <2>1. IsFiniteSet(S) /\ n \in Nat
    BY PlacesAreFinite
  <2>2. S \subseteq Nat
    BY <1>0 DEF PlacesOf
  <2> QED
    BY <2>1, <2>2
<1>2. /\ DOMAIN t = DOMAIN list
      /\ \A i \in DOMAIN list :
           /\ t[i].colour = list[i]
           /\ t[i].count = IF \E j \in 1..(i - 1) : list[j] = list[i] THEN 0
                           ELSE Cardinality({j \in DOMAIN list : list[j] = list[i]})
  BY DEF Tally
<1> HIDE DEF t
<1>3. \A p : p \in LeftIn(t, c) <=>
        \E i \in S : \E j \in 1..t[i].count : p = <<i, j>>
  <2>1. S = {i \in DOMAIN t : t[i].colour = c}
    BY <1>2 DEF PlacesOf
  <2>2. LeftIn(t, c) = UNION {{k} \X (1..t[k].count) : k \in S}
    BY <2>1 DEF LeftIn
  <2> HIDE DEF S
  <2> QED
    BY <2>2
<1>4. CASE S = {}
  <2>1. LeftIn(t, c) = {}
    BY <1>3, <1>4
  <2> QED
    BY <1>4, <2>1, CountsAreSizes DEF t
<1>5. CASE S # {}
  <2> DEFINE first == Sets!Min(S)
  <2>1. first \in S /\ \A i \in S : first <= i
    BY <1>1, <1>5, MinOfNaturals
  <2> HIDE DEF first
  <2>2. t[first].count = n
    <3>1. ~ \E j \in 1..(first - 1) : list[j] = list[first]
      BY <1>0, <1>1, <2>1 DEF PlacesOf
    <3>2. S = {j \in DOMAIN list : list[j] = list[first]}
      BY <2>1 DEF PlacesOf
    <3> HIDE DEF S
    <3> QED
      BY <1>2, <2>1, <3>1, <3>2 DEF PlacesOf, S
  <2>3. ASSUME NEW i \in S, i # first
        PROVE  t[i].count = 0
    BY <1>0, <1>1, <1>2, <2>1, <2>3 DEF PlacesOf
  <2>4. LeftIn(t, c) = {first} \X (1..n)
    <3>1. ASSUME NEW p
          PROVE  p \in LeftIn(t, c) <=> \E j \in 1..n : p = <<first, j>>
      <4>1. \A j : j \notin 1..0
        OBVIOUS
      <4> HIDE DEF S, n
      <4> QED
        BY <1>3, <2>1, <2>2, <2>3, <4>1
    <3> QED
      BY <3>1
  <2>5. IsFiniteSet(1..n) /\ Cardinality(1..n) = n
    BY <1>1, FS_Interval
  <2>6. Cardinality({first} \X (1..n)) = n
    BY <2>5, SizeOfColumn
  <2> QED
    BY <2>4, <2>6, CountsAreSizes DEF t
<1> QED
  BY <1>4, <1>5

(* The pairs behind the cursor are packed. *)
PassedArePacked == \A k \in 1..(at - 1) : preferences[k].count = 0

HeadsInv == PassedArePacked /\ NoHeadLostOrAdded

(* The sum of the promise, for a call under way or just returned. *)
HeadsAccounted(c) ==
  Written(c) + HeadsIn(box, c) + StillToPack(c)
    = HeadsIn(brush_preferences[family_data_arg], c)

LEMMA SizesAreNaturals ==
  ASSUME NEW c, NEW list \in Seq(Colour), NEW prefs \in Seq(Preference), NEW bs \in Seq(Box)
  PROVE  /\ HeadsIn(list, c) \in Nat
         /\ Cardinality(LeftIn(prefs, c)) \in Nat
         /\ Cardinality(WrittenAt(bs, c)) \in Nat
<1>1. HeadsIn(list, c) \in Nat
  BY PlacesAreFinite, CountsAreSizes
<1>2. Cardinality(LeftIn(prefs, c)) \in Nat
  BY LeftIsFinite, FS_CardinalityType
<1>3. IsFiniteSet(WrittenAt(bs, c))
  <2>1. Len(bs) \in Nat /\ \A k \in Nat : IsFiniteSet(1..k)
    BY LenProperties, FS_Interval
  <2>2. IsFiniteSet(1..Len(bs)) /\ IsFiniteSet(1..4)
    BY <2>1
  <2>3. WrittenAt(bs, c) \in SUBSET ((1..Len(bs)) \X (1..4))
    BY DEF WrittenAt
  <2> QED
    BY <2>2, <2>3, FS_Product, FS_Subset
<1> QED
  BY <1>1, <1>2, <1>3, FS_CardinalityType

LEMMA CountsAreNaturals ==
  ASSUME SchedulerInv, NEW c
  PROVE  HeadsIn(box, c) \in Nat /\ StillToPack(c) \in Nat /\ Written(c) \in Nat
<1>1. box \in Seq(Colour) /\ preferences \in Seq(Preference) /\ boxes \in Seq(Box)
  BY DEF SchedulerInv, TypeOK
<1> QED
  BY <1>1, SizesAreNaturals, CountsAreSizes

LEMMA NothingIsEmpty ==
  ASSUME NEW c
  PROVE  HeadsIn(<< >>, c) = 0 /\ Cardinality(WrittenAt(<< >>, c)) = 0
         /\ Cardinality(LeftIn(<< >>, c)) = 0
<1>1. Len(<< >>) = 0 /\ DOMAIN << >> = {}
  OBVIOUS
<1>2. PlacesOf(<< >>, c) = {} /\ WrittenAt(<< >>, c) = {} /\ LeftIn(<< >>, c) = {}
  BY <1>1 DEF PlacesOf, WrittenAt, LeftIn
<1> QED
  BY <1>2, FS_EmptySet, CountsAreSizes

LEMMA SmallBoxes ==
  ASSUME BoxesTruthful, SchedulerInv, call # "none"
  PROVE  \A i \in DOMAIN boxes : Len(boxes[i].heads) <= 4
<1>1. call \in {"starter", "refill"} /\ Operation = call
  BY DEF SchedulerInv, TypeOK, Operation
<1>2. boxes \in Seq(Box)
  BY DEF SchedulerInv, TypeOK
<1>3. ASSUME NEW i \in DOMAIN boxes
      PROVE  Len(boxes[i].heads) <= 4
  <2>1. Len(boxes[i].heads) \in 1..Capacity(call)
    BY <1>1 DEF BoxesTruthful, TruthfulBox
  <2> QED
    BY <1>1, <2>1 DEF Capacity
<1> QED
  BY <1>3

LEMMA StartCounts ==
  ASSUME SchedulerInv, SchedulerInv', NEW f \in Family, NEW op, Start(op, f),
         UNCHANGED familyVars, family_data_arg' = f, get_brush_preferences(f) # Nil
  PROVE  HeadsInv'
<1> DEFINE list == brush_preferences[f]
<1>1. list \in Seq(Colour \cup {Nil}) /\ preferences' = Tally(list)
  BY DEF SchedulerInv, TypeOK, FamiliesTypeOK, get_brush_preferences, Start
<1>2. brush_preferences'[f] = list /\ at' = 1 /\ box' = << >> /\ boxes' = << >>
  BY DEF Start, familyVars
<1> HIDE DEF list
<1>3. ASSUME NEW c \in Colour
      PROVE  HeadsAccounted(c)'
  <2>1. HeadsIn(box, c)' = 0 /\ Written(c)' = 0
    BY <1>2, NothingIsEmpty DEF Written, WrittenAt
  <2>2. StillToPack(c)' = HeadsIn(list, c)
    BY <1>1, LeftInTally DEF StillToPack, LeftIn
  <2>3. HeadsIn(list, c) \in Nat
    BY <1>1, PlacesAreFinite, CountsAreSizes
  <2> QED
    BY <1>2, <2>1, <2>2, <2>3 DEF HeadsAccounted
<1>4. PassedArePacked'
  BY <1>2 DEF PassedArePacked
<1> QED
  BY <1>3, <1>4 DEF HeadsInv, NoHeadLostOrAdded, HeadsAccounted

LEMMA PackCounts ==
  ASSUME SchedulerInv, SchedulerInv', BoxesTruthful, HeadsInv, Pack
  PROVE  HeadsInv'
<1> DEFINE contents == box \o Copies(preferences[at].colour, NextPortion)
           col == preferences[at].colour
           n == NextPortion
<1>1. /\ call \in {"starter", "refill"} /\ at \in 1..Len(preferences)
      /\ preferences[at] \in Preference /\ n \in 1..preferences[at].count
      /\ contents \in Seq(Colour) /\ Len(contents) \in 1..Capacity(call)
      /\ Capacity(call) \in Nat
  BY PackedContents
<1>2. /\ preferences' = [preferences EXCEPT ![at] = Less(@, n)] /\ at' = at
      /\ col # Nil /\ UNCHANGED <<familyVars, call, family_data_arg>>
      /\ \/ Len(contents) # Capacity(call) /\ box' = contents /\ boxes' = boxes
         \/ /\ Len(contents) = Capacity(call) /\ CanClose /\ box' = << >>
            /\ boxes' = Append(boxes, Closed(contents, Capacity(call)))
  BY DEF Pack, InLoop
<1>3. /\ box \in Seq(Colour) /\ boxes \in Seq(Box) /\ preferences \in Seq(Preference)
      /\ col \in Colour /\ n \in Nat /\ at \in DOMAIN preferences
  <2>1. box \in Seq(Colour) /\ boxes \in Seq(Box) /\ preferences \in Seq(Preference)
    BY DEF SchedulerInv, TypeOK
  <2>2. col \in Colour /\ n \in Nat
    BY <1>1, <1>2 DEF Preference
  <2> QED
    BY <1>1, <2>1, <2>2, LenProperties
<1> HIDE DEF n
<1>4. ASSUME NEW c \in Colour
      PROVE  HeadsAccounted(c)'
  <2> DEFINE more == IF col = c THEN n ELSE 0
  <2>1. HeadsIn(contents, c) = HeadsIn(box, c) + more
    BY <1>3, HeadsInConcat DEF n
  <2>2. StillToPack(c) = StillToPack(c)' + more
    <3>1. StillToPack(c)' = Cardinality(LeftIn(preferences', c))
      BY DEF StillToPack, LeftIn
    <3>2. StillToPack(c) = Cardinality(LeftIn(preferences, c))
      BY CountsAreSizes
    <3>3. Cardinality(LeftIn(preferences, c))
            = Cardinality(LeftIn([preferences EXCEPT ![at] = Less(@, n)], c)) + more
      BY <1>1, <1>3, LeftAfterPacking
    <3> HIDE DEF more, contents
    <3> QED
      BY <1>2, <3>1, <3>2, <3>3
  <2>3. Written(c)' + HeadsIn(box, c)' = Written(c) + HeadsIn(contents, c)
    <3>1. /\ Written(c)' = Cardinality(WrittenAt(boxes', c))
          /\ Written(c) = Cardinality(WrittenAt(boxes, c))
          /\ HeadsIn(box, c)' = HeadsIn(box', c)
      BY DEF Written, WrittenAt, HeadsIn
    <3>2. CASE box' = contents /\ boxes' = boxes
      BY <3>1, <3>2
    <3>3. CASE /\ Len(contents) = Capacity(call) /\ CanClose /\ box' = << >>
               /\ boxes' = Append(boxes, Closed(contents, Capacity(call)))
      <4> HIDE DEF contents
      <4> DEFINE b == Closed(contents, Capacity(call))
      <4>1. b \in Box /\ b.heads = contents /\ Len(b.heads) <= 4
        <5>1. b.heads = contents
          BY <1>1 DEF Closed, StarterBox, RefillBox
        <5>2. b \in Box
          BY <1>1, <3>3, ClosedType DEF SchedulerInv
        <5> QED
          BY <1>1, <5>1, <5>2 DEF Capacity
      <4> HIDE DEF b
      <4>2. \A i \in DOMAIN boxes : Len(boxes[i].heads) <= 4
        BY <1>1, SmallBoxes
      <4>3. Cardinality(WrittenAt(boxes', c))
              = Cardinality(WrittenAt(boxes, c)) + HeadsIn(contents, c)
        BY <1>3, <3>3, <4>1, <4>2, WrittenAppend DEF b
      <4>4. HeadsIn(box', c) = 0 /\ HeadsIn(contents, c) \in Nat /\ Written(c) \in Nat
        BY <1>1, <3>3, NothingIsEmpty, PlacesAreFinite, CountsAreSizes, CountsAreNaturals
      <4> QED
        BY <3>1, <4>3, <4>4
    <3> QED
      BY <1>2, <3>2, <3>3
  <2>4. HeadsAccounted(c)
    BY <1>1 DEF HeadsInv, NoHeadLostOrAdded, HeadsAccounted
  <2>5. UNCHANGED HeadsIn(brush_preferences[family_data_arg], c)
    BY <1>2 DEF familyVars, HeadsIn
  <2>6. /\ HeadsIn(box, c) \in Nat /\ StillToPack(c) \in Nat /\ Written(c) \in Nat
        /\ HeadsIn(box, c)' \in Nat /\ StillToPack(c)' \in Nat /\ Written(c)' \in Nat
        /\ more \in Nat
    <3>1. /\ box' \in Seq(Colour) /\ preferences' \in Seq(Preference)
          /\ boxes' \in Seq(Box)
      BY DEF SchedulerInv, TypeOK
    <3>2. /\ HeadsIn(box', c) \in Nat /\ Cardinality(LeftIn(preferences', c)) \in Nat
          /\ Cardinality(WrittenAt(boxes', c)) \in Nat
      BY <3>1, SizesAreNaturals
    <3>3. HeadsIn(box, c)' \in Nat /\ StillToPack(c)' \in Nat /\ Written(c)' \in Nat
      BY <3>2 DEF HeadsIn, StillToPack, LeftIn, Written, WrittenAt
    <3> QED
      BY <1>3, <3>3, CountsAreNaturals
  <2> HIDE DEF more
  <2> QED
    BY <2>1, <2>2, <2>3, <2>4, <2>5, <2>6 DEF HeadsAccounted
<1>5. PassedArePacked'
  BY <1>1, <1>2, <1>3 DEF HeadsInv, PassedArePacked
<1> QED
  BY <1>4, <1>5 DEF HeadsInv, NoHeadLostOrAdded, HeadsAccounted

LEMMA NextPreferenceCounts ==
  ASSUME SchedulerInv, HeadsInv, NextPreference
  PROVE  HeadsInv'
<1>1. /\ at' = at + 1 /\ at <= Len(preferences) /\ ~ (preferences[at].count > 0)
      /\ UNCHANGED <<preferences, box, boxes, call, answer, family_data_arg, brush_preferences>>
  BY DEF NextPreference, MorePreferences, MoreToPack, InLoop, familyVars
<1>2. preferences[at].count = 0
  <2>1. preferences \in Seq(Preference) /\ at \in 1..(Len(preferences) + 1)
    BY DEF SchedulerInv, TypeOK
  <2>2. at \in 1..Len(preferences)
    BY <1>1, <2>1, LenProperties
  <2>3. preferences[at] \in Preference
    BY <2>1, <2>2, ElementOfSeq
  <2> QED
    BY <1>1, <2>3 DEF Preference
<1>3. at \in Nat
  <2>1. preferences \in Seq(Preference) /\ at \in 1..(Len(preferences) + 1)
    BY DEF SchedulerInv, TypeOK
  <2>2. Len(preferences) \in Nat
    BY <2>1, LenProperties
  <2> QED
    BY <2>1, <2>2
<1>4. PassedArePacked'
  BY <1>1, <1>2, <1>3 DEF HeadsInv, PassedArePacked
<1>5. NoHeadLostOrAdded'
  BY <1>1 DEF HeadsInv, NoHeadLostOrAdded, Written, HeadsIn, StillToPack
<1> QED
  BY <1>4, <1>5 DEF HeadsInv

LEMMA ReturnCounts ==
  ASSUME SchedulerInv, BoxesTruthful, HeadsInv, Return
  PROVE  HeadsInv'
<1>1. /\ box \in Seq(Colour) /\ boxes \in Seq(Box) /\ preferences \in Seq(Preference)
      /\ call \in {"starter", "refill"} /\ at \in 1..(Len(preferences) + 1)
  BY DEF Return, SchedulerInv, TypeOK
<1>2. /\ preferences' = << >> /\ at' = 1 /\ box' = << >>
      /\ UNCHANGED <<family_data_arg, brush_preferences>>
      /\ ~ (at <= Len(preferences))
  BY DEF Return, MorePreferences, familyVars
<1>3. ASSUME NEW c \in Colour
      PROVE  HeadsAccounted(c)'
  <2>1. HeadsAccounted(c)
    BY <1>1 DEF HeadsInv, NoHeadLostOrAdded, HeadsAccounted
  <2>2. StillToPack(c) = 0
    <3>1. \A k \in DOMAIN preferences : preferences[k].count = 0
      <4>1. Len(preferences) \in Nat /\ DOMAIN preferences = 1..Len(preferences)
        BY <1>1, LenProperties
      <4>2. DOMAIN preferences = 1..(at - 1)
        BY <1>1, <1>2, <4>1
      <4> QED
        BY <4>2 DEF HeadsInv, PassedArePacked
    <3>2. LeftIn(preferences, c) = {}
      <4>1. \A k \in DOMAIN preferences : {k} \X (1..preferences[k].count) = {}
        BY <3>1
      <4> QED
        BY <4>1 DEF LeftIn
    <3> QED
      BY <3>2, FS_EmptySet, CountsAreSizes
  <2>3. StillToPack(c)' = 0 /\ HeadsIn(box, c)' = 0
    BY <1>2, NothingIsEmpty DEF StillToPack, LeftIn
  <2>4. Written(c)' = Cardinality(WrittenAt(boxes', c))
        /\ Written(c) = Cardinality(WrittenAt(boxes, c))
    BY DEF Written, WrittenAt
  <2>5. Written(c)' = Written(c) + HeadsIn(box, c)
    <3>1. CASE box = << >> /\ boxes' = boxes
      <4>1. HeadsIn(box, c) = 0 /\ Written(c) \in Nat
        BY <3>1, NothingIsEmpty, CountsAreNaturals
      <4> QED
        BY <2>4, <3>1, <4>1
    <3>2. CASE box # << >> /\ CanClose /\ boxes' = Append(boxes, Closed(box, Len(box)))
      <4> DEFINE b == Closed(box, Len(box))
      <4>1. b.heads = box
        BY <1>1 DEF Closed, StarterBox, RefillBox
      <4>2. b \in Box
        BY <1>1, <3>2, ClosedType, LenProperties DEF SchedulerInv
      <4>3. Len(box) < Capacity(call) /\ Len(box) \in Nat
        BY <1>1, LenProperties DEF SchedulerInv, CallInv
      <4> HIDE DEF b
      <4>4. Len(b.heads) <= 4
        BY <1>1, <4>1, <4>3 DEF Capacity
      <4>5. \A i \in DOMAIN boxes : Len(boxes[i].heads) <= 4
        BY <1>1, SmallBoxes
      <4>6. Cardinality(WrittenAt(Append(boxes, b), c))
              = Cardinality(WrittenAt(boxes, c)) + HeadsIn(b.heads, c)
        BY <1>1, <4>2, <4>4, <4>5, WrittenAppend
      <4> QED
        BY <2>4, <3>2, <4>1, <4>6 DEF b
    <3> QED
      BY <3>1, <3>2 DEF Return
  <2>6. UNCHANGED HeadsIn(brush_preferences[family_data_arg], c)
    BY <1>2 DEF HeadsIn
  <2> QED
    BY <2>1, <2>2, <2>3, <2>5, <2>6, CountsAreNaturals DEF HeadsAccounted
<1>4. PassedArePacked'
  BY <1>2 DEF PassedArePacked
<1> QED
  BY <1>3, <1>4 DEF HeadsInv, NoHeadLostOrAdded, HeadsAccounted

LEMMA HeadsAreAccounted == Spec => []HeadsInv
<1>1. Init => HeadsInv
  BY DEF Init, HeadsInv, PassedArePacked, NoHeadLostOrAdded
<1>2. /\ SchedulerInv /\ SchedulerInv' /\ BoxesTruthful /\ HeadsInv /\ [Next]_vars
      => HeadsInv'
  <2> SUFFICES ASSUME SchedulerInv, SchedulerInv', BoxesTruthful, HeadsInv, [Next]_vars
               PROVE  HeadsInv'
    OBVIOUS
  <2>0. at' = 1 => PassedArePacked'
    BY DEF PassedArePacked
  <2>1. ASSUME NEW how \in {"loaded", "raised", "NO STARTER BOXES GENERATED",
                            "PLEASE LOAD USER PREFERENCES"},
               EndWith(how)
        PROVE  HeadsInv'
    <3>1. at' = 1 /\ call' = "none" /\ answer' \notin {"starter boxes", "refill boxes"}
      BY <2>1 DEF EndWith
    <3>2. PassedArePacked'
      BY <2>0, <3>1
    <3>3. NoHeadLostOrAdded'
      BY <3>1 DEF NoHeadLostOrAdded
    <3> QED
      BY <3>2, <3>3 DEF HeadsInv
  <2>2. ASSUME NEW f \in Family, \E rows \in File : LoadFamily(f, rows)
        PROVE  HeadsInv'
    BY <2>1, <2>2 DEF LoadFamily
  <2>3. ASSUME NEW f \in Family, LoadUnreadable(f) \/ ShipStarterBox(f) \/ ShipRefillBoxes(f)
        PROVE  HeadsInv'
    BY <2>1, <2>3, StartCounts DEF LoadUnreadable, ShipStarterBox, ShipRefillBoxes, Between
  <2>4. CASE Pack
    BY <2>4, PackCounts
  <2>5. CASE NextPreference
    BY <2>5, NextPreferenceCounts
  <2>6. CASE Return
    BY <2>6, ReturnCounts
  <2>7. CASE Raise
    BY <2>1, <2>7 DEF Raise
  <2>8. CASE UNCHANGED vars
    BY <2>8 DEF vars, schedulerVars, familyVars, HeadsInv, PassedArePacked,
       NoHeadLostOrAdded, Written, HeadsIn, StillToPack
  <2> QED
    BY <2>2, <2>3, <2>4, <2>5, <2>6, <2>7, <2>8 DEF Next, Manager, Continue
<1> QED
  BY <1>1, <1>2, SchedulerInvInductive, BoxesAlwaysTruthful, PTL DEF Spec

(* Every member of the family who asked for a colour gets one head of it   *)
(* and nobody else does: at every iteration of the loops the heads written,*)
(* in the open box and still to be packed make up the family's list, for   *)
(* any list, any colours and any order of calls (box_scheduler.rb:7-113).  *)
THEOREM NoHeadIsLostOrAdded == Spec => []NoHeadLostOrAdded
BY HeadsAreAccounted, PTL DEF HeadsInv

-----------------------------------------------------------------------------
(***************************************************************************)
(* What the promise is about: the history of a call, and what it counts.   *)
(***************************************************************************)

(* What a call under way has behind it: members were given, nobody's nil   *)
(* was packed, the family's starter boxes were dated, refills came after a *)
(* call for starter boxes.                                                 *)
NilIsLeft == StillToPack(Nil) = HeadsIn(brush_preferences[family_data_arg], Nil)

CallHistory ==
  call # "none" =>
    /\ brush_preferences[family_data_arg] # Nil
    /\ NilIsLeft
    /\ call = "starter" /\ boxes # << >> =>
         contract_effective_date[family_data_arg] # Nil
    /\ call = "refill" => has_starter_box_shipped

LEMMA StartHistory ==
  ASSUME SchedulerInv, NEW f \in Family, NEW op \in {"starter", "refill"}, Start(op, f),
         UNCHANGED familyVars, family_data_arg' = f, get_brush_preferences(f) # Nil,
         op = "refill" => has_starter_box_shipped
  PROVE  CallHistory'
<1> DEFINE list == brush_preferences[f]
<1>1. /\ list \in Seq(Colour \cup {Nil}) /\ preferences' = Tally(list)
      /\ brush_preferences[f] # Nil
  BY DEF SchedulerInv, TypeOK, FamiliesTypeOK, get_brush_preferences, Start
<1>2. /\ brush_preferences'[f] = list /\ boxes' = << >> /\ call' = op
      /\ has_starter_box_shipped' = has_starter_box_shipped
  BY DEF Start, familyVars
<1> HIDE DEF list
<1>3. StillToPack(Nil)' = HeadsIn(list, Nil)
  BY <1>1, LeftInTally DEF StillToPack, LeftIn
<1>4. HeadsIn(brush_preferences[family_data_arg], Nil)' = HeadsIn(list, Nil)
  BY <1>2 DEF HeadsIn
<1>5. NilIsLeft'
  BY <1>3, <1>4 DEF NilIsLeft
<1> QED
  BY <1>1, <1>2, <1>5 DEF CallHistory, list

LEMMA PackHistory ==
  ASSUME SchedulerInv, CallHistory, Pack
  PROVE  CallHistory'
<1>1. /\ at \in 1..Len(preferences) /\ preferences \in Seq(Preference)
      /\ NextPortion \in 1..preferences[at].count
  BY PackedContents DEF SchedulerInv, TypeOK
<1>2. /\ preferences' = [preferences EXCEPT ![at] = Less(@, NextPortion)]
      /\ preferences[at].colour # Nil /\ call # "none"
      /\ UNCHANGED <<familyVars, call, family_data_arg, has_starter_box_shipped>>
      /\ boxes' = boxes \/ CanClose
  BY DEF Pack, InLoop
<1>3. NilIsLeft'
  <2>1. at \in DOMAIN preferences
    BY <1>1, LenProperties
  <2>2. Cardinality(LeftIn(preferences, Nil))
          = Cardinality(LeftIn([preferences EXCEPT ![at] = Less(@, NextPortion)], Nil))
              + (IF preferences[at].colour = Nil THEN NextPortion ELSE 0)
    BY <1>1, <2>1, LeftAfterPacking
  <2>3. LeftIn(preferences', Nil) = LeftIn([preferences EXCEPT ![at] = Less(@, NextPortion)], Nil)
    BY <1>2
  <2>4. preferences' \in Seq(Preference)
    BY PackKeepsInv DEF SchedulerInv, TypeOK
  <2>5. Cardinality(LeftIn(preferences', Nil)) \in Nat
    BY <2>4, LeftIsFinite, FS_CardinalityType
  <2>6. StillToPack(Nil)' = StillToPack(Nil)
    <3>1. Cardinality(LeftIn(preferences', Nil)) = Cardinality(LeftIn(preferences, Nil))
      BY <1>2, <2>2, <2>3, <2>5
    <3> QED
      BY <3>1 DEF StillToPack, LeftIn
  <2> QED
    BY <1>2, <2>6 DEF CallHistory, NilIsLeft, HeadsIn, familyVars
<1>4. call = "starter" /\ boxes' # << >> => contract_effective_date[family_data_arg] # Nil
  BY <1>2 DEF CallHistory, CanClose
<1> QED
  BY <1>2, <1>3, <1>4 DEF CallHistory, familyVars

LEMMA CallHistoryInductive == Spec => []CallHistory
<1>1. Init => CallHistory
  BY DEF Init, CallHistory
<1>2. SchedulerInv /\ CallHistory /\ [Next]_vars => CallHistory'
  <2> SUFFICES ASSUME SchedulerInv, CallHistory, [Next]_vars
               PROVE  CallHistory'
    OBVIOUS
  <2>1. call' = "none" => CallHistory'
    BY DEF CallHistory
  <2>2. ASSUME NEW how, EndWith(how)
        PROVE  CallHistory'
    BY <2>1, <2>2 DEF EndWith
  <2>3. ASSUME NEW f \in Family, \E rows \in File : LoadFamily(f, rows)
        PROVE  CallHistory'
    BY <2>2, <2>3 DEF LoadFamily
  <2>4. ASSUME NEW f \in Family, LoadUnreadable(f)
        PROVE  CallHistory'
    BY <2>2, <2>4 DEF LoadUnreadable
  <2>5. ASSUME NEW f \in Family, ShipStarterBox(f)
        PROVE  CallHistory'
    BY <2>2, <2>5, StartHistory DEF ShipStarterBox, Between
  <2>6. ASSUME NEW f \in Family, ShipRefillBoxes(f)
        PROVE  CallHistory'
    BY <2>2, <2>6, StartHistory DEF ShipRefillBoxes, Between
  <2>7. CASE Pack
    BY <2>7, PackHistory
  <2>8. CASE NextPreference
    BY <2>8 DEF NextPreference, InLoop, familyVars, CallHistory, NilIsLeft, StillToPack, HeadsIn
  <2>9. CASE Raise \/ Return
    BY <2>1, <2>9 DEF Raise, Return, EndWith
  <2>10. CASE UNCHANGED vars
    BY <2>10 DEF vars, schedulerVars, familyVars, CallHistory, NilIsLeft, StillToPack, HeadsIn
  <2> QED
    BY <2>3, <2>4, <2>5, <2>6, <2>7, <2>8, <2>9, <2>10 DEF Next, Manager, Continue
<1> QED
  BY <1>1, <1>2, SchedulerInvInductive, PTL DEF Spec

(* The parts of the promise, in the scheduler's terms. *)
LEMMA OneCardinality == \A S : Promise!Cardinality(S) = Cardinality(S)
BY DEF Promise!Cardinality, Cardinality

LEMMA OccurrencesAreHeads ==
  ASSUME NEW c, NEW list
  PROVE  Promise!Occurrences(c, list) = HeadsIn(list, c)
BY OneCardinality DEF Promise!Occurrences, HeadsIn

LEMMA PackedIsWritten ==
  ASSUME NEW bs \in Seq(Box), NEW c, \A i \in DOMAIN bs : Len(bs[i].heads) <= 4
  PROVE  Promise!Packed(c, bs) = Cardinality(WrittenAt(bs, c))
<1>1. DOMAIN bs = 1..Len(bs) /\ Len(bs) \in Nat
  BY LenProperties
<1>2. \A i \in 1..Len(bs) : bs[i] \in Box
  BY ElementOfSeq
<1>3. ASSUME NEW i \in 1..Len(bs)
      PROVE  DOMAIN bs[i].heads \subseteq 1..4
  <2>1. bs[i].heads \in Seq(Colour)
    BY <1>2 DEF Box
  <2>2. DOMAIN bs[i].heads = 1..Len(bs[i].heads) /\ Len(bs[i].heads) \in Nat
    BY <2>1, LenProperties
  <2> QED
    BY <1>1, <2>2
<1>4. ASSUME NEW p
      PROVE  p \in {q \in Promise!Places(bs) : bs[q[1]].heads[q[2]] = c}
               <=> p \in WrittenAt(bs, c)
  <2>1. p \in {q \in Promise!Places(bs) : bs[q[1]].heads[q[2]] = c} <=>
          \E i \in 1..Len(bs) : \E j \in DOMAIN bs[i].heads :
            p = <<i, j>> /\ bs[i].heads[j] = c
    BY <1>1 DEF Promise!Places
  <2>2. p \in WrittenAt(bs, c) <=>
          \E i \in 1..Len(bs) : \E j \in 1..4 :
            p = <<i, j>> /\ j \in DOMAIN bs[i].heads /\ bs[i].heads[j] = c
    BY DEF WrittenAt
  <2> QED
    BY <1>3, <2>1, <2>2
<1>5. {q \in Promise!Places(bs) : bs[q[1]].heads[q[2]] = c} = WrittenAt(bs, c)
  BY <1>4
<1> QED
  BY <1>5, OneCardinality DEF Promise!Packed

(* Truthful boxes that hold every head are what the promise asks for. *)
LEMMA TruthfulBoxesServe ==
  ASSUME NEW bs \in Seq(Box), NEW op \in {"starter", "refill"}, NEW list,
         \A i \in DOMAIN bs :
           /\ TruthfulBox(bs[i], op)
           /\ i # Len(bs) => Len(bs[i].heads) = Capacity(op),
         \A c \in Colour : Cardinality(WrittenAt(bs, c)) = HeadsIn(list, c)
  PROVE  Promise!Serves(bs, op, list)
<1>1. \A i \in DOMAIN bs : Len(bs[i].heads) \in 1..Capacity(op)
  BY DEF TruthfulBox
<1>2. \A i \in DOMAIN bs : Len(bs[i].heads) <= 4
  BY <1>1 DEF Capacity
<1>3. \A c \in Colour : Promise!Packed(c, bs) = Promise!Occurrences(c, list)
  BY <1>2, PackedIsWritten, OccurrencesAreHeads
<1>4. ASSUME NEW i \in DOMAIN bs
      PROVE  bs[i].mail = Promise!MailClass(bs[i])
  <2>1. bs[i] \in Box
    <3>1. i \in 1..Len(bs)
      BY LenProperties
    <3> QED
      BY <3>1, ElementOfSeq
  <2>2. /\ bs[i].brushes \in Seq(Colour) /\ bs[i].heads \in Seq(Colour)
        /\ bs[i].kits \in Nat /\ bs[i].mail \in {"first", "priority"}
    BY <2>1 DEF Box
  <2>3. Len(bs[i].brushes) \in Nat /\ Len(bs[i].heads) \in Nat
    BY <2>2, LenProperties
  <2>4. bs[i].mail = "first" <=> Weight(bs[i]) < 160
    BY DEF TruthfulBox, first_class_wgt_limit
  <2> DEFINE x == Len(bs[i].brushes)
             y == Len(bs[i].heads)
             z == bs[i].kits
             w == 90 * x + 10 * y + 76 * z
  <2>5. Weight(bs[i]) = x * 90 + y * 10 + z * 76
    BY DEF Weight, brush_wgt, brush_head_wgt, paste_kit_wgt
  <2>6. w \in Nat /\ Weight(bs[i]) = w
    <3>1. x \in Nat /\ y \in Nat /\ z \in Nat
      BY <2>2, <2>3
    <3> HIDE DEF x, y, z
    <3> QED
      BY <2>5, <3>1
  <2>7. Promise!MailClass(bs[i]) = IF w >= 160 THEN "priority" ELSE "first"
    BY DEF Promise!MailClass
  <2> HIDE DEF w
  <2> QED
    BY <2>2, <2>4, <2>6, <2>7
<1>5. \A i \in DOMAIN bs :
        /\ bs[i].brushes = IF op = "starter" THEN bs[i].heads ELSE << >>
        /\ bs[i].kits = Len(bs[i].heads)
  BY DEF TruthfulBox
<1> QED
  BY <1>1, <1>3, <1>4, <1>5 DEF Promise!Serves, Capacity

LEMMA ReturnServes ==
  ASSUME SchedulerInv, SchedulerInv', BoxesTruthful', NoHeadLostOrAdded', Return
  PROVE  Promise!Serves(boxes', call, brush_preferences[family_data_arg])
<1>1. /\ call \in {"starter", "refill"} /\ call' = "none" /\ box' = << >> /\ preferences' = << >>
      /\ answer' = (IF call = "starter" THEN "starter boxes" ELSE "refill boxes")
      /\ UNCHANGED <<family_data_arg, brush_preferences>>
  BY DEF Return, SchedulerInv, TypeOK, familyVars
<1>2. boxes' \in Seq(Box)
  BY DEF SchedulerInv, TypeOK
<1>3. Operation' = call
  BY <1>1 DEF Operation
<1>4. \A i \in DOMAIN boxes' :
        /\ TruthfulBox(boxes'[i], call)
        /\ i # Len(boxes') => Len(boxes'[i].heads) = Capacity(call)
  BY <1>1, <1>3 DEF BoxesTruthful, TruthfulBox, Capacity
<1>5. ASSUME NEW c \in Colour
      PROVE  Cardinality(WrittenAt(boxes', c)) = HeadsIn(brush_preferences[family_data_arg], c)
  <2>1. HeadsIn(box', c) = 0 /\ Cardinality(LeftIn(preferences', c)) = 0
    BY <1>1, NothingIsEmpty
  <2>2. HeadsAccounted(c)'
    BY <1>1 DEF NoHeadLostOrAdded, HeadsAccounted
  <2>3. Cardinality(WrittenAt(boxes', c)) + HeadsIn(box', c) + Cardinality(LeftIn(preferences', c))
          = HeadsIn(brush_preferences[family_data_arg], c)
    BY <1>1, <2>2 DEF HeadsAccounted, Written, WrittenAt, StillToPack, LeftIn, HeadsIn
  <2>4. Cardinality(WrittenAt(boxes', c)) \in Nat
    BY <1>2, SizesAreNaturals, EmptySeq
  <2> QED
    BY <2>1, <2>3, <2>4
<1> QED
  BY <1>1, <1>2, <1>4, <1>5, TruthfulBoxesServe

(* At the end of the loops nothing is left. *)
LEMMA NothingLeft ==
  ASSUME SchedulerInv, PassedArePacked, ~ MorePreferences, NEW c
  PROVE  StillToPack(c) = 0
<1>1. preferences \in Seq(Preference) /\ at \in 1..(Len(preferences) + 1)
  BY DEF SchedulerInv, TypeOK
<1>2. Len(preferences) \in Nat /\ DOMAIN preferences = 1..Len(preferences)
  BY <1>1, LenProperties
<1>3. DOMAIN preferences = 1..(at - 1)
  BY <1>1, <1>2 DEF MorePreferences
<1>4. \A k \in DOMAIN preferences : {k} \X (1..preferences[k].count) = {}
  BY <1>3 DEF PassedArePacked
<1>5. LeftIn(preferences, c) = {}
  BY <1>4 DEF LeftIn
<1> QED
  BY <1>5, FS_EmptySet, CountsAreSizes

(* What a call answers with boxes was due, unless it had nothing to date or *)
(* was for refills of a family that was sent nothing.                       *)
LEMMA ReturnIsDue ==
  ASSUME SchedulerInv, HeadsInv, CallHistory, Return
  PROVE  \/ Promise!Complete(call, family_data_arg)
         \/ /\ call = "starter" /\ contract_effective_date[family_data_arg] = Nil
            /\ boxes' = << >>
         \/ call = "refill" /\ family_data_arg \notin Received
<1> DEFINE list == brush_preferences[family_data_arg]
<1>1. /\ call \in {"starter", "refill"} /\ family_data_arg \in Family
      /\ list # Nil /\ list \in Seq(Colour \cup {Nil})
      /\ call = "refill" => HasEffectiveDate(family_data_arg)
      /\ box # << >> => CanClose
      /\ box = << >> => boxes' = boxes
  BY DEF Return, SchedulerInv, TypeOK, FamiliesTypeOK, CallInv, CallHistory
<1>2. StillToPack(Nil) = 0
  BY NothingLeft DEF HeadsInv, Return
<1>3. Promise!Occurrences(Nil, list) = 0
  BY <1>1, <1>2, OccurrencesAreHeads DEF CallHistory, NilIsLeft
<1>4. CASE call = "refill" /\ family_data_arg \in Received
  BY <1>1, <1>3, <1>4 DEF Promise!Complete
<1>5. CASE call = "starter" /\ contract_effective_date[family_data_arg] # Nil
  BY <1>1, <1>3, <1>5 DEF Promise!Complete
<1>6. CASE call = "starter" /\ contract_effective_date[family_data_arg] = Nil
  <2>1. box = << >> /\ boxes = << >>
    BY <1>1, <1>6 DEF CanClose, CallHistory
  <2> QED
    BY <1>1, <1>6, <2>1
<1> QED
  BY <1>1, <1>4, <1>5, <1>6

LEMMA RaiseIsDue ==
  ASSUME SchedulerInv, CallHistory, Raise
  PROVE  ~ Promise!Complete(call, family_data_arg)
<1>1. CASE MoreToPack /\ preferences[at].colour = Nil
  <2>1. call # "none" /\ preferences \in Seq(Preference) /\ at \in DOMAIN preferences
    <3>1. preferences \in Seq(Preference) /\ at \in 1..(Len(preferences) + 1)
      BY DEF SchedulerInv, TypeOK
    <3>2. at \in 1..Len(preferences)
      BY <1>1, <3>1, LenProperties DEF MoreToPack, MorePreferences
    <3> QED
      BY <3>1, <3>2, LenProperties DEF Raise
  <2>2. preferences[at].count \in Nat /\ preferences[at].count > 0
    <3>1. at \in 1..Len(preferences)
      BY <2>1, LenProperties
    <3>2. preferences[at] \in Preference
      BY <2>1, <3>1, ElementOfSeq
    <3> QED
      BY <1>1, <3>2 DEF MoreToPack, Preference
  <2>3. <<at, 1>> \in LeftIn(preferences, Nil)
    BY <1>1, <2>1, <2>2 DEF LeftIn
  <2>4. StillToPack(Nil) # 0
    BY <2>1, <2>3, LeftIsFinite, FS_EmptySet, CountsAreSizes
  <2>5. Promise!Occurrences(Nil, brush_preferences[family_data_arg]) # 0
    BY <2>1, <2>4, OccurrencesAreHeads DEF CallHistory, NilIsLeft
  <2> QED
    BY <2>5 DEF Promise!Complete
<1>2. CASE ~ CanClose
  BY <1>2 DEF CanClose, Promise!Complete
<1> QED
  BY <1>1, <1>2 DEF Raise

-----------------------------------------------------------------------------
(***************************************************************************)
(* Dates.  A schedule is written from the contract date of the family the  *)
(* call is for, which no load replaces.                                    *)
(***************************************************************************)

Schedule(op) ==
  IF op = "starter" THEN <<contract_effective_date[family_data_arg]>>
  ELSE compute_refill_dates(Day[contract_effective_date[family_data_arg]])

DatesInv ==
  call # "none" \/ answer \in {"starter boxes", "refill boxes"} =>
    /\ \A i \in DOMAIN boxes : boxes[i].schedule = Schedule(Operation)
    /\ Operation = "refill" => HasEffectiveDate(family_data_arg)

LEMMA ClosedIsDated ==
  ASSUME NEW contents, NEW n, call \in {"starter", "refill"}
  PROVE  Closed(contents, n).schedule = Schedule(call)
BY DEF Closed, StarterBox, RefillBox, Schedule

LEMMA AppendDated ==
  ASSUME NEW bs \in Seq(Box), NEW b, NEW s, b.schedule = s,
         \A i \in DOMAIN bs : bs[i].schedule = s
  PROVE  \A i \in DOMAIN Append(bs, b) : Append(bs, b)[i].schedule = s
<1>1. Len(bs) \in Nat /\ DOMAIN bs = 1..Len(bs)
  BY LenProperties
<1>2. /\ Append(bs, b) \in Seq(Box \cup {b})
      /\ Len(Append(bs, b)) = Len(bs) + 1
      /\ \A i \in 1..Len(bs) : Append(bs, b)[i] = bs[i]
      /\ Append(bs, b)[Len(bs) + 1] = b
  <2>1. bs \in Seq(Box \cup {b})
    BY <1>1, ElementOfSeq, FunctionIsSequence, SeqDef
  <2> QED
    BY <2>1, AppendProperties
<1>3. DOMAIN Append(bs, b) = 1..(Len(bs) + 1)
  BY <1>2, LenProperties
<1> QED
  BY <1>1, <1>2, <1>3

LEMMA DatesInductive == Spec => []DatesInv
<1>1. Init => DatesInv
  BY DEF Init, DatesInv
<1>2. SchedulerInv /\ SchedulerInv' /\ DatesInv /\ [Next]_vars => DatesInv'
  <2> SUFFICES ASSUME SchedulerInv, SchedulerInv', DatesInv, [Next]_vars
               PROVE  DatesInv'
    OBVIOUS
  <2>1. ASSUME NEW how \in {"loaded", "raised", "NO STARTER BOXES GENERATED",
                            "PLEASE LOAD USER PREFERENCES"},
               EndWith(how)
        PROVE  DatesInv'
    BY <2>1 DEF EndWith, DatesInv
  <2>2. ASSUME NEW f \in Family, NEW op \in {"starter", "refill"}, Start(op, f),
               UNCHANGED familyVars, family_data_arg' = f,
               op = "refill" => HasEffectiveDate(f)
        PROVE  DatesInv'
    <3>1. call' = op /\ boxes' = << >> /\ Operation' = op
      BY <2>2 DEF Start, Operation
    <3>2. DOMAIN boxes' = {}
      BY <3>1
    <3>3. op = "refill" => HasEffectiveDate(family_data_arg)'
      BY <2>2 DEF HasEffectiveDate, familyVars
    <3> QED
      BY <3>1, <3>2, <3>3 DEF DatesInv
  <2>3. ASSUME NEW f \in Family, \E rows \in File : LoadFamily(f, rows)
        PROVE  DatesInv'
    BY <2>1, <2>3 DEF LoadFamily
  <2>4. ASSUME NEW f \in Family, LoadUnreadable(f) \/ ShipStarterBox(f) \/ ShipRefillBoxes(f)
        PROVE  DatesInv'
    BY <2>1, <2>2, <2>4 DEF LoadUnreadable, ShipStarterBox, ShipRefillBoxes, Between
  <2>5. ASSUME call # "none", UNCHANGED <<familyVars, family_data_arg>>, Operation' = call,
               \/ boxes' = boxes
               \/ \E contents, n : boxes' = Append(boxes, Closed(contents, n))
        PROVE  DatesInv'
    <3>1. call \in {"starter", "refill"} /\ Operation = call /\ boxes \in Seq(Box)
      BY <2>5 DEF SchedulerInv, TypeOK, Operation
    <3>2. \A i \in DOMAIN boxes : boxes[i].schedule = Schedule(call)
      BY <2>5, <3>1 DEF DatesInv
    <3>3. \A i \in DOMAIN boxes' : boxes'[i].schedule = Schedule(call)
      <4>1. CASE boxes' = boxes
        BY <3>2, <4>1
      <4>2. ASSUME NEW contents, NEW n, boxes' = Append(boxes, Closed(contents, n))
            PROVE  \A i \in DOMAIN boxes' : boxes'[i].schedule = Schedule(call)
        BY <3>1, <3>2, <4>2, ClosedIsDated, AppendDated
      <4> QED
        BY <2>5, <4>1, <4>2
    <3>4. call = "refill" => HasEffectiveDate(family_data_arg)'
      BY <2>5, <3>1 DEF DatesInv, HasEffectiveDate, familyVars
    <3>5. Schedule(Operation)' = Schedule(call)
      BY <2>5 DEF Schedule, familyVars
    <3> QED
      BY <2>5, <3>3, <3>4, <3>5 DEF DatesInv
  <2>6. CASE Pack \/ NextPreference
    BY <2>5, <2>6 DEF Pack, NextPreference, InLoop, Operation
  <2>7. CASE Return
    <3>1. call \in {"starter", "refill"} /\ Operation' = call
      BY <2>7 DEF Return, SchedulerInv, TypeOK, Operation
    <3> QED
      BY <2>5, <2>7, <3>1 DEF Return
  <2>8. CASE Raise
    BY <2>1, <2>8 DEF Raise
  <2>9. CASE UNCHANGED vars
    BY <2>9
    DEF vars, schedulerVars, familyVars, DatesInv, Schedule, Operation, HasEffectiveDate
  <2> QED
    BY <2>3, <2>4, <2>6, <2>7, <2>8, <2>9 DEF Next, Manager, Continue
<1> QED
  BY <1>1, <1>2, SchedulerInvInductive, PTL DEF Spec

(* A family's starter boxes, once sent, carry the date it still has. *)
StartedInv ==
  /\ started \in [Family -> DateText \cup {Nil}]
  /\ \A f \in Family : started[f] # Nil => started[f] = contract_effective_date[f]

LEMMA DateIsKept ==
  ASSUME SchedulerInv, [Next]_vars, NEW f \in Family, contract_effective_date[f] # Nil
  PROVE  contract_effective_date'[f] = contract_effective_date[f]
<1>1. ASSUME NEW g \in Family, NEW rows \in File, LoadFamily(g, rows)
      PROVE  contract_effective_date'[f] = contract_effective_date[f]
  <2>1. contract_effective_date \in [Family -> DateText \cup {Nil}]
    BY DEF SchedulerInv, TypeOK, FamiliesTypeOK
  <2> QED
    BY <1>1, <2>1 DEF LoadFamily, Load, FirstSet
<1>2. CASE ~ \E g \in Family, rows \in File : LoadFamily(g, rows)
  <2>1. UNCHANGED familyVars
    BY <1>2 DEF Next, Manager, Continue, LoadUnreadable, ShipStarterBox, ShipRefillBoxes,
       Between, Pack, NextPreference, InLoop, Raise, Return, vars
  <2> QED
    BY <2>1 DEF familyVars
<1> QED
  BY <1>1, <1>2

LEMMA MCSpecIsSpec == MCSpec => Spec
<1>1. MCInit => Init
  BY DEF MCInit
<1>2. [MCNext]_mcVars => [Next]_vars
  BY DEF MCNext, mcVars
<1> QED
  BY <1>1, <1>2, PTL DEF MCSpec, Spec

LEMMA StartedInductive == MCSpec => []StartedInv
<1>1. MCInit => StartedInv
  BY DEF MCInit, StartedInv
<1>2. SchedulerInv /\ SchedulerInv' /\ DatesInv' /\ StartedInv /\ [MCNext]_mcVars => StartedInv'
  <2> SUFFICES ASSUME SchedulerInv, SchedulerInv', DatesInv', StartedInv, [MCNext]_mcVars
               PROVE  StartedInv'
    OBVIOUS
  <2>0. [Next]_vars
    BY DEF MCNext, mcVars
  <2>1. \A f \in Family : started[f] # Nil => started[f] = contract_effective_date'[f]
    BY <2>0, DateIsKept DEF StartedInv
  <2>2. CASE started' = started
    BY <2>1, <2>2 DEF StartedInv
  <2>3. CASE started' # started
    <3> DEFINE date == contract_effective_date'[family_data_arg]
    <3>1. /\ answer' = "starter boxes" /\ call = "starter" /\ call' = "none"
          /\ boxes' # << >>
          /\ started' = [started EXCEPT ![family_data_arg] = Head(boxes'[1].schedule)]
          /\ Next
      BY <2>3 DEF MCNext, mcVars
    <3>2. Return
      BY <3>1 DEF Next, Manager, Continue, LoadFamily, LoadUnreadable, ShipStarterBox,
         ShipRefillBoxes, Between, Pack, NextPreference, InLoop, Raise, EndWith
    <3>3. family_data_arg' = family_data_arg /\ Operation' = "starter"
      BY <3>1, <3>2 DEF Return, Operation
    <3>4. 1 \in DOMAIN boxes'
      <4>1. boxes' \in Seq(Box)
        BY DEF SchedulerInv, TypeOK
      <4>2. boxes' # << >>
        BY <3>1
      <4>3. Len(boxes') \in Nat /\ Len(boxes') # 0 /\ DOMAIN boxes' = 1..Len(boxes')
        BY <4>1, <4>2, EmptySeq, LenProperties
      <4> QED
        BY <4>3
    <3>5. boxes'[1].schedule = <<date>>
      BY <3>1, <3>3, <3>4 DEF DatesInv, Schedule
    <3>6. Head(boxes'[1].schedule) = date
      BY <3>5
    <3>7. family_data_arg \in Family /\ date \in DateText \cup {Nil}
      BY <3>3 DEF SchedulerInv, TypeOK, FamiliesTypeOK
    <3> QED
      BY <2>1, <3>1, <3>6, <3>7 DEF StartedInv
  <2> QED
    BY <2>2, <2>3
<1> QED
  BY <1>1, <1>2, MCSpecIsSpec, SchedulerInvInductive, DatesInductive, PTL DEF MCSpec

(* The refills of a family leave 90, 180, 270 and 360 days after the date  *)
(* its last starter boxes carried, whatever files were loaded in between   *)
(* and for whichever families (family.rb:21-24, box_scheduler.rb:61-75).   *)
THEOREM RefillsAreDatedByTheStarter == MCSpec => []RefillsFollowTheStarterDate
<1>1. SchedulerInv /\ DatesInv /\ StartedInv => RefillsFollowTheStarterDate
  <2> SUFFICES ASSUME SchedulerInv, DatesInv, StartedInv, call = "none", answer = "refill boxes",
                      started[family_data_arg] # Nil
               PROVE  LET day == Day[started[family_data_arg]]
                      IN  /\ day # Nil
                          /\ \A i \in DOMAIN boxes :
                               boxes[i].schedule = [k \in 1..4 |-> day + 90 * k]
    BY DEF RefillsFollowTheStarterDate
  <2>1. Operation = "refill" /\ family_data_arg \in Family
    BY DEF Operation, SchedulerInv, TypeOK
  <2>2. started[family_data_arg] = contract_effective_date[family_data_arg]
    BY <2>1 DEF StartedInv
  <2>3. /\ HasEffectiveDate(family_data_arg)
        /\ \A i \in DOMAIN boxes : boxes[i].schedule = Schedule("refill")
    BY <2>1 DEF DatesInv
  <2> QED
    BY <2>2, <2>3 DEF HasEffectiveDate, Schedule, compute_refill_dates
<1> QED
  BY <1>1, MCSpecIsSpec, SchedulerInvInductive, DatesInductive, StartedInductive, PTL

-----------------------------------------------------------------------------
(***************************************************************************)
(* The steps of the promise.                                               *)
(***************************************************************************)

(* Only a return of starter boxes changes who has received some. *)
LEMMA ReceivedStays ==
  ASSUME [MCNext]_mcVars, call = "none" \/ call' = call \/ boxes' = << >> \/ call = "refill"
  PROVE  Received' = Received
<1>1. started' = started
  <2>1. CASE MCNext
    BY <2>1 DEF MCNext
  <2>2. CASE UNCHANGED mcVars
    BY <2>2 DEF mcVars
  <2> QED
    BY <2>1, <2>2
<1> QED
  BY <1>1 DEF Received

(* The flag is set once anybody has received starter boxes. *)
FlagCovers == Received # {} => has_starter_box_shipped

LEMMA ReturnReceives ==
  ASSUME SchedulerInv, SchedulerInv', CallHistory, DatesInv', StartedInv, MCNext, Return
  PROVE  Received' = IF call = "starter" /\ boxes' # << >>
                     THEN Received \cup {family_data_arg} ELSE Received
<1>1. /\ call \in {"starter", "refill"} /\ call' = "none" /\ family_data_arg \in Family
      /\ UNCHANGED <<family_data_arg, contract_effective_date>>
  BY DEF Return, SchedulerInv, TypeOK, familyVars
<1>2. CASE call = "starter" /\ boxes' # << >>
  <2> DEFINE date == contract_effective_date[family_data_arg]
  <2>1. answer' = "starter boxes" /\ Operation' = "starter"
    BY <1>1, <1>2 DEF Return, Operation
  <2>2. started' = [started EXCEPT ![family_data_arg] = Head(boxes'[1].schedule)]
    BY <1>1, <1>2, <2>1 DEF MCNext
  <2>3. 1 \in DOMAIN boxes'
    <3>1. boxes' \in Seq(Box)
      BY DEF SchedulerInv, TypeOK
    <3>2. Len(boxes') \in Nat /\ Len(boxes') # 0 /\ DOMAIN boxes' = 1..Len(boxes')
      BY <1>2, <3>1, EmptySeq, LenProperties
    <3> QED
      BY <3>2
  <2>4. boxes'[1].schedule = <<date>>
    BY <1>1, <2>1, <2>3 DEF DatesInv, Schedule
  <2>5. Head(boxes'[1].schedule) = date
    BY <2>4
  <2>6. date # Nil
    <3>1. CASE box = << >>
      BY <1>2, <3>1 DEF Return, CallHistory
    <3>2. CASE box # << >>
      BY <1>2, <3>2 DEF Return, CanClose
    <3> QED
      BY <3>1, <3>2
  <2> HIDE DEF date
  <2>7. started \in [Family -> DateText \cup {Nil}]
    BY DEF StartedInv
  <2>8. \A f \in Family :
          started'[f] # Nil <=> started[f] # Nil \/ f = family_data_arg
    BY <1>1, <2>2, <2>5, <2>6, <2>7
  <2> QED
    BY <1>1, <1>2, <2>8 DEF Received
<1>3. CASE ~ (call = "starter" /\ boxes' # << >>)
  BY <1>1, <1>3, ReceivedStays
<1> QED
  BY <1>2, <1>3

LEMMA FlagInductive == MCSpec => []FlagCovers
<1>1. MCInit => FlagCovers
  BY DEF MCInit, FlagCovers, Received
<1>2. SchedulerInv /\ FlagCovers /\ [MCNext]_mcVars => FlagCovers'
  <2> SUFFICES ASSUME SchedulerInv, FlagCovers, [MCNext]_mcVars
               PROVE  FlagCovers'
    OBVIOUS
  <2>1. [Next]_vars
    BY DEF MCNext, mcVars
  <2>2. CASE Return
    <3>1. CASE call = "starter"
      BY <2>2, <3>1 DEF Return, FlagCovers
    <3>2. CASE call = "refill"
      BY <2>2, <3>2, ReceivedStays DEF Return, FlagCovers
    <3> QED
      BY <2>2, <3>1, <3>2 DEF Return, SchedulerInv, TypeOK
  <2>3. CASE ~ Return
    <3>1. call = "none" \/ call' = call \/ boxes' = << >>
      BY <2>1, <2>3 DEF Next, Manager, Continue, LoadFamily, LoadUnreadable, ShipStarterBox,
         ShipRefillBoxes, Between, Pack, NextPreference, InLoop, Raise, EndWith, vars,
         schedulerVars
    <3>2. UNCHANGED has_starter_box_shipped
      BY <2>1, <2>3 DEF Next, Manager, Continue, LoadFamily, LoadUnreadable, ShipStarterBox,
         ShipRefillBoxes, Between, Pack, NextPreference, InLoop, Raise, EndWith, Start, vars,
         schedulerVars
    <3> QED
      BY <3>1, <3>2, ReceivedStays DEF FlagCovers
  <2> QED
    BY <2>2, <2>3
<1> QED
  BY <1>1, <1>2, MCSpecIsSpec, SchedulerInvInductive, PTL DEF MCSpec

(* A load is an import, which keeps dates that can be read.  *)
LEMMA LoadIsImport ==
  ASSUME SchedulerInv, NEW f \in Family, NEW rows \in File, LoadFamily(f, rows),
         UNCHANGED Received
  PROVE  Promise!Import(f)
<1>1. /\ call = "none" /\ call' = "none" /\ boxes' = << >>
      /\ brush_preferences' = [brush_preferences EXCEPT ![f] = Colours(rows)]
      /\ contract_effective_date' =
           [contract_effective_date EXCEPT ![f] = FirstSet(@, EffectiveDates(rows))]
  BY DEF LoadFamily, EndWith, Load
<1>2. /\ brush_preferences \in [Family -> Seq(Colour \cup {Nil}) \cup {Nil}]
      /\ contract_effective_date \in [Family -> DateText \cup {Nil}]
  BY DEF SchedulerInv, TypeOK, FamiliesTypeOK
<1>3. /\ \A g \in Family \ {f} : brush_preferences'[g] = brush_preferences[g]
      /\ brush_preferences'[f] # Nil
  <2>1. Colours(rows) \in Seq(Colour \cup {Nil})
    BY FileType, ColumnTypes
  <2> QED
    BY <1>1, <1>2, <2>1, NilIsNoList
<1>4. /\ \A g \in Family \ {f} : contract_effective_date'[g] = contract_effective_date[g]
      /\ contract_effective_date[f] # Nil =>
           contract_effective_date'[f] = contract_effective_date[f]
  BY <1>1, <1>2 DEF FirstSet
<1> DEFINE dated == {g \in Family : contract_effective_date[g] # Nil}
           schedulable == {g \in Family : HasEffectiveDate(g)}
<1>5. dated \subseteq dated' /\ dated' \subseteq dated \cup {f}
  BY <1>4
<1>6. schedulable \subseteq schedulable' /\ schedulable' \subseteq schedulable \cup {f}
  BY <1>4 DEF HasEffectiveDate
<1> QED
  BY <1>1, <1>3, <1>5, <1>6 DEF Promise!Import

(* A refusal changes no family, nor does an exception.  *)
LEMMA RefusalIsDecline ==
  ASSUME NEW f \in Family, NEW op \in {"import", "starter", "refill"},
         call = "none", call' = "none", boxes' = << >>,
         UNCHANGED Received, UNCHANGED familyVars,
         op # "import" => ~ Promise!Complete(op, f)
  PROVE  Promise!Decline(op, f)
<1>1. UNCHANGED <<brush_preferences, contract_effective_date>>
  BY DEF familyVars
<1>2. Promise!Keep
  BY <1>1 DEF Promise!Keep, HasEffectiveDate
<1> QED
  BY <1>2 DEF Promise!Decline

LEMMA RaiseIsDecline ==
  ASSUME SchedulerInv, CallHistory, Raise, UNCHANGED Received
  PROVE  Promise!Decline(call, family_data_arg)
<1>1. call # "none" /\ call' = "none" /\ boxes' = << >>
  BY DEF Raise, EndWith
<1>2. UNCHANGED <<brush_preferences, contract_effective_date>>
  BY DEF Raise, familyVars
<1>3. Promise!Keep
  BY <1>2 DEF Promise!Keep, HasEffectiveDate
<1> QED
  BY <1>1, <1>3, RaiseIsDue DEF Promise!Decline

LEMMA StartIsRequest ==
  ASSUME NEW f \in Family, NEW op \in {"starter", "refill"}, call = "none", Start(op, f),
         UNCHANGED familyVars, family_data_arg' = f, UNCHANGED Received
  PROVE  Promise!Request(op, f)
<1>1. call' = op
  BY DEF Start
<1>2. UNCHANGED <<brush_preferences, contract_effective_date>>
  BY DEF familyVars
<1>3. Promise!Keep
  BY <1>2 DEF Promise!Keep, HasEffectiveDate
<1> QED
  BY <1>1, <1>3 DEF Promise!Request

(* Without members, flag or date there is nothing complete to decline.     *)
LEMMA RefusalIsDue ==
  ASSUME SchedulerInv, FlagCovers, NEW f \in Family, NEW op \in {"starter", "refill"},
         \/ get_brush_preferences(f) = Nil
         \/ op = "refill" /\ (~ has_starter_box_shipped \/ ~ HasEffectiveDate(f))
  PROVE  ~ Promise!Complete(op, f)
<1>1. CASE get_brush_preferences(f) = Nil
  <2>1. ASSUME brush_preferences[f] # Nil
        PROVE  FALSE
    <3>1. brush_preferences[f] \in Seq(Colour \cup {Nil})
      BY <2>1 DEF SchedulerInv, TypeOK, FamiliesTypeOK
    <3>2. Tally(brush_preferences[f]) \in Seq(Preference)
      BY <3>1, TallyType DEF Preference
    <3> QED
      BY <1>1, <2>1, <3>2, NilIsNoHash DEF get_brush_preferences
  <2> QED
    BY <2>1 DEF Promise!Complete
<1>2. CASE op = "refill" /\ (~ has_starter_box_shipped \/ ~ HasEffectiveDate(f))
  BY <1>2 DEF Promise!Complete, FlagCovers
<1> QED
  BY <1>1, <1>2

LEMMA ReturnFulfils ==
  ASSUME SchedulerInv, SchedulerInv', BoxesTruthful', NoHeadLostOrAdded', HeadsInv,
         CallHistory, DatesInv', StartedInv, FlagCovers, MCNext, Return
  PROVE  \/ Promise!Fulfil(call, family_data_arg)
         \/ Promise!Decline(call, family_data_arg)
         \/ RefillsOfAnothersFlag
<1>1. call # "none" /\ call' = "none"
  BY DEF Return
<1>2. UNCHANGED <<brush_preferences, contract_effective_date>>
  BY DEF Return, familyVars
<1>3. Promise!Keep
  BY <1>2 DEF Promise!Keep, HasEffectiveDate
<1>4. Promise!Serves(boxes', call, brush_preferences[family_data_arg])
  BY ReturnServes
<1>5. Received' = IF call = "starter" /\ boxes' # << >>
                  THEN Received \cup {family_data_arg} ELSE Received
  BY ReturnReceives
<1>6. CASE Promise!Complete(call, family_data_arg)
  BY <1>1, <1>3, <1>4, <1>5, <1>6 DEF Promise!Fulfil
<1>7. CASE /\ call = "starter" /\ contract_effective_date[family_data_arg] = Nil
           /\ boxes' = << >>
  <2>1. ~ Promise!Complete(call, family_data_arg)
    BY <1>7 DEF Promise!Complete
  <2> QED
    BY <1>1, <1>3, <1>5, <1>7, <2>1 DEF Promise!Decline
<1>8. CASE call = "refill" /\ family_data_arg \notin Received
  BY <1>1, <1>8 DEF RefillsOfAnothersFlag, CallHistory
<1> QED
  BY <1>6, <1>7, <1>8, ReturnIsDue

(* Each request is answered as the documents promise it: the fewest boxes  *)
(* that hold a head for everyone for a complete family, refills only for   *)
(* one that was sent starter boxes, nothing for any other, for any         *)
(* families, files, colours and dates and any order of loads and calls     *)
(* (box_scheduler.rb, family.rb against README.md:118-217); all but the    *)
(* requests that RefillsOfAnothersFlag leaves out.                         *)
THEOREM SchedulerKeepsPromise == MCSpec => KeepsPromise
<1>1. MCInit => Promise!Init
  BY DEF MCInit, Init, FamiliesInit, Promise!Init, HasEffectiveDate, Received
<1>2. /\ SchedulerInv /\ SchedulerInv' /\ HeadsInv /\ HeadsInv' /\ BoxesTruthful'
      /\ CallHistory /\ DatesInv' /\ StartedInv /\ FlagCovers /\ [MCNext]_mcVars
      => [Promise!Next \/ RefillsOfAnothersFlag]_(Promise!vars)
  <2> SUFFICES ASSUME SchedulerInv, SchedulerInv', HeadsInv, HeadsInv', BoxesTruthful',
                      CallHistory, DatesInv', StartedInv, FlagCovers, [MCNext]_mcVars
               PROVE  [Promise!Next \/ RefillsOfAnothersFlag]_(Promise!vars)
    OBVIOUS
  <2>a. [Next]_vars
    BY DEF MCNext, mcVars
  <2>b. call = "none" \/ call' = call \/ boxes' = << >> => UNCHANGED Received
    BY ReceivedStays
  <2>0. ASSUME NEW how, EndWith(how)
        PROVE  call' = "none" /\ boxes' = << >>
    BY <2>0 DEF EndWith
  <2>1. ASSUME NEW f \in Family, NEW rows \in File, LoadFamily(f, rows)
        PROVE  Promise!Next
    <3>1. call = "none"
      BY <2>1 DEF LoadFamily
    <3> QED
      BY <2>b, <2>1, <3>1, LoadIsImport DEF Promise!Next
  <2>2. ASSUME NEW f \in Family, LoadUnreadable(f)
        PROVE  Promise!Next
    <3>1. call = "none" /\ call' = "none" /\ boxes' = << >> /\ UNCHANGED familyVars
      BY <2>0, <2>2 DEF LoadUnreadable, Between
    <3>2. Promise!Decline("import", f)
      BY <2>b, <3>1, RefusalIsDecline
    <3> QED
      BY <3>2 DEF Promise!Next
  <2>3. ASSUME NEW f \in Family, ShipStarterBox(f)
        PROVE  Promise!Next
    <3>1. call = "none" /\ UNCHANGED familyVars /\ family_data_arg' = f /\ UNCHANGED Received
      BY <2>b, <2>3 DEF ShipStarterBox, Between
    <3>2. CASE Start("starter", f)
      BY <3>1, <3>2, StartIsRequest DEF Promise!Next
    <3>3. CASE get_brush_preferences(f) = Nil /\ \E how : EndWith(how)
      <4>1. ~ Promise!Complete("starter", f)
        BY <3>3, RefusalIsDue
      <4>2. Promise!Decline("starter", f)
        BY <2>0, <3>1, <3>3, <4>1, RefusalIsDecline
      <4> QED
        BY <4>2 DEF Promise!Next
    <3> QED
      BY <2>3, <3>2, <3>3 DEF ShipStarterBox
  <2>4. ASSUME NEW f \in Family, ShipRefillBoxes(f)
        PROVE  Promise!Next
    <3>1. call = "none" /\ UNCHANGED familyVars /\ family_data_arg' = f /\ UNCHANGED Received
      BY <2>b, <2>4 DEF ShipRefillBoxes, Between
    <3>2. CASE Start("refill", f)
      BY <3>1, <3>2, StartIsRequest DEF Promise!Next
    <3>3. CASE /\ \/ get_brush_preferences(f) = Nil
                  \/ ~ has_starter_box_shipped \/ ~ HasEffectiveDate(f)
               /\ \E how : EndWith(how)
      <4>1. ~ Promise!Complete("refill", f)
        BY <3>3, RefusalIsDue
      <4>2. Promise!Decline("refill", f)
        BY <2>0, <3>1, <3>3, <4>1, RefusalIsDecline
      <4> QED
        BY <4>2 DEF Promise!Next
    <3> QED
      BY <2>4, <3>2, <3>3 DEF ShipRefillBoxes
  <2>5. CASE Pack \/ NextPreference \/ UNCHANGED vars
    <3>1. /\ UNCHANGED <<brush_preferences, contract_effective_date, call, family_data_arg>>
          /\ call # "none" \/ UNCHANGED boxes
      BY <2>5 DEF Pack, NextPreference, InLoop, vars, familyVars, schedulerVars
    <3> QED
      BY <2>b, <3>1 DEF Promise!vars, HasEffectiveDate
  <2>6. CASE Raise
    <3>1. /\ call \in {"starter", "refill"} /\ family_data_arg \in Family /\ boxes' = << >>
      BY <2>6 DEF Raise, EndWith, SchedulerInv, TypeOK
    <3>2. Promise!Decline(call, family_data_arg)
      BY <2>b, <2>6, <3>1, RaiseIsDecline
    <3> QED
      BY <3>1, <3>2 DEF Promise!Next
  <2>7. CASE Return
    <3>1. call \in {"starter", "refill"} /\ family_data_arg \in Family
      BY <2>7 DEF Return, SchedulerInv, TypeOK
    <3>2. MCNext
      BY <2>7, <3>1 DEF Return, mcVars, vars, schedulerVars
    <3>3. \/ Promise!Fulfil(call, family_data_arg)
          \/ Promise!Decline(call, family_data_arg)
          \/ RefillsOfAnothersFlag
      BY <2>7, <3>2, ReturnFulfils DEF HeadsInv
    <3> QED
      BY <3>1, <3>3 DEF Promise!Next
  <2> QED
    BY <2>a, <2>1, <2>2, <2>3, <2>4, <2>5, <2>6, <2>7 DEF Next, Manager, Continue
<1> QED
  BY <1>1, <1>2, MCSpecIsSpec, SchedulerInvInductive, BoxesAlwaysTruthful, HeadsAreAccounted,
     CallHistoryInductive, DatesInductive, StartedInductive, FlagInductive, PTL
  DEF MCSpec, KeepsPromise

-----------------------------------------------------------------------------
(***************************************************************************)
(* The report.  What each stage has behind it.                             *)
(***************************************************************************)
FixtureIsAFile == fixture \in File \cup {Nil}

KataInv ==
  /\ stage \in {"start", "gets", "load"} => call = "none"
  /\ stage \in {"starter", "starter called", "refill called", "done"} =>
       /\ fixture \in File
       /\ family_data_arg = starWarsFamily
       /\ brush_preferences[starWarsFamily] = Colours(fixture)
  /\ stage = "starter" => call = "none"
  /\ stage = "starter called" =>
       /\ call \in {"none", "starter"}
       /\ call = "none" =>
            answer = "raised" \/ (answer = "starter boxes" /\ has_starter_box_shipped)
  /\ stage = "refill called" =>
       /\ call \in {"none", "refill"}
       /\ call = "none" => answer \in {"raised", "refill boxes"}
  /\ stage = "done" => call = "none" /\ answer = "refill boxes"

LEMMA KataStepIsStep ==
  ASSUME FixtureIsAFile, [KataNext]_kataVars
  PROVE  [Next]_vars
<1>1. ASSUME LoadFixture
      PROVE  Next
  <2>1. CASE fixture # Nil
    <3>1. fixture \in File /\ LoadFamily(starWarsFamily, fixture)
      BY <1>1, <2>1 DEF LoadFixture, FixtureIsAFile
    <3> QED
      BY <3>1, StarWarsIsAFamily DEF Next, Manager
  <2>2. CASE fixture = Nil
    <3>1. LoadUnreadable(starWarsFamily)
      BY <1>1, <2>2 DEF LoadFixture
    <3> QED
      BY <3>1, StarWarsIsAFamily DEF Next, Manager
  <2> QED
    BY <2>1, <2>2
<1>2. ASSUME CallStarter \/ CallRefill \/ Running
      PROVE  Next
  BY <1>2, StarWarsIsAFamily DEF CallStarter, CallRefill, Running, Next, Manager
<1>3. ASSUME HasInputFile \/ Gets \/ Finish
      PROVE  UNCHANGED vars
  BY <1>3 DEF HasInputFile, Gets, Finish
<1> QED
  BY <1>1, <1>2, <1>3 DEF KataNext, kataVars

(* A family with preferences has a Hash of them. *)
LEMMA HashIsThere ==
  ASSUME SchedulerInv, KataInv, stage \in {"starter", "starter called"}
  PROVE  get_brush_preferences(starWarsFamily) # Nil
<1>1. fixture \in File /\ brush_preferences[starWarsFamily] = Colours(fixture)
  BY DEF KataInv
<1>2. Colours(fixture) \in Seq(Colour \cup {Nil})
  BY <1>1, FileType, ColumnTypes
<1>3. Tally(Colours(fixture)) \in Seq(Preference)
  BY <1>2, TallyType DEF Preference
<1> QED
  BY <1>1, <1>2, <1>3, NilIsNoList, NilIsNoHash DEF get_brush_preferences

LEMMA KataInvStep ==
  ASSUME SchedulerInv, FixtureIsAFile, KataInv, [KataNext]_kataVars
  PROVE  KataInv'
<1>1. CASE HasInputFile \/ Gets
  BY <1>1 DEF HasInputFile, Gets, Goto, vars, schedulerVars, KataInv
<1>2. CASE LoadFixture
  <2>1. CASE fixture # Nil
    <3>1. /\ fixture \in File /\ fixture' = fixture /\ stage' = "starter"
          /\ LoadFamily(starWarsFamily, fixture)
      BY <1>2, <2>1 DEF LoadFixture, Goto, FixtureIsAFile
    <3>2. call' = "none" /\ family_data_arg' = starWarsFamily
      BY <3>1 DEF LoadFamily, EndWith
    <3>3. brush_preferences'[starWarsFamily] = Colours(fixture)
      BY <3>1, StarWarsIsAFamily DEF LoadFamily, Load, SchedulerInv, TypeOK, FamiliesTypeOK
    <3> QED
      BY <3>1, <3>2, <3>3 DEF KataInv
  <2>2. CASE fixture = Nil
    BY <1>2, <2>2 DEF LoadFixture, Goto, KataInv
  <2> QED
    BY <2>1, <2>2
<1>3. CASE CallStarter
  <2>1. /\ stage = "starter" /\ stage' = "starter called" /\ fixture' = fixture
        /\ ShipStarterBox(starWarsFamily)
    BY <1>3 DEF CallStarter, Goto
  <2>2. Start("starter", starWarsFamily)
    BY <2>1, HashIsThere DEF ShipStarterBox
  <2>3. UNCHANGED brush_preferences /\ family_data_arg' = starWarsFamily /\ call' = "starter"
    BY <2>1, <2>2 DEF ShipStarterBox, Between, familyVars, Start
  <2> QED
    BY <2>1, <2>3 DEF KataInv
<1>4. CASE CallRefill
  <2>1. /\ stage = "starter called" /\ stage' = "refill called" /\ fixture' = fixture
        /\ ShipRefillBoxes(starWarsFamily) /\ answer # "raised"
    BY <1>4 DEF CallRefill, Goto
  <2>2. /\ call = "none" /\ UNCHANGED brush_preferences
        /\ family_data_arg' = starWarsFamily
    BY <2>1 DEF ShipRefillBoxes, Between, familyVars
  <2>3. has_starter_box_shipped
    BY <2>1, <2>2 DEF KataInv
  <2>4. Start("refill", starWarsFamily) \/ EndWith("raised")
    BY <2>1, <2>3, HashIsThere DEF ShipRefillBoxes
  <2>5. call' = "refill" \/ (call' = "none" /\ answer' = "raised")
    BY <2>4 DEF Start, EndWith
  <2> QED
    BY <2>1, <2>2, <2>5 DEF KataInv
<1>5. CASE Running
  <2>1. /\ call # "none" /\ UNCHANGED <<stage, fixture>>
        /\ UNCHANGED <<brush_preferences, family_data_arg>>
        /\ \/ call' = call
           \/ call' = "none" /\ answer' = "raised"
           \/ /\ call' = "none"
              /\ answer' = (IF call = "starter" THEN "starter boxes" ELSE "refill boxes")
              /\ has_starter_box_shipped' = (has_starter_box_shipped \/ call = "starter")
    BY <1>5 DEF Running, Continue, Pack, NextPreference, InLoop, Raise, Return, EndWith,
       familyVars
  <2> QED
    BY <2>1 DEF KataInv
<1>6. CASE Finish
  BY <1>6 DEF Finish, Goto, vars, schedulerVars, familyVars, KataInv
<1>7. CASE UNCHANGED kataVars
  BY <1>7 DEF kataVars, vars, schedulerVars, familyVars, KataInv
<1> QED
  BY <1>1, <1>2, <1>3, <1>4, <1>5, <1>6, <1>7 DEF KataNext

LEMMA KataSpecIsSpec == KataSpec => Spec
<1>1. KataInit => Init /\ FixtureIsAFile
  BY DEF KataInit, FixtureIsAFile
<1>2. FixtureIsAFile /\ [KataNext]_kataVars => FixtureIsAFile'
  BY DEF FixtureIsAFile, KataNext, HasInputFile, Gets, LoadFixture, CallStarter, CallRefill,
     Running, Finish, Goto, kataVars
<1>3. FixtureIsAFile /\ [KataNext]_kataVars => [Next]_vars
  BY KataStepIsStep
<1> QED
  BY <1>1, <1>2, <1>3, PTL DEF KataSpec, Spec

LEMMA KataInductive == KataSpec => []KataInv
<1>1. KataInit => FixtureIsAFile /\ KataInv
  BY DEF KataInit, Init, FixtureIsAFile, KataInv
<1>2. FixtureIsAFile /\ [KataNext]_kataVars => FixtureIsAFile'
  BY DEF FixtureIsAFile, KataNext, HasInputFile, Gets, LoadFixture, CallStarter, CallRefill,
     Running, Finish, Goto, kataVars
<1>3. SchedulerInv /\ FixtureIsAFile /\ KataInv /\ [KataNext]_kataVars => KataInv'
  BY KataInvStep
<1> QED
  BY <1>1, <1>2, <1>3, KataSpecIsSpec, SchedulerInvInductive, PTL DEF KataSpec

(* Whatever the fixture holds, a report that comes to its end ends with    *)
(* refills, one head for every member, although the starter boxes have     *)
(* counted preferences of the same list down before (boxing_kata.rb:9-25). *)
THEOREM ReportIsComplete == KataSpec => []ReportEndsWithRefills
<1>1. SchedulerInv /\ HeadsInv /\ KataInv => ReportEndsWithRefills
  <2> SUFFICES ASSUME SchedulerInv, HeadsInv, KataInv, stage = "done", NEW c \in Colour
               PROVE  answer = "refill boxes" /\ Written(c) = HeadsIn(Colours(fixture), c)
    BY DEF ReportEndsWithRefills, KataInv
  <2>1. /\ call = "none" /\ answer = "refill boxes" /\ box = << >> /\ preferences = << >>
        /\ brush_preferences[family_data_arg] = Colours(fixture)
    BY DEF KataInv, SchedulerInv, CallInv
  <2>2. HeadsIn(box, c) = 0 /\ StillToPack(c) = 0
    BY <2>1, NothingIsEmpty, CountsAreSizes
  <2>3. Written(c) + HeadsIn(box, c) + StillToPack(c)
          = HeadsIn(brush_preferences[family_data_arg], c)
    BY <2>1 DEF HeadsInv, NoHeadLostOrAdded
  <2>4. Written(c) \in Nat
    BY CountsAreNaturals
  <2>5. Written(c) = HeadsIn(brush_preferences[family_data_arg], c)
    BY ONLY <2>2, <2>3, <2>4
  <2>6. HeadsIn(brush_preferences[family_data_arg], c) = HeadsIn(Colours(fixture), c)
    BY <2>1
  <2> QED
    BY <2>1, <2>5, <2>6
<1> QED
  BY <1>1, KataSpecIsSpec, KataInductive, SchedulerInvInductive, HeadsAreAccounted, PTL
=============================================================================
