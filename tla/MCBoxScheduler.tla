--------------------------- MODULE MCBoxScheduler ---------------------------
(***************************************************************************)
(* BoxScheduler with two families, which the specs share one scheduler     *)
(* between, and files like the two fixtures and with the fields a row may  *)
(* lack.  A history variable records the date of each family's last        *)
(* starter boxes.                                                          *)
(***************************************************************************)
EXTENDS BoxScheduler, TLC

CONSTANTS Blue, Pink, Green, NewYear, Spring, Garbled

VARIABLE started    \* family -> the date on its last starter boxes, or Nil

mcVars == <<vars, started>>

MCFamily == {"starWars", "smith"}

MCColour == {Blue, Pink, Green}

MCId == {"2", "4"}

MCDateText == {NewYear, Spring, Garbled}

MCDay == NewYear :> 0 @@ Spring :> 59 @@ Garbled :> Nil

Member(id, colour, insured, date) ==
  [id |-> id, brush_color |-> colour,
   primary_insured_id |-> insured, contract_effective_date |-> date]

(* Five members in three colours, four in three, seven of one colour. *)
StarWars ==
  <<Member("2", Blue, Nil, NewYear), Member("4", Pink, "2", Nil), Member("4", Blue, "2", Nil),
    Member("4", Green, "2", Nil), Member("4", Green, "2", Nil)>>

Smith ==
  <<Member("2", Pink, "4", Nil), Member("2", Green, "4", Nil),
    Member("4", Pink, Nil, Spring), Member("2", Blue, "4", Nil)>>

Seven == [i \in 1..7 |-> Member("2", Blue, Nil, NewYear)]

(* A member without a colour; no date at all, for one or two members; a date Date.parse rejects. *)
NoColour ==
  <<Member("2", Blue, Nil, NewYear), Member("4", Blue, "2", Nil), Member("4", Nil, "2", Nil)>>

NoDate == <<Member("2", Blue, Nil, Nil)>>

NoDates == <<Member("2", Blue, Nil, Nil), Member("4", Blue, "2", Nil)>>

BadDate == <<Member("2", Green, Nil, Garbled)>>

MCFixtures == {StarWars, Smith}

MCFiles == {StarWars, Smith, Seven, NoColour, NoDate, NoDates, BadDate, << >>}

MCInit == Init /\ started = [f \in Family |-> Nil]

MCNext ==
  /\ Next
  /\ started' =
       IF answer' = "starter boxes" /\ call = "starter" /\ call' = "none" /\ boxes' # << >>
       THEN [started EXCEPT ![family_data_arg] = Head(boxes'[1].schedule)]
       ELSE started

MCSpec == MCInit /\ [][MCNext]_mcVars /\ WF_vars(Continue)

(* The refills of a family that was sent starter boxes leave 90, 180, 270
   and 360 days after them, whatever file was loaded in between: a contract
   date is never replaced.                                                 *)
RefillsFollowTheStarterDate ==
  call = "none" /\ answer = "refill boxes" /\ started[family_data_arg] # Nil =>
    LET day == Day[started[family_data_arg]]
    IN  /\ day # Nil
        /\ \A i \in DOMAIN boxes : boxes[i].schedule = [k \in 1..4 |-> day + 90 * k]

(* DevelopmentNotes.txt:16-19: refills are for a family that has received
   its starter boxes.                                                      *)
RefillsOnlyAfterStarterBoxes ==
  call = "none" /\ answer = "refill boxes" /\ boxes # << >> =>
    started[family_data_arg] # Nil

(***************************************************************************)
(* Every call is, seen from outside, one step of the promise: a family has *)
(* received starter boxes if it was sent one.  The answer to a request for *)
(* refills of a family that was sent none, while has_starter_box_shipped   *)
(* was set for another or by a call that brought no boxes, is left out:    *)
(* the documents have it refused, the program packs (box_scheduler.rb:61), *)
(* and RefillsOnlyAfterStarterBoxes shows it.                              *)
(***************************************************************************)
Received == {f \in Family : started[f] # Nil}

Promise == INSTANCE ShippingPromise WITH
  members     <- brush_preferences,
  dated       <- {f \in Family : contract_effective_date[f] # Nil},
  schedulable <- {f \in Family : HasEffectiveDate(f)},
  received    <- Received,
  request     <- IF call = "none" THEN Nil ELSE <<call, family_data_arg>>,
  boxes       <- IF call = "none" THEN boxes ELSE << >>

RefillsOfAnothersFlag ==
  /\ call = "refill" /\ call' = "none"
  /\ has_starter_box_shipped /\ family_data_arg \notin Received

KeepsPromise ==
  Promise!Init /\ [][Promise!Next \/ RefillsOfAnothersFlag]_(Promise!vars)
=============================================================================
