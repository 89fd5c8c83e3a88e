-------------------------- MODULE MCDriverDatabase --------------------------
(***************************************************************************)
(* DriverDatabase on two drivers, the times of day and the distances that  *)
(* sit on and around every limit, and at most MaxCalls calls.              *)
(***************************************************************************)
EXTENDS DriverDatabase, TLC

CONSTANT MaxCalls       \* bounds the calls a behaviour makes

VARIABLE calls          \* calls made so far

mcVars == <<driverDatabase, result, report, calls>>

MCField == {"10:15", "10:45", "11:15"}

MCHours == "10:15" :> 10 @@ "10:45" :> 10 @@ "11:15" :> 11

MCMinutes == "10:15" :> 15 @@ "10:45" :> 45 @@ "11:15" :> 15

MCName == {"Chris", "Don"}

Journey(start, stop, miles) ==
  [startTime |-> start, stopTime |-> stop, milesDriven |-> miles]

(* One hour at 5.0, 5.1, 99.9 and 100.0 mph; half an hour at 3, 41 and 150. *)
MCForwardTrips ==
  {Journey("10:15", "11:15", m) : m \in {50, 51, 999, 1000}}
    \cup {Journey("10:15", "10:45", m) : m \in {15, 205, 750}}

(* Trips of no length and reversed trips, of every sign of distance. *)
MCAnyTrips ==
  {Journey("10:15", "10:45", m) : m \in {-100, 0, 205}}
    \cup {Journey("10:45", "10:45", m) : m \in {-100, 0, 205}}
    \cup {Journey("10:45", "10:15", m) : m \in {-100, 0, 205}}

MCInit == Init /\ calls = 0

MCNext == calls < MaxCalls /\ Next /\ calls' = calls + 1

MCSpec == MCInit /\ [][MCNext]_mcVars
=============================================================================
