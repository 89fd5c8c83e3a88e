--------------------------- MODULE DriverDatabase ---------------------------
(***************************************************************************)
(* Class Driver as its callers see it: the map driverDatabase and the      *)
(* public operations RegisterDriver, AddTrip and GenerateReport, called in *)
(* any order (DriverApp.cpp:48-108).                                       *)
(***************************************************************************)
EXTENDS TripRules

CONSTANTS
  Name,             \* driver names
  Trip,             \* the trips callers submit
  NoSpeed           \* the "0 miles" line of a report gives no speed

ASSUME TripType ==
  Trip \subseteq [startTime : Field, stopTime : Field, milesDriven : Int]

ASSUME NoSpeedIsNoInt == NoSpeed \notin Int /\ NoSpeed # IndeterminateInt

VARIABLES
  driverDatabase,   \* registered name -> Driver_t
  result,           \* which message the last RegisterDriver or AddTrip returned
  report            \* the last report: registered name -> its line

vars == <<driverDatabase, result, report>>

Registered == DOMAIN driverDatabase

Driver_t == [totalTimeDriven : Int, totalMilesDriven : Int, trips : {<<>>}]

ReportLine_t == [miles : Int, mph : Int \cup {IndeterminateInt, NoSpeed}]

Message ==
  {"none", "entered", "already exists", "added", "too fast", "too slow",
   "no such driver", "unsuccessful"}

TypeOK ==
  /\ driverDatabase \in [Registered -> Driver_t]
  /\ Registered \subseteq Name
  /\ result \in Message
  /\ report \in [DOMAIN report -> ReportLine_t]
  /\ DOMAIN report \subseteq Registered

Init ==
  /\ driverDatabase = [n \in {} |-> n]
  /\ result = "none"
  /\ report = [n \in {} |-> n]

NewDriver == [totalTimeDriven |-> 0, totalMilesDriven |-> 0, trips |-> << >>]

(* Mutant: the name is not looked up, so that a known driver starts anew. *)
RegisterDriverAnew(driverName) ==
  /\ driverDatabase' =
       [n \in Registered \cup {driverName} |->
          IF n = driverName THEN NewDriver ELSE driverDatabase[n]]
  /\ result' = "entered"
  /\ UNCHANGED report

(* A new driver starts from zero; a known one is left as it is. *)
RegisterDriver(driverName) ==
  /\ \/ /\ driverName \notin Registered
        /\ driverDatabase' =
             [n \in Registered \cup {driverName} |->
                IF n = driverName THEN NewDriver ELSE driverDatabase[n]]
        /\ result' = "entered"
     \/ /\ driverName \in Registered
        /\ result' = "already exists"
        /\ UNCHANGED driverDatabase
  /\ UNCHANGED report

(* The trip itself is not kept: trips stays what it was. *)
Credited(driver, time, miles) ==
  [totalTimeDriven  |-> driver.totalTimeDriven + time,
   totalMilesDriven |-> driver.totalMilesDriven + miles,
   trips            |-> driver.trips]

(* The reason AddTrip returns for a trip that IsTripValid refuses. *)
Rejection(averageSpeed) ==
  IF Above(averageSpeed, 100) THEN "too fast"
  ELSE IF Below(averageSpeed, 5) THEN "too slow"
  ELSE "unsuccessful"

AddTrip(driverName, trip) ==
  LET tripLength   == CalculateTripLength(trip.startTime, trip.stopTime)
      averageSpeed == CalculateAverageSpeed(tripLength, trip.milesDriven)
  IN
  /\ \/ /\ driverName \notin Registered
        /\ result' = "no such driver"
        /\ UNCHANGED driverDatabase
     \/ /\ driverName \in Registered
        /\ IsTripValid(averageSpeed)
        /\ driverDatabase' =
             [driverDatabase EXCEPT
                ![driverName] = Credited(@, tripLength, trip.milesDriven)]
        /\ result' = "added"
     \/ /\ driverName \in Registered
        /\ ~ IsTripValid(averageSpeed)
        /\ result' = Rejection(averageSpeed)
        /\ UNCHANGED driverDatabase
  /\ UNCHANGED report

ReportLine(driver) ==
  IF driver.totalMilesDriven > 0
  THEN [miles |-> driver.totalMilesDriven \div MilesUnit,
        mph   |-> CastToInt(CalculateAverageSpeed(driver.totalTimeDriven,
                                                  driver.totalMilesDriven))]
  ELSE [miles |-> 0, mph |-> NoSpeed]

GenerateReport ==
  /\ report' = [n \in Registered |-> ReportLine(driverDatabase[n])]
  /\ UNCHANGED <<driverDatabase, result>>

Next ==
  \/ \E n \in Name : RegisterDriver(n)
  \/ \E n \in Name, trip \in Trip : AddTrip(n, trip)
  \/ GenerateReport

Spec == Init /\ [][Next]_vars

-----------------------------------------------------------------------------
(***************************************************************************)
(* Safety, when every trip ends after it starts, as the problem statement  *)
(* lets the program assume.                                                *)
(***************************************************************************)
ForwardTrips ==
  \A trip \in Trip : CalculateTripLength(trip.startTime, trip.stopTime) > 0

(* A driver's totals are both zero or, summed over any number of accepted
   trips, still average between 5 and 100 mph: time and distance are added
   separately, and no sum of admissible trips leaves the limits.          *)
WithinLimits(driver) ==
  LET miles == 60 * driver.totalMilesDriven
      time  == MilesUnit * driver.totalTimeDriven
  IN  \/ driver.totalTimeDriven = 0 /\ driver.totalMilesDriven = 0
      \/ 5 * time < miles /\ miles < 100 * time

AveragesWithinLimits ==
  \A n \in Registered : WithinLimits(driverDatabase[n])

(* The speed GenerateReport casts to int is finite for every driver it
   prints one for, and the printed number lies in 5..99: no division by a
   zero total, no indeterminate cast, no negative speed.                   *)
ReportSpeedsWithinLimits ==
  \A n \in DOMAIN report : report[n].mph \in (5..99) \cup {NoSpeed}

(* Nothing AddTrip or RegisterDriver does lowers a total that was reached.  *)
TotalsNeverShrink ==
  [][\A n \in Registered :
        /\ n \in Registered'
        /\ driverDatabase'[n].totalTimeDriven >= driverDatabase[n].totalTimeDriven
        /\ driverDatabase'[n].totalMilesDriven >= driverDatabase[n].totalMilesDriven
    ]_driverDatabase

(***************************************************************************)
(* Safety for arbitrary trips: of zero length, reversed, of zero or        *)
(* negative distance.                                                      *)
(***************************************************************************)

(* A known driver's record changes only by an accepted trip: registering
   the name again, or a trip that is refused for any reason, leaves it.     *)
KnownDriversKeepTheirTotals ==
  [][\A n \in Registered :
        /\ n \in Registered'
        /\ result' # "added" => driverDatabase'[n] = driverDatabase[n]
    ]_driverDatabase

(* A trip that is accepted moves time and distance both: none of the
   quotients x/0, 0/0 and 0/x passes IsTripValid.                          *)
TimeAndMilesMoveTogether ==
  [][\A n \in Registered :
        (driverDatabase'[n].totalTimeDriven = driverDatabase[n].totalTimeDriven)
          <=> (driverDatabase'[n].totalMilesDriven = driverDatabase[n].totalMilesDriven)
    ]_driverDatabase

=============================================================================
