------------------------ MODULE DriverDatabaseProofs ------------------------
(***************************************************************************)
(* Theorems about DriverDatabase: type correctness for every choice of the *)
(* constants, and the limits on averages and reports for every set of      *)
(* forward trips.                                                          *)
(***************************************************************************)
EXTENDS DriverDatabase, TLAPS

-----------------------------------------------------------------------------
(***************************************************************************)
(* Lemmas on the arithmetic.                                               *)
(***************************************************************************)

(* A quotient strictly between 5 and 100 is cast to one of 5..99. *)
LEMMA CastWithinLimits ==
  ASSUME NEW num \in Int, NEW den \in Int, den > 0,
         5 * den < num, num < 100 * den
  PROVE  CastToInt([num |-> num, den |-> den]) \in 5..99
<1> DEFINE q == num \div den
<1>1. CastToInt([num |-> num, den |-> den]) = q
  BY DEF CastToInt
<1>2. q \in Int /\ num - den < den * q /\ den * q <= num
  BY Z3
<1>3. q >= 5
  BY <1>2, Z3
<1>4. q <= 99
  BY <1>2, Z3
<1> QED
  BY <1>1, <1>2, <1>3, <1>4

(* CastToInt yields an integer or the indeterminate value. *)
LEMMA CastType ==
  ASSUME NEW num \in Int, NEW den \in Int
  PROVE  CastToInt(Quotient(num, den)) \in Int \cup {IndeterminateInt}
<1>1. ASSUME NEW a \in Int, NEW b \in Int, b >= 0
      PROVE  CastToInt([num |-> a, den |-> b]) \in Int \cup {IndeterminateInt}
  <2>1. CASE b = 0
    BY <2>1 DEF CastToInt
  <2>2. CASE b > 0
    BY <2>2, <1>1 DEF CastToInt
  <2> QED
    BY <1>1, <2>1, <2>2
<1>2. CASE den < 0
  BY <1>2, <1>1 DEF Quotient
<1>3. CASE den >= 0
  BY <1>3, <1>1 DEF Quotient
<1> QED
  BY <1>2, <1>3

(* Times of day and trip lengths are integers. *)
LEMMA TripLengthType ==
  ASSUME NEW trip \in Trip
  PROVE  /\ CalculateTripLength(trip.startTime, trip.stopTime) \in Int
         /\ trip.milesDriven \in Int
BY TimeTables, TripType DEF CalculateTripLength, ConvertTimeToMinutes

(* A forward trip is valid exactly if it averages between 5 and 100 mph. *)
LEMMA ForwardTripValid ==
  ASSUME NEW time \in Int, NEW miles \in Int, time > 0
  PROVE  IsTripValid(CalculateAverageSpeed(time, miles))
           <=> 5 * (MilesUnit * time) < 60 * miles /\ 60 * miles < 100 * (MilesUnit * time)
BY DEF IsTripValid, CalculateAverageSpeed, Quotient, Above, Below, MilesUnit

(* The lines a report prints are well typed. *)
LEMMA ReportLineType ==
  ASSUME NEW driver \in Driver_t
  PROVE  ReportLine(driver) \in ReportLine_t
<1> DEFINE x == CalculateAverageSpeed(driver.totalTimeDriven, driver.totalMilesDriven)
<1>1. driver.totalTimeDriven \in Int /\ driver.totalMilesDriven \in Int
  BY DEF Driver_t
<1>2. CastToInt(x) \in Int \cup {IndeterminateInt}
  BY <1>1, CastType DEF CalculateAverageSpeed, MilesUnit
<1>3. driver.totalMilesDriven \div MilesUnit \in Int
  BY <1>1 DEF MilesUnit
<1> QED
  BY <1>2, <1>3 DEF ReportLine, ReportLine_t

(* The line of a driver within the limits shows 5..99 mph, or no speed. *)
LEMMA ReportLineWithinLimits ==
  ASSUME NEW driver \in Driver_t, WithinLimits(driver)
  PROVE  ReportLine(driver).mph \in (5..99) \cup {NoSpeed}
<1> DEFINE num == 60 * driver.totalMilesDriven
           den == MilesUnit * driver.totalTimeDriven
<1>1. num \in Int /\ den \in Int
  BY DEF Driver_t, MilesUnit
<1>2. CASE driver.totalMilesDriven > 0
  <2>1. den > 0 /\ 5 * den < num /\ num < 100 * den
    BY <1>2 DEF WithinLimits, Driver_t, MilesUnit
  <2>2. CastToInt([num |-> num, den |-> den]) \in 5..99
    BY <1>1, <2>1, CastWithinLimits
  <2>3. CalculateAverageSpeed(driver.totalTimeDriven, driver.totalMilesDriven)
          = [num |-> num, den |-> den]
    BY <1>1, <2>1 DEF CalculateAverageSpeed, Quotient
  <2> QED
    BY <1>2, <2>2, <2>3 DEF ReportLine
<1>3. CASE ~ (driver.totalMilesDriven > 0)
  BY <1>3 DEF ReportLine
<1> QED
  BY <1>2, <1>3

-----------------------------------------------------------------------------
(***************************************************************************)
(* Type correctness.  It needs no assumption on the trips.                 *)
(***************************************************************************)
THEOREM TypeCorrect == Spec => []TypeOK
<1> USE DEF TypeOK, Registered
<1>1. Init => TypeOK
  BY DEF Init, Message
<1>2. TypeOK /\ [Next]_vars => TypeOK'
  <2> SUFFICES ASSUME TypeOK, [Next]_vars
               PROVE  TypeOK'
    OBVIOUS
  <2>1. ASSUME NEW n \in Name, RegisterDriver(n)
        PROVE  TypeOK'
    <3>1. NewDriver \in Driver_t
      BY DEF NewDriver, Driver_t
    <3>2. driverDatabase' \in [DOMAIN driverDatabase' -> Driver_t]
      BY <2>1, <3>1 DEF RegisterDriver
    <3>3. DOMAIN driverDatabase \subseteq DOMAIN driverDatabase'
          /\ DOMAIN driverDatabase' \subseteq Name
      BY <2>1 DEF RegisterDriver
    <3>4. result' \in Message /\ report' = report
      BY <2>1 DEF RegisterDriver, Message
    <3> QED
      BY <3>2, <3>3, <3>4
  <2>2. ASSUME NEW n \in Name, NEW trip \in Trip, AddTrip(n, trip)
        PROVE  TypeOK'
    <3> DEFINE t == CalculateTripLength(trip.startTime, trip.stopTime)
               m == trip.milesDriven
    <3>0. \A driver \in Driver_t : Credited(driver, t, m) \in Driver_t
      BY TripLengthType DEF Credited, Driver_t
    <3>1. driverDatabase' \in [DOMAIN driverDatabase -> Driver_t]
      BY <2>2, <3>0 DEF AddTrip
    <3>2. result' \in Message
      BY <2>2 DEF AddTrip, Rejection, Message
    <3> QED
      BY <2>2, <3>1, <3>2 DEF AddTrip
  <2>3. CASE GenerateReport
    BY <2>3, ReportLineType DEF GenerateReport
  <2>4. CASE UNCHANGED vars
    BY <2>4 DEF vars
  <2> QED
    BY <2>1, <2>2, <2>3, <2>4 DEF Next
<1> QED
  BY <1>1, <1>2, PTL DEF Spec

-----------------------------------------------------------------------------
(***************************************************************************)
(* Under ForwardTrips both limits are an invariant.  ReportSpeedsWithin-   *)
(* Limits alone is not inductive: what the next report prints depends on   *)
(* the totals, so the invariant carries AveragesWithinLimits with it.      *)
(***************************************************************************)
LimitsInv == TypeOK /\ AveragesWithinLimits /\ ReportSpeedsWithinLimits

LEMMA LimitsInductive ==
  ASSUME ForwardTrips, TypeOK, LimitsInv, TypeOK', [Next]_vars
  PROVE  LimitsInv'
<1> USE DEF LimitsInv, TypeOK, Registered
<1>1. ASSUME NEW n \in Name, RegisterDriver(n)
      PROVE  LimitsInv'
  <2>1. AveragesWithinLimits'
    <3>1. WithinLimits(NewDriver)
      BY DEF WithinLimits, NewDriver
    <3>2. \A k \in DOMAIN driverDatabase' :
             \/ driverDatabase'[k] = NewDriver
             \/ k \in DOMAIN driverDatabase /\ driverDatabase'[k] = driverDatabase[k]
      <4>1. CASE n \in Registered
        BY <1>1, <4>1 DEF RegisterDriver
      <4>2. CASE n \notin Registered
        <5>1. driverDatabase' = [k \in Registered \cup {n} |->
                                   IF k = n THEN NewDriver ELSE driverDatabase[k]]
          BY <1>1, <4>2 DEF RegisterDriver
        <5> QED
          BY <5>1
      <4> QED
        BY <4>1, <4>2
    <3> QED
      BY <3>1, <3>2 DEF AveragesWithinLimits
  <2>2. ReportSpeedsWithinLimits'
    BY <1>1 DEF RegisterDriver, ReportSpeedsWithinLimits
  <2> QED
    BY <2>1, <2>2
<1>2. ASSUME NEW n \in Name, NEW trip \in Trip, AddTrip(n, trip)
      PROVE  LimitsInv'
  <2> DEFINE t == CalculateTripLength(trip.startTime, trip.stopTime)
             m == trip.milesDriven
  <2>1. t \in Int /\ m \in Int /\ t > 0
    BY TripLengthType DEF ForwardTrips
  <2>2. AveragesWithinLimits'
    <3>1. CASE UNCHANGED driverDatabase
      BY <3>1 DEF AveragesWithinLimits
    <3>2. CASE n \in Registered /\ IsTripValid(CalculateAverageSpeed(t, m))
               /\ driverDatabase' =
                    [driverDatabase EXCEPT ![n] = Credited(@, t, m)]
      <4> DEFINE old == driverDatabase[n]
                 new == driverDatabase'[n]
      <4>1. 5 * (MilesUnit * t) < 60 * m /\ 60 * m < 100 * (MilesUnit * t)
        BY <2>1, <3>2, ForwardTripValid
      <4>2. old \in Driver_t /\ WithinLimits(old)
        BY <3>2 DEF AveragesWithinLimits
      <4>3. /\ new.totalMilesDriven = old.totalMilesDriven + m
            /\ new.totalTimeDriven = old.totalTimeDriven + t
        BY <3>2 DEF Credited
      <4>4. WithinLimits(new)
        <5>1. old.totalMilesDriven \in Int /\ old.totalTimeDriven \in Int
          BY <4>2 DEF Driver_t
        <5> HIDE DEF old, new, t, m
        <5> QED
          BY <2>1, <4>1, <4>2, <4>3, <5>1 DEF WithinLimits, MilesUnit
      <4>5. \A k \in Registered \ {n} : driverDatabase'[k] = driverDatabase[k]
        BY <3>2
      <4> QED
        BY <3>2, <4>4, <4>5 DEF AveragesWithinLimits
    <3> QED
      BY <1>2, <3>1, <3>2 DEF AddTrip
  <2>3. ReportSpeedsWithinLimits'
    BY <1>2 DEF AddTrip, ReportSpeedsWithinLimits
  <2> QED
    BY <2>2, <2>3
<1>3. CASE GenerateReport
  <2>1. AveragesWithinLimits'
    BY <1>3 DEF GenerateReport, AveragesWithinLimits
  <2>2. ReportSpeedsWithinLimits'
    BY <1>3, ReportLineWithinLimits
    DEF GenerateReport, AveragesWithinLimits, ReportSpeedsWithinLimits
  <2> QED
    BY <2>1, <2>2
<1>4. CASE UNCHANGED vars
  BY <1>4 DEF vars, AveragesWithinLimits, ReportSpeedsWithinLimits
<1> QED
  BY <1>1, <1>2, <1>3, <1>4 DEF Next

(* Whatever forward trips are submitted, in whatever order, every driver's
   totals average between 5 and 100 mph (AddTrip, DriverApp.cpp:64-91).     *)
THEOREM AveragesStayWithinLimits ==
  ASSUME ForwardTrips
  PROVE  Spec => [](AveragesWithinLimits /\ ReportSpeedsWithinLimits)
<1>1. Init => LimitsInv
  BY DEF Init, LimitsInv, TypeOK, Registered, Message,
         AveragesWithinLimits, ReportSpeedsWithinLimits
<1>2. TypeOK /\ TypeOK' /\ LimitsInv /\ [Next]_vars => LimitsInv'
  BY LimitsInductive
<1>3. LimitsInv => AveragesWithinLimits /\ ReportSpeedsWithinLimits
  BY DEF LimitsInv
<1> QED
  BY <1>1, <1>2, <1>3, TypeCorrect, PTL DEF Spec

-----------------------------------------------------------------------------
(***************************************************************************)
(* Action properties.                                                      *)
(***************************************************************************)

(* What IsTripValid lets through has neither zero length nor zero miles. *)
LEMMA ValidTripMoves ==
  ASSUME NEW time \in Int, NEW miles \in Int,
         IsTripValid(CalculateAverageSpeed(time, miles))
  PROVE  time # 0 /\ miles # 0
BY DEF IsTripValid, CalculateAverageSpeed, Quotient, Above, Below, MilesUnit

(* How a call can change the record of a driver who is in the database. *)
Unchanged(n) == driverDatabase'[n] = driverDatabase[n]

CreditedBy(n, trip) ==
  LET time == CalculateTripLength(trip.startTime, trip.stopTime)
  IN  /\ result' = "added"
      /\ IsTripValid(CalculateAverageSpeed(time, trip.milesDriven))
      /\ driverDatabase'[n] = Credited(driverDatabase[n], time, trip.milesDriven)

LEMMA StepOfKnownDriver ==
  ASSUME TypeOK, [Next]_vars, NEW k \in Registered
  PROVE  k \in Registered' /\ (Unchanged(k) \/ \E trip \in Trip : CreditedBy(k, trip))
<1> USE DEF TypeOK, Registered, Unchanged
<1>1. ASSUME NEW n \in Name, RegisterDriver(n)
      PROVE  k \in Registered' /\ Unchanged(k)
  <2>1. CASE n \in Registered
    BY <1>1, <2>1 DEF RegisterDriver
  <2>2. CASE n \notin Registered
    <3>1. driverDatabase' = [i \in Registered \cup {n} |->
                               IF i = n THEN NewDriver ELSE driverDatabase[i]]
      BY <1>1, <2>2 DEF RegisterDriver
    <3> QED
      BY <3>1, <2>2
  <2> QED
    BY <2>1, <2>2
<1>2. ASSUME NEW n \in Name, NEW trip \in Trip, AddTrip(n, trip)
      PROVE  k \in Registered' /\ (Unchanged(k) \/ CreditedBy(k, trip))
  <2> DEFINE t == CalculateTripLength(trip.startTime, trip.stopTime)
             m == trip.milesDriven
  <2>1. CASE UNCHANGED driverDatabase
    BY <2>1
  <2>2. CASE n \in Registered /\ IsTripValid(CalculateAverageSpeed(t, m))
             /\ driverDatabase' = [driverDatabase EXCEPT ![n] = Credited(@, t, m)]
             /\ result' = "added"
    BY <2>2 DEF CreditedBy
  <2> QED
    BY <1>2, <2>1, <2>2 DEF AddTrip
<1>3. CASE GenerateReport \/ UNCHANGED vars
  BY <1>3 DEF GenerateReport, vars
<1> QED
  BY <1>1, <1>2, <1>3 DEF Next

(* Only an accepted trip changes the record of a known driver
   (RegisterDriver's else branch and every refusal of AddTrip).             *)
THEOREM RecordsChangeOnlyByTrips == Spec => KnownDriversKeepTheirTotals
<1>1. TypeOK /\ [Next]_vars =>
        [\A n \in Registered :
            /\ n \in Registered'
            /\ result' # "added" => driverDatabase'[n] = driverDatabase[n]]_driverDatabase
  BY StepOfKnownDriver DEF Unchanged, CreditedBy
<1> QED
  BY <1>1, TypeCorrect, PTL DEF Spec, KnownDriversKeepTheirTotals

(* No accepted trip, forward or not, has zero length or zero distance
   (the division in CalculateAverageSpeed, DriverApp.cpp:123-127).         *)
THEOREM NoDegenerateTripCounts == Spec => TimeAndMilesMoveTogether
<1>1. TypeOK /\ [Next]_vars =>
        [\A n \in Registered :
           (driverDatabase'[n].totalTimeDriven = driverDatabase[n].totalTimeDriven)
             <=> (driverDatabase'[n].totalMilesDriven
                    = driverDatabase[n].totalMilesDriven)]_driverDatabase
  <2> SUFFICES ASSUME TypeOK, [Next]_vars, NEW n \in Registered
      PROVE  (driverDatabase'[n].totalTimeDriven = driverDatabase[n].totalTimeDriven)
               <=> (driverDatabase'[n].totalMilesDriven
                      = driverDatabase[n].totalMilesDriven)
    OBVIOUS
  <2>1. CASE Unchanged(n)
    BY <2>1 DEF Unchanged
  <2>2. ASSUME NEW trip \in Trip, CreditedBy(n, trip)
        PROVE  /\ driverDatabase'[n].totalTimeDriven # driverDatabase[n].totalTimeDriven
               /\ driverDatabase'[n].totalMilesDriven # driverDatabase[n].totalMilesDriven
    <3> DEFINE t == CalculateTripLength(trip.startTime, trip.stopTime)
               m == trip.milesDriven
    <3>1. t \in Int /\ m \in Int /\ t # 0 /\ m # 0
      BY <2>2, TripLengthType, ValidTripMoves DEF CreditedBy
    <3>2. /\ driverDatabase[n].totalTimeDriven \in Int
          /\ driverDatabase[n].totalMilesDriven \in Int
      BY DEF TypeOK, Driver_t
    <3>3. driverDatabase'[n] = Credited(driverDatabase[n], t, m)
      BY <2>2 DEF CreditedBy
    <3> HIDE DEF t, m
    <3> QED
      BY <3>1, <3>2, <3>3 DEF Credited
  <2> QED
    BY <2>1, <2>2, StepOfKnownDriver
<1> QED
  BY <1>1, TypeCorrect, PTL DEF Spec, TimeAndMilesMoveTogether

(* With forward trips no total that was reached is ever lowered. *)
THEOREM TotalsOnlyGrow ==
  ASSUME ForwardTrips
  PROVE  Spec => TotalsNeverShrink
<1>1. TypeOK /\ [Next]_vars =>
        [\A n \in Registered :
            /\ n \in Registered'
            /\ driverDatabase'[n].totalTimeDriven >= driverDatabase[n].totalTimeDriven
            /\ driverDatabase'[n].totalMilesDriven
                 >= driverDatabase[n].totalMilesDriven]_driverDatabase
  <2> SUFFICES ASSUME TypeOK, [Next]_vars, NEW n \in Registered
      PROVE  /\ n \in Registered'
             /\ driverDatabase'[n].totalTimeDriven >= driverDatabase[n].totalTimeDriven
             /\ driverDatabase'[n].totalMilesDriven >= driverDatabase[n].totalMilesDriven
    OBVIOUS
  <2>0. /\ driverDatabase[n].totalTimeDriven \in Int
        /\ driverDatabase[n].totalMilesDriven \in Int
    BY DEF TypeOK, Driver_t
  <2>1. CASE Unchanged(n)
    BY <2>0, <2>1, StepOfKnownDriver DEF Unchanged
  <2>2. ASSUME NEW trip \in Trip, CreditedBy(n, trip)
        PROVE  /\ driverDatabase'[n].totalTimeDriven >= driverDatabase[n].totalTimeDriven
               /\ driverDatabase'[n].totalMilesDriven >= driverDatabase[n].totalMilesDriven
    <3> DEFINE t == CalculateTripLength(trip.startTime, trip.stopTime)
               m == trip.milesDriven
    <3>1. t \in Int /\ m \in Int /\ t > 0
      BY TripLengthType DEF ForwardTrips
    <3>2. m > 0
      <4>1. 5 * (MilesUnit * t) < 60 * m
        BY <2>2, <3>1, ForwardTripValid DEF CreditedBy
      <4> HIDE DEF t, m
      <4> QED
        BY <3>1, <4>1 DEF MilesUnit
    <3>3. driverDatabase'[n] = Credited(driverDatabase[n], t, m)
      BY <2>2 DEF CreditedBy
    <3> HIDE DEF t, m
    <3> QED
      BY <2>0, <3>1, <3>2, <3>3 DEF Credited
  <2> QED
    BY <2>1, <2>2, StepOfKnownDriver
<1> QED
  BY <1>1, TypeCorrect, PTL DEF Spec, TotalsNeverShrink
=============================================================================
