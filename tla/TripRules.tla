----------------------------- MODULE TripRules ------------------------------
(***************************************************************************)
(* The arithmetic of class Driver (DriverApp.cpp:110-141): times of day,   *)
(* trip lengths, average speeds and the rule that accepts a trip.          *)
(*                                                                         *)
(* A field of the input is a string without spaces.  What the C library    *)
(* reads in one is given by tables: Hours and Minutes are what atoi returns*)
(* for the parts before and after the ':'.  Distances are whole numbers of *)
(* tenths of a mile, the grain of every input of the repository, so that a *)
(* speed is an exact fraction; the rounding of doubles is not modelled.    *)
(***************************************************************************)
EXTENDS Integers

CONSTANTS
  Field,            \* the fields that occur in the input
  Hours,            \* atoi of the text of a field before its ':'
  Minutes,          \* atoi of the text of a field after its ':'
  IndeterminateInt  \* any int: what (int)x gives when x is not finite

ASSUME TimeTables == Hours \in [Field -> Int] /\ Minutes \in [Field -> Int]

ASSUME IndeterminateIsNoInt == IndeterminateInt \notin Int

MilesUnit == 10

(***************************************************************************)
(* A double that results from a division: num / den with den >= 0.  With   *)
(* den = 0 it is +inf, -inf or NaN according to the sign of num, and the   *)
(* two comparisons below agree with IEEE 754 on those three values.        *)
(***************************************************************************)
Quotient(num, den) ==
  IF den < 0 THEN [num |-> -num, den |-> -den] ELSE [num |-> num, den |-> den]

Above(x, limit) == x.num > limit * x.den

Below(x, limit) == x.num < limit * x.den

(* (int)x: truncation towards zero, undefined behaviour if x is not finite *)
CastToInt(x) ==
  IF x.den = 0 THEN IndeterminateInt
  ELSE IF x.num < 0 THEN -((-x.num) \div x.den)
  ELSE x.num \div x.den

ConvertTimeToMinutes(time) == Hours[time] * 60 + Minutes[time]

CalculateTripLength(startTime, stopTime) ==
  ConvertTimeToMinutes(stopTime) - ConvertTimeToMinutes(startTime)

CalculateAverageSpeed(time, miles) == Quotient(60 * miles, MilesUnit * time)

(* Mutant: the upper limit is forgotten. *)
IsTripValidLowerOnly(averageSpeed) == Above(averageSpeed, 5)

IsTripValid(averageSpeed) == Above(averageSpeed, 5) /\ Below(averageSpeed, 100)
=============================================================================
