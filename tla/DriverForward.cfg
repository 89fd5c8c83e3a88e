\* Every trip ends after it starts.
SPECIFICATION MCSpec
CONSTANTS
  Field <- MCField
  Hours <- MCHours
  Minutes <- MCMinutes
  IndeterminateInt = IndeterminateInt
  NoSpeed = NoSpeed
  Name <- MCName
  Trip <- MCForwardTrips
  MaxCalls = 6
CHECK_DEADLOCK FALSE
INVARIANTS
  AveragesWithinLimits
