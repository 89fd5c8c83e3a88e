\* Trips of any length and distance.
SPECIFICATION MCSpec
CONSTANTS
  Field <- MCField
  Hours <- MCHours
  Minutes <- MCMinutes
  IndeterminateInt = IndeterminateInt
  NoSpeed = NoSpeed
  Name <- MCName
  Trip <- MCAnyTrips
  MaxCalls = 5
CHECK_DEADLOCK FALSE
PROPERTIES
  KnownDriversKeepTheirTotals
  TimeAndMilesMoveTogether
