\* A Trip line without a distance.
SPECIFICATION FairSpec
CONSTANTS
  Field <- MCField
  Hours <- MCHours
  Minutes <- MCMinutes
  Stod <- MCStod
  IndeterminateInt = IndeterminateInt
  NotANumber = NotANumber
  NoSpeed = NoSpeed
  Line <- MCLines
  MaxLines = 3
CHECK_DEADLOCK FALSE
INVARIANTS
  MilesComeFromMilesField
