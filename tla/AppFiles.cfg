\* Files of complete and of cut lines.
SPECIFICATION FairSpec
CONSTANTS
  Field <- MCField
  Hours <- MCHours
  Minutes <- MCMinutes
  Stod <- MCStod
  IndeterminateInt = IndeterminateInt
  NotANumber = NotANumber
  NoSpeed = NoSpeed
  Line <- MCLines
  MaxLines = 4
CHECK_DEADLOCK FALSE
INVARIANTS
  LedgerCorrect
  SpacedNamesStayAtZero
