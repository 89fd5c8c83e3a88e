\* Every fixture and every input.
SPECIFICATION KataFairSpec
CONSTANTS
  Blue = Blue
  Pink = Pink
  Green = Green
  NewYear = NewYear
  Spring = Spring
  Garbled = Garbled
  Nil = Nil
  Terminal = Terminal
  starWarsFamily = starWarsFamily
  Family = {starWarsFamily}
  Colour <- MCColour
  Id <- MCId
  DateText <- MCDateText
  Day <- MCDay
  File <- MCFile
CHECK_DEADLOCK FALSE
INVARIANTS
  ReportEndsWithRefills
PROPERTIES
  ReportEnds
