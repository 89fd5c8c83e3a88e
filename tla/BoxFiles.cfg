\* Two families, complete and incomplete files.
SPECIFICATION MCSpec
CONSTANTS
  Blue = Blue
  Pink = Pink
  Green = Green
  NewYear = NewYear
  Spring = Spring
  Garbled = Garbled
  Nil = Nil
  Family <- MCFamily
  Colour <- MCColour
  Id <- MCId
  DateText <- MCDateText
  Day <- MCDay
  File <- MCFiles
INVARIANTS
  BoxesTruthful
  NoHeadLostOrAdded
  RefillsFollowTheStarterDate
PROPERTIES
  KeepsPromise
