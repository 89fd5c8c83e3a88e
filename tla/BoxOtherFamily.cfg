\* Refills for the family that was sent nothing.
SPECIFICATION MCSpec
CONSTANTS
  Blue = Blue
  Pink = Pink
  Green = Green
  NewYear = NewYear
  Spring = Spring
  Garbled = Garbled
  Nil = Nil
  Family <- MCFamily
  Colour <- MCColour
  Id <- MCId
  DateText <- MCDateText
  Day <- MCDay
  File <- MCFixtures
INVARIANTS
  RefillsOnlyAfterStarterBoxes
