SPECIFICATION BookSpec
CONSTANTS
  B1 = B1
  B2 = B2
  B3 = B3
  B4 = B4
  A1 = A1
  A2 = A2
  Orders = {B1, B2, B3, B4, A1, A2}
  Standing = {B2, A1}
  Side <- MCSide
  Price <- MCPrice
  Size <- MCSize
  VISIBLE_LEVELS = 1
  MaxLevels = 2
  MaxIncoming = 2
  MaxCuts = 0
  MaxVersion = 2
  None = None
INVARIANTS
  LevelLoadsItsTotal
  PlotMarksDepth
CHECK_DEADLOCK FALSE
