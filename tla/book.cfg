SPECIFICATION FairSpec
CONSTANTS
  B1 = B1
  B2 = B2
  B3 = B3
  B4 = B4
  A1 = A1
  A2 = A2
  Orders = {B2, A1}
  Standing = {B2}
  Side <- MCSide
  Price <- MCPrice
  Size <- MCSize
  VISIBLE_LEVELS = 1
  MaxLevels = 2
  MaxIncoming = 2
  MaxCuts = 1
  MaxVersion = 4
  None = None
INVARIANT
  TypeOK
PROPERTY
  DepthCatchesUp
CHECK_DEADLOCK FALSE
