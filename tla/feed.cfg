SPECIFICATION FairSpec
CONSTANTS
  A = A
  B = B
  Symbols = {A, B}
  Size <- MCSize
  Buffer = 2
  MaxTrades = 2
  MaxConnects = 2
  MaxCuts = 1
  None = None
INVARIANTS
  TypeOK
  OneSymbol
  PrintsOnce
  GapsAreKnown
PROPERTIES
  TapeCatchesUp
CHECK_DEADLOCK FALSE
