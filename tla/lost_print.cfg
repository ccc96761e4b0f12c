SPECIFICATION Spec
CONSTANTS
  A = A
  B = B
  Symbols = {A, B}
  Size <- MCSize
  Buffer = 2
  MaxTrades = 2
  MaxConnects = 2
  MaxCuts = 1
  None = None
INVARIANT
  NoPrintLost
CHECK_DEADLOCK FALSE
