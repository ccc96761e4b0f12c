SPECIFICATION Spec
CONSTANTS
  Typed = {0, 1}
  Exp = Exp
  Blank = Blank
  Quotes <- MCQuotes
  Cash = 4
  Holdings = {4}
  Percents = {25}
  Kept <- MCKept
  MaxTracked = 1
  MaxTraders = 2
  MaxSubmits = 3
  None = None
INVARIANTS
  TypeOK
  SentPassesServer
  OneAtATime
  WorkingIsInFlight
CHECK_DEADLOCK FALSE
