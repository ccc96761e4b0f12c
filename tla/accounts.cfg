SPECIFICATION Spec
CONSTANTS
  Ids = {1, 2, 3, 4, 5}
  Terms <- LedgerTerms
  Traders = {"a", "b", "c"}
  Nobody = ""
  Symbols = {"X", "Y"}
  Prices = {1, 3}
  StartingCash = 10
  MaxHistory = 1
  MaxAccounts = 2
CHECK_DEADLOCK FALSE
INVARIANTS
  TypeOK
  PnLAddsUp
  ZeroSum
  PositionsMatchOrders
  OpenMatchesVenue
PROPERTY
  NoOrderForgotten
