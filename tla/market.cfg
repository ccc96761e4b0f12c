SPECIFICATION Spec
CONSTANTS
  Prices = {1, 3, 4}
  Quantities = {1, 2}
  Steps = {1, 2, 3}
  MaxHistory = 3
  MaxPrints = 4
  MaxTime = 4
  VISIBLE_LEVELS = 1
INVARIANTS
  CandlesPartitionTape
  ChartHoldsTheLivePrice
  HeaderIsTheWindow
CHECK_DEADLOCK FALSE
