SPECIFICATION FairSpec
CONSTANTS
  Ids = {1, 2, 3}
  Cancellers = {c1}
  QueueCap = 2
  MaxTrades = 4
  MayStop = TRUE
  None = None
  Offers <- AnswerOffers
CHECK_DEADLOCK FALSE
PROPERTIES
  CancelIsFinal
  AcceptedIsReported
