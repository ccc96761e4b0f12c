SPECIFICATION FairSpec
CONSTANTS
  Ids = {1, 2, 3, 4, 5}
  Cancellers = {c1}
  QueueCap = 2
  MaxTrades = 3
  MayStop = FALSE
  None = None
  Offers <- VenueOffers
CHECK_DEADLOCK FALSE
INVARIANTS
  TypeOK
  OnePlace
  BookHoldsRestable
  BookNeverCrossed
  TapeReconciles
  FokAllOrNothing
  Settled
  NoStopLeftTriggered
PROPERTIES
  PriceTimePriority
  Settles
  CascadeEnds
