SPECIFICATION FairSpec
CONSTANTS
  o1 = o1
  s1 = s1
  Ids <- MCIds
  StopIds = {s1}
  QueueCap = 1
  DiskFails = TRUE
  MaxCrashes = 3
  Garbage = Garbage
CHECK_DEADLOCK FALSE
INVARIANTS
  TypeOK
  AckedIsWorking
  ExactlyOnce
  AckOrderKept
PROPERTY
  ReplayEnds
