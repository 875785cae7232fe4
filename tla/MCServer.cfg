SPECIFICATION FairSpec
CONSTANTS
  l1 = l1
  l2 = l2
  r1 = r1
  r2 = r2
  r3 = r3
  Starts <- AnyStart
  NumThreads = 1
  Requests = 1
  MaxBroken = 1
INVARIANTS
  QuitInTime
  ConnectionsCounted
PROPERTIES
  TimesInOrder
  ServerEnds
CHECK_DEADLOCK FALSE
