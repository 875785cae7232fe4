SPECIFICATION FairSpec
CONSTANTS
  l1 = l1
  l2 = l2
  r1 = r1
  r2 = r2
  r3 = r3
  Starts <- OnlyFewer
  NumThreads = 1
  Requests = 1
  MaxBroken = 0
PROPERTIES
  ClientRequestIsEnd
CHECK_DEADLOCK FALSE
