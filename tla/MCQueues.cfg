SPECIFICATION FairSpec
CONSTANTS
  c1 = c1
  c2 = c2
  c3 = c3
  Clients = {c1, c2, c3}
  NumThreads = 2
  Early = FALSE
  Kinds = {"typed", "quit", "untyped"}
INVARIANTS
  NoLostWakeup
  PopsTheServedJob
  OneJobPerWaitingClient
  NoJobAfterQuit
PROPERTIES
  RequestsAnswered
  WorkersQuit
CHECK_DEADLOCK FALSE
