SPECIFICATION Spec
CONSTANTS
  c1 = c1
  c2 = c2
  c3 = c3
  Clients = {c1, c2}
  NumThreads = 2
  Early = TRUE
  Kinds = {"typed"}
INVARIANT
  LocksInitialised
CHECK_DEADLOCK FALSE
