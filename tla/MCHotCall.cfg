SPECIFICATION FairSpec
CONSTANTS
  main = main
  other = other
  d1 = d1
  d2 = d2
  None = None
  Responder = Responder
  Requesters = {main, other}
  CallIDs = {0, 1}
  NumEntries = 1
  Data = {d1, d2}
  MaxRetries = 1
INVARIANTS
  MutualExclusion
  CallerWaits
  RecordTellsCall
PROPERTIES
  RefusedOnlyWhenBusy
  ImplementsSyncCall
  CallsReturn
  ResponderEnds
CHECK_DEADLOCK FALSE
