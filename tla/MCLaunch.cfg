SPECIFICATION FairSpec
CONSTANTS
  DefaultArg <- SmallServer
  DefaultClient <- SmallClient
  ServerValues <- ServerTries
  ClientValues <- ClientTries
  TraceLines = 5
INVARIANTS
  EveryLineOnce
  EvenSplitsWork
  DividingSizesServe
  BufferHoldsRequest
PROPERTIES
  ClientEnds
CHECK_DEADLOCK FALSE
