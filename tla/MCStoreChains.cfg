SPECIFICATION Spec
CONSTANTS
  BucketSize = 4
  TreeRootSize = 2
  NumThreads = 1
  k1 = k1
  k2 = k2
  k3 = k3
  k4 = k4
  Keys = {k1, k2, k3}
  Chunks = {"x"}
  Ops = {"GET", "SET", "APP"}
  HtHash <- Spread
  KeyHash <- Hint
  KeyOpt = TRUE
  MacOpt = FALSE
  CtrSpan = 6
  RandNac = {0, 5}
  MaxVal = 2
INVARIANTS
  TypeOK
  NoFalseAlarm
  RootsCoverMemory
  OneEntryPerKey
PROPERTIES
  UpdateUsesFreshCounters
  ImplementsKVStore
