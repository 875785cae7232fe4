SPECIFICATION Spec
CONSTANTS
  BucketSize = 4
  TreeRootSize = 2
  NumThreads = 2
  k1 = k1
  k2 = k2
  k3 = k3
  k4 = k4
  Keys = {k1, k2, k3, k4}
  Chunks = {"x", "y"}
  Ops = {"GET", "SET"}
  HtHash <- Spread
  KeyHash <- Hint
  KeyOpt = TRUE
  MacOpt = TRUE
  CtrSpan = 4
  RandNac = {0}
  MaxVal = 1
INVARIANTS
  LookupStillValid
  MacBucketsBounded
  IInv
