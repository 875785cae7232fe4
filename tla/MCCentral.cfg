SPECIFICATION Spec
CONSTANTS
  Threads = {t1, t2}
  Classes = {"a", "b"}
  Spans = {s1, s2}
  Batch = 2
  PerSpan = 4
  max_cache_size_ <- MaxEntries
  InitEntries <- FirstEntries
  NoThread = NoThread
  Free = Free
SYMMETRY Symmetry
INVARIANTS
  OneLockAtMost
  ObjectsConserved
  ListsExact
  EntriesFit
