SPECIFICATION Spec
CONSTANTS
  kMaxPages = 3
  kForcedCoalesceInterval = 4
  MaxPage = 6
  MaxLength = 3
INVARIANTS
  PagesLeadToSpans
  FreeListsExact
  StatsAddUp
  Coalesced
PROPERTIES
  InUseKept
