CONSTANTS
  MainDomain = d0
  Domains = {d0, d1}
  Orphan = Orphan
  NULL = NULL
  Pools = {p1, p2, p3}
  PoolSize = 8
  HeaderSize = 0
  SlotSize = 4
  AssertionsAssumed = FALSE
SPECIFICATION Spec
SYMMETRY PoolSymmetry
INVARIANTS
  RingsAreDisjointCycles
  KeptInSync
  EveryRootIsOnAScannedRing
  EveryPoolIsMet
PROPERTIES
  OnlyFlushedPoolsMove
  WalksAdvance
