CONSTANTS
  MainDomain = d0
  Domains = {d0, d1, d2}
  Orphan = Orphan
  NULL = NULL
  Pools = {p1, p2, p3}
  PoolSize = 8
  HeaderSize = 0
  SlotSize = 4
  AssertionsAssumed = TRUE
SPECIFICATION Spec
SYMMETRY PoolSymmetry
INVARIANTS
  EveryRootIsOnAScannedRing
CHECK_DEADLOCK FALSE
