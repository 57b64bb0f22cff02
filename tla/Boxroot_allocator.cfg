CONSTANTS
  MainDomain = d0
  Domains = {d0, d1}
  NoDomain = NoDomain
  Pools = {p1, p2}
  PoolSize = 8
  HeaderSize = 0
  SlotSize = 4
  NoRoot = NoRoot
  MainCreatesFirst = TRUE
  EarlyIdReuse = FALSE
SPECIFICATION FairSpec
INVARIANTS
  TypeOK
  CountsMatch
  YoungRootsInYoungPools
  NoDangling
  NoUseAfterFree
PROPERTIES
  YoungUntilPromoted
  ImplementsRootTable
  FollowsPoolLife
  DelayedCellsComeBack
  OrphansAreAdopted
CHECK_DEADLOCK FALSE
