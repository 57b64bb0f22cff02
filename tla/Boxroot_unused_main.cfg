CONSTANTS
  MainDomain = d0
  Domains = {d0, d1}
  NoDomain = NoDomain
  Pools = {p1}
  PoolSize = 8
  HeaderSize = 0
  SlotSize = 4
  NoRoot = NoRoot
  MainCreatesFirst = FALSE
  EarlyIdReuse = FALSE
SPECIFICATION Spec
INVARIANTS
  NoDangling
CHECK_DEADLOCK FALSE
