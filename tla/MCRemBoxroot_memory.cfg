CONSTANTS
  Pools = {p1, p2}
  POOL_ROOTS_CAPACITY = 2
  NULL = NULL
SPECIFICATION Spec
SYMMETRY PoolSymmetry
INVARIANTS
  FreeListsCorrect
  YoungIsRemembered
  EmptyPoolsGoBack
PROPERTIES
  ImplementsRootTable
CHECK_DEADLOCK FALSE
