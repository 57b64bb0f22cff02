CONSTANTS
  POOL_CAPACITY = 3
  Owner = Owner
  Remotes = {r1, r2}
  NoLocks = {n1}
  NoThread = NoThread
  Value = Value
  Empty = Empty
  Null = Null
SPECIFICATION FairSpec
INVARIANTS
  EveryCellAccounted
  EndIsLast
  WeOwnAllTheSlots
  ScanExact
PROPERTIES
  FlushKeepsRoots
  ImplementsLedger
  StopTheWorldEnds
  FreedCellsComeBack
