CONSTANTS
  POOL_CAPACITY = 2
  Owner = Owner
  Remotes = {r1}
  NoLocks = {}
  NoThread = NoThread
  Value = Value
  Empty = Empty
  Null = Null
SPECIFICATION Spec
PROPERTIES
  FlushKeepsRoots
