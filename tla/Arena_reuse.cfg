CONSTANTS
  START_ITEMS = 2
  Blocks = {b1, b2}
  Unit = Unit
  NULL = NULL
  MaxArenas = 3
SPECIFICATION Spec
INVARIANTS
  RefsAreSlots
