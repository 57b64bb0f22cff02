CONSTANTS
  Elems = {e1, e2, e3, e4, e5}
  NULL = NULL
SPECIFICATION Spec
SYMMETRY ElemSymmetry
INVARIANTS
  RingsAreDisjointCycles
  RingsValid
PROPERTIES
  ImplementsRootTable
CHECK_DEADLOCK FALSE
