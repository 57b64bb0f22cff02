CONSTANTS
  Domains = {d0, d1}
  Chunks = {c1, c2, c3}
  CHUNK_SIZE = 2
  NULL = NULL
SPECIFICATION Spec
SYMMETRY ChunkSymmetry
INVARIANTS
  ChunksOnTheirRing
  NonFullAtTheStart
PROPERTIES
  ImplementsRootTable
CHECK_DEADLOCK FALSE
