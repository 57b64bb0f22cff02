CONSTANTS
  Domains = {d0, d1}
  Chunks = {c1, c2}
  CHUNK_SIZE = 2
  NULL = NULL
SPECIFICATION Spec
SYMMETRY ChunkSymmetry
INVARIANTS
  NoUseAfterFree
CHECK_DEADLOCK FALSE
