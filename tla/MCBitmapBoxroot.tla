--------------------------- MODULE MCBitmapBoxroot ---------------------------
(* BitmapBoxroot on small instances.  The chunks are interchangeable, and so  *)
(* are the domains: no constant and no definition tells one from another.     *)
EXTENDS BitmapBoxroot, TLC

ChunkSymmetry == Permutations(Chunks) \cup Permutations(Domains)
=============================================================================
