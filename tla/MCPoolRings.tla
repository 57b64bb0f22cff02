----------------------------- MODULE MCPoolRings -----------------------------
(* PoolRings on small instances.  The pools are interchangeable: no constant *)
(* and no definition tells one address from another.                         *)
EXTENDS PoolRings, TLC

PoolSymmetry == Permutations(Pools)
=============================================================================
