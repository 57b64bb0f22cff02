---------------------------- MODULE MCRemBoxroot ----------------------------
(* RemBoxroot on small instances.  The pools are interchangeable: no        *)
(* constant and no definition tells one address from another.               *)
EXTENDS RemBoxroot, TLC

PoolSymmetry == Permutations(Pools)
=============================================================================
