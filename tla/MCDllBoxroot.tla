---------------------------- MODULE MCDllBoxroot ----------------------------
(* DllBoxroot on small instances.  The elements are interchangeable: no      *)
(* constant and no definition tells one address from another.                *)
EXTENDS DllBoxroot, TLC

ElemSymmetry == Permutations(Elems)
=============================================================================
