---------------------------- MODULE RingSequences ----------------------------
(***************************************************************************)
(* A ring as the sequence of its members, head first, for the prototypes   *)
(* rem_boxroot.c and bitmap_boxroot.c: where a member is matters there,    *)
(* not how it is linked.                                                   *)
(***************************************************************************)
EXTENDS Integers, Sequences, FiniteSets

\* The members of a ring that are not in gone, in the same order.
Without(ring, gone) ==
  LET kept == {i \in DOMAIN ring : ring[i] \notin gone}
      rank(i) == Cardinality({j \in kept : j <= i})
  IN [n \in 1 .. Cardinality(kept) |-> ring[CHOOSE i \in kept : rank(i) = n]]
=============================================================================
