------------------------------ MODULE PoolLedger ------------------------------
(***************************************************************************)
(* What the two free lists of a pool promise: the cells of the pool are    *)
(* shared out between the users, the free list and the delayed free list,  *)
(* a deletion moves one cell, a flush moves them all, and each does so in  *)
(* one step.  These are the steps module Boxroot takes on a pool           *)
(* (allocate, bxr_free_slot, free_slot_atomic, gc_pool).                   *)
(***************************************************************************)
EXTENDS Integers, FiniteSets

CONSTANT Cell     \* the cells of the pool

VARIABLES
  free,           \* the cells on the free list
  delayed,        \* the cells on the delayed free list
  count           \* alloc_count and a_alloc_count, as a pair

ledgerVars == <<free, delayed, count>>

LedgerInit ==
  /\ free = Cell /\ delayed = {}
  /\ count = <<0, 0>>

Take(c) ==
  /\ c \in free
  /\ free' = free \ {c}
  /\ count' = <<count[1] + 1, count[2]>>
  /\ UNCHANGED delayed

Return(c) ==
  /\ c \in Cell \ (free \cup delayed)
  /\ free' = free \cup {c}
  /\ count' = <<count[1] - 1, count[2]>>
  /\ UNCHANGED delayed

ReturnLater(c) ==
  /\ c \in Cell \ (free \cup delayed)
  /\ delayed' = delayed \cup {c}
  /\ count' = <<count[1], count[2] - 1>>
  /\ UNCHANGED free

Flush ==
  /\ delayed # {}
  /\ free' = free \cup delayed /\ delayed' = {}
  /\ count' = <<count[1] + count[2], 0>>

LedgerNext ==
  \/ \E c \in Cell : Take(c) \/ Return(c) \/ ReturnLater(c)
  \/ Flush

LedgerSpec == LedgerInit /\ [][LedgerNext]_ledgerVars
=============================================================================
