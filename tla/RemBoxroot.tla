----------------------------- MODULE RemBoxroot -----------------------------
(***************************************************************************)
(* boxroot/rem_boxroot.c: the prototype that relies on the remembered set  *)
(* of the runtime instead of scanning young pools.                         *)
(*                                                                         *)
(* An operation holds the lock of its domain and the mutex of the library, *)
(* or does without the latter when it touches one root only: each is one   *)
(* step.  A ring is the sequence of its pools, head first.  The order of   *)
(* a minor free list matters, since a minor collection splices it through  *)
(* a pointer to its last slot; a major free list is the set of its slots,  *)
(* any of which may be the first.                                          *)
(***************************************************************************)
EXTENDS Integers, FiniteSets, Sequences, SequencesExt, RingSequences, Null

CONSTANTS
  Pools,                \* addresses the aligned allocator may return
  POOL_ROOTS_CAPACITY

ASSUME SizeAssumption == POOL_ROOTS_CAPACITY \in Nat \ {0}
ASSUME PoolAssumption == IsFiniteSet(Pools)

Indices == 1 .. POOL_ROOTS_CAPACITY
Slots == Pools \X Indices
ASSUME NullAssumption == NULL \notin Indices

VARIABLES
  status,      \* of the library: `setup`, or the collector has crashed in it
  mapped,      \* the pools that the system has given
  pools,       \* the ring `pools`
  full_pools,  \* the ring of the pools found full
  hd,          \* the headers of the pools
  full,        \* the age of the value in each slot, or "free"
  remembered,  \* runtime: the slots in the remembered set
  gc,          \* runtime: the collection under way
  todo         \* runtime: what the collection has yet to do

vars == <<status, mapped, pools, full_pools, hd, full, remembered, gc, todo>>
runtime == <<remembered, gc, todo>>

Ages == {"young", "old"}

\* A value that a major collection has marked, and one it has reclaimed under
\* its root.
Values == Ages \cup {"marked", "dead"}

Header == [alloc_count : 0 .. POOL_ROOTS_CAPACITY,
           major_free_list : SUBSET Indices,
           minor_free_list : UNION {[1 .. n -> Indices] : n \in 0 .. POOL_ROOTS_CAPACITY},
           last_minor_free_slot : Indices \cup {NULL}]

TypeOK ==
  /\ status \in {"not_setup", "setup", "tore_down", "crashed"}
  /\ mapped \subseteq Pools
  /\ pools \in Seq(mapped) /\ full_pools \in Seq(mapped)
  /\ IsInjective(pools \o full_pools)
  /\ hd \in [Pools -> Header]
  /\ full \in [Slots -> Values \cup {"free"}]
  /\ remembered \subseteq Slots
  /\ gc \in {"none", "minor", "major"}
  /\ todo \subseteq {"remembered set", "scan"}

\* The header of a new pool, also that of an address without a pool.
Empty == [alloc_count |-> 0, major_free_list |-> Indices,
          minor_free_list |-> <<>>, last_minor_free_slot |-> NULL]

Init ==
  /\ status = "not_setup"
  /\ mapped = {} /\ pools = <<>> /\ full_pools = <<>>
  /\ hd = [q \in Pools |-> Empty]
  /\ full = [s \in Slots |-> "free"]
  /\ remembered = {} /\ gc = "none" /\ todo = {}

-----------------------------------------------------------------------------
(* Pools and rings.                                                        *)

is_full_pool(q) == hd[q].alloc_count = POOL_ROOTS_CAPACITY
is_empty_pool(q) == hd[q].alloc_count = 0

\* MUTANT: the count as it was before the deletion.
Mut_Threshold == POOL_ROOTS_CAPACITY
\* The count at which a pool that may have been full returns to `pools`.
Threshold == (POOL_ROOTS_CAPACITY * 3) \div 4

\* The full pools at the front of `pools`, which find_available_pool moves to
\* the back of `full_pools`.
FullPrefix == LET Full(q) == is_full_pool(q)
                  n == CHOOSE i \in 0 .. Len(pools) :
                         /\ \A j \in 1 .. i : Full(pools[j])
                         /\ i < Len(pools) => ~ Full(pools[i + 1])
              IN SubSeq(pools, 1, n)
Remaining == SubSeq(pools, Len(FullPrefix) + 1, Len(pools))

\* The ring `pools` once find_available_pool is done, with a new pool if all
\* were full.
Available(q) ==
  IF Remaining # <<>> THEN mapped' = mapped /\ pools' = Remaining /\ q = Head(Remaining)
  ELSE q \notin mapped /\ mapped' = mapped \cup {q} /\ pools' = <<q>>

-----------------------------------------------------------------------------
(* The interface.                                                          *)

rem_boxroot_setup ==
  /\ status = "not_setup" /\ gc = "none"
  /\ status' = "setup"
  /\ UNCHANGED <<mapped, pools, full_pools, hd, full, runtime>>

CanCall == status = "setup" /\ gc = "none"

\* A slot is taken from the front of the minor free list, or from the other.
PopMinor(p) == [p EXCEPT !.alloc_count = @ + 1, !.minor_free_list = Tail(@)]
PopMajor(p, i) == [p EXCEPT !.alloc_count = @ + 1, !.major_free_list = @ \ {i}]

\* alloc_slot for a young value: a slot of the minor free list is already
\* remembered, one of the major free list becomes so.
AllocYoung(q, i) ==
  IF hd[q].minor_free_list # <<>>
  THEN /\ i = Head(hd[q].minor_free_list)
       /\ hd' = [hd EXCEPT ![q] = PopMinor(@)]
       /\ UNCHANGED remembered
  ELSE /\ i \in hd[q].major_free_list
       /\ hd' = [hd EXCEPT ![q] = PopMajor(@, i)]
       /\ remembered' = remembered \cup {<<q, i>>}

\* For another value: a slot of the minor free list if there is nothing else.
AllocOld(q, i) ==
  /\ IF hd[q].major_free_list # {}
     THEN /\ i \in hd[q].major_free_list
          /\ hd' = [hd EXCEPT ![q] = PopMajor(@, i)]
     ELSE /\ i = Head(hd[q].minor_free_list)
          /\ hd' = [hd EXCEPT ![q] = PopMinor(@)]
  /\ UNCHANGED remembered

rem_boxroot_create(v) ==
  /\ CanCall
  /\ \E q \in Pools, i \in Indices :
       /\ Available(q)
       /\ IF v = "young" THEN AllocYoung(q, i) ELSE AllocOld(q, i)
       /\ full' = [full EXCEPT ![<<q, i>>] = v]
  /\ full_pools' = full_pools \o FullPrefix
  /\ UNCHANGED <<status, gc, todo>>

\* get_empty_pool fails; the full pools have been moved.
CreateNoMemory ==
  /\ CanCall /\ Remaining = <<>>
  /\ pools' = <<>>
  /\ full_pools' = full_pools \o FullPrefix
  /\ UNCHANGED <<status, mapped, hd, full, runtime>>

\* MUTANT: the last slot of the list is recorded the first time only.
Mut_Free(p, i, young) ==
  IF young
  THEN [p EXCEPT !.alloc_count = @ - 1,
                 !.minor_free_list = <<i>> \o @,
                 !.last_minor_free_slot = IF @ = NULL THEN i ELSE @]
  ELSE [p EXCEPT !.alloc_count = @ - 1, !.major_free_list = @ \cup {i}]

Free(p, i, young) ==
  IF young
  THEN [p EXCEPT !.alloc_count = @ - 1,
                 !.minor_free_list = <<i>> \o @,
                 !.last_minor_free_slot = IF p.minor_free_list = <<>> THEN i ELSE @]
  ELSE [p EXCEPT !.alloc_count = @ - 1, !.major_free_list = @ \cup {i}]

\* Whichever of the two rings the pool is on, it goes to the back of the first.
Requeue(ring, other, q) == <<Append(Without(ring, {q}), q), Without(other, {q})>>

rem_boxroot_delete(q, i) ==
  /\ CanCall /\ full[<<q, i>>] # "free"
  /\ hd' = [hd EXCEPT ![q] = Free(@, i, full[<<q, i>>] = "young")]
  /\ full' = [full EXCEPT ![<<q, i>>] = "free"]
  /\ IF hd'[q].alloc_count = Threshold
     THEN /\ pools' = Requeue(pools, full_pools, q)[1]
          /\ full_pools' = Requeue(pools, full_pools, q)[2]
     ELSE UNCHANGED <<pools, full_pools>>
  /\ UNCHANGED <<status, mapped, runtime>>

\* MUTANT: a slot whose value is replaced is taken to be remembered already.
Mut_rem_boxroot_modify(s, v) ==
  /\ CanCall /\ full[s] # "free"
  /\ full' = [full EXCEPT ![s] = v]
  /\ UNCHANGED <<status, mapped, pools, full_pools, hd, runtime>>

rem_boxroot_modify(s, v) ==
  /\ CanCall /\ full[s] # "free"
  /\ full' = [full EXCEPT ![s] = v]
  /\ remembered' = IF v = "young" /\ full[s] # "young" THEN remembered \cup {s}
                   ELSE remembered
  /\ UNCHANGED <<status, mapped, pools, full_pools, hd, gc, todo>>

\* free_all_pools, once OCaml has shut down.
rem_boxroot_teardown ==
  /\ CanCall
  /\ status' = "tore_down"
  /\ mapped' = mapped \ ToSet(pools)
  /\ pools' = <<>>
  /\ hd' = [q \in Pools |-> IF q \in mapped' THEN hd[q] ELSE Empty]
  /\ full' = [s \in Slots |-> IF s[1] \in mapped' THEN full[s] ELSE "free"]
  /\ UNCHANGED <<full_pools, runtime>>

-----------------------------------------------------------------------------
(* Collections.                                                            *)

\* A major collection scans the roots once young values have been promoted; the
\* library is torn down after the last collection.
StartGC(kind) ==
  /\ status \in {"not_setup", "setup"} /\ gc = "none"
  /\ kind = "major" => \A s \in Slots : full[s] # "young"
  /\ gc' = kind
  /\ todo' = IF kind = "minor" THEN {"remembered set", "scan"} ELSE {"scan"}
  /\ UNCHANGED <<status, mapped, pools, full_pools, hd, full, remembered>>

\* The runtime promotes what the remembered slots refer to, before or after it
\* calls the scanning hook.
TraverseRememberedSet ==
  /\ "remembered set" \in todo
  /\ full' = [s \in Slots |-> IF s \in remembered /\ full[s] = "young"
                              THEN "old" ELSE full[s]]
  /\ todo' = todo \ {"remembered set"}
  /\ UNCHANGED <<status, mapped, pools, full_pools, hd, remembered, gc>>

Rings == ToSet(pools) \cup ToSet(full_pools)

\* MUTANT: the splice is forgotten.
Mut_scan_pool_minor(p) == p

\* In a minor collection the minor free list, spliced through its last slot,
\* joins the major one.
scan_pool_minor(p) ==
  IF p.minor_free_list = <<>> THEN p
  ELSE LET i == CHOOSE i \in DOMAIN p.minor_free_list :
                  p.minor_free_list[i] = p.last_minor_free_slot
       IN [p EXCEPT !.major_free_list = @ \cup ToSet(SubSeq(p.minor_free_list, 1, i)),
                    !.minor_free_list = <<>>]

\* In a major collection the scan stops when it has met as many values as the
\* count tells.
Met(q, i) == Cardinality({j \in 1 .. i : full[<<q, j>>] # "free"})
scan_pool_major(q, i) ==
  IF full[<<q, i>>] = "old" /\ Met(q, i) <= hd[q].alloc_count THEN "marked"
  ELSE full[<<q, i>>]

\* All empty pools but the first.
Superfluous ==
  LET empty == {i \in DOMAIN pools : is_empty_pool(pools[i])}
  IN {pools[i] : i \in {j \in empty : \E k \in empty : k < j}}

\* free_empty_pools reads the first pool of the ring before it looks whether
\* there is one.
scan_roots ==
  LET scanned == [q \in Pools |-> IF gc = "minor" /\ q \in Rings
                                  THEN scan_pool_minor(hd[q]) ELSE hd[q]]
      freed == Superfluous
  IN /\ full' = [s \in Slots |->
                   IF s[1] \in freed THEN "free"
                   ELSE IF gc = "major" /\ s[1] \in Rings THEN scan_pool_major(s[1], s[2])
                   ELSE full[s]]
     /\ hd' = [q \in Pools |-> IF q \in freed THEN Empty ELSE scanned[q]]
     /\ mapped' = mapped \ freed
     /\ pools' = Without(pools, freed)
     /\ status' = IF pools = <<>> THEN "crashed" ELSE status

\* boxroot_used: a pool has been allocated.  It has not if no ring has one,
\* since the last pool of the rings is never freed.
scanning_callback ==
  /\ "scan" \in todo
  /\ todo' = todo \ {"scan"}
  /\ IF status = "setup" /\ Rings # {} THEN scan_roots
     ELSE UNCHANGED <<status, mapped, pools, hd, full>>
  /\ UNCHANGED <<full_pools, remembered, gc>>

\* What has not been reached is reclaimed; a minor collection clears the
\* remembered set.
EndGC ==
  /\ status # "crashed" /\ gc # "none" /\ todo = {}
  /\ full' = [s \in Slots |->
                CASE full[s] = "young" -> "dead"
                  [] full[s] = "old" /\ gc = "major" -> "dead"
                  [] full[s] = "marked" -> "old"
                  [] OTHER -> full[s]]
  /\ remembered' = IF gc = "minor" THEN {} ELSE remembered
  /\ gc' = "none"
  /\ UNCHANGED <<status, mapped, pools, full_pools, hd, todo>>

Next ==
  \/ rem_boxroot_setup
  \/ \E v \in Ages : rem_boxroot_create(v)
  \/ CreateNoMemory
  \/ \E q \in Pools, i \in Indices : rem_boxroot_delete(q, i)
  \/ \E s \in Slots, v \in Ages : rem_boxroot_modify(s, v)
  \/ rem_boxroot_teardown
  \/ \E kind \in {"minor", "major"} : StartGC(kind)
  \/ TraverseRememberedSet \/ scanning_callback \/ EndGC

Spec == Init /\ [][Next]_vars

-----------------------------------------------------------------------------
(* Properties.                                                             *)

\* The state is well typed (no pool is twice on the rings).
\* The two free lists of a pool and its roots share its slots, the count is
\* that of the roots, and the splice of a minor collection loses no slot: "the
\* minor free list is not empty => last_minor_free_slot" is its last slot.
FreeListsCorrect ==
  /\ TypeOK
  /\ \A q \in mapped :
    LET p == hd[q]
        minor == ToSet(p.minor_free_list)
        live == {i \in Indices : full[<<q, i>>] # "free"}
    IN /\ IsInjective(p.minor_free_list) /\ minor \cap p.major_free_list = {}
       /\ live = Indices \ (minor \cup p.major_free_list)
       /\ p.alloc_count = Cardinality(live)
       /\ p.minor_free_list # <<>> => p.last_minor_free_slot = Last(p.minor_free_list)

\* "The slot of minor-heap values must also belong to the remembered set", and
\* so must the slots that the minor free list gives without remembering them.
YoungIsRemembered ==
  /\ \A s \in Slots : full[s] = "young" => s \in remembered
  /\ gc # "none" \/ \A q \in mapped : \A i \in ToSet(hd[q].minor_free_list) :
                      <<q, i>> \in remembered

\* A collection leaves one empty pool at most, though it does not look for them
\* in the ring of full pools.
EmptyPoolsGoBack ==
  gc # "none" /\ "scan" \notin todo /\ status = "setup" =>
    Cardinality({q \in mapped : is_empty_pool(q)}) <= 1

\* The age of the value of a root, as the user knows it.
Seen(s) == IF status = "tore_down" THEN "free"
           ELSE IF full[s] = "marked" THEN "old" ELSE full[s]

Table == INSTANCE RootTable WITH
  Root <- Slots, table <- [s \in Slots |-> Seen(s)], phase <- gc

\* Without scanning young roots, the prototype is the same table of GC roots:
\* no value is lost, and a minor collection promotes every young root.
ImplementsRootTable == Table!TableSpec
=============================================================================
