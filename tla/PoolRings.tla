------------------------------ MODULE PoolRings ------------------------------
(***************************************************************************)
(* The rings of boxroot/boxroot.c as they are in memory: circular lists    *)
(* linked by `prev` and `next`, known by their heads.  Module Boxroot      *)
(* takes a ring for a set of pools; here are the order of the pools, the   *)
(* heads that must follow when a pool leaves, and the walks over a ring    *)
(* that is changed by the walk itself.                                     *)
(*                                                                         *)
(* Of the content of a pool there are only the two counts.  A walk takes   *)
(* one step per pool, and deletions without the lock of the domain come    *)
(* between the steps.                                                      *)
(***************************************************************************)
EXTENDS Rings

CONSTANTS
  Domains,
  MainDomain,        \* never runs the termination hook
  Orphan,            \* the owner of the orphan rings
  Pools,             \* addresses the aligned allocator may return
  PoolSize,          \* BXR_POOL_SIZE, in bytes
  HeaderSize,        \* sizeof(pool), in bytes
  SlotSize,          \* sizeof(bxr_slot), in bytes
  AssertionsAssumed  \* the compiler takes the assertions for facts: what
                     \* DEBUGassert asks of GCC unless BOXROOT_DEBUG is set

POOL_CAPACITY == (PoolSize - HeaderSize) \div SlotSize
BXR_DEALLOC_THRESHOLD == PoolSize \div 2

ASSUME DomainAssumption == MainDomain \in Domains /\ Orphan \notin Domains
ASSUME PoolAssumption == NULL \notin Pools /\ IsFiniteSet(Pools)
ASSUME SizeAssumption ==
  /\ PoolSize \in Nat /\ HeaderSize \in Nat /\ SlotSize \in Nat
  /\ SlotSize > 0 /\ POOL_CAPACITY >= 1 /\ BXR_DEALLOC_THRESHOLD > 0
ASSUME BuildAssumption == AssertionsAssumed \in BOOLEAN

VARIABLES
  mem,       \* the pools and the heads of the rings
  running,   \* the domains that are running
  gc,        \* the collection under way
  at,        \* where each domain is
  p,         \* the local variable `p` of the walk of each domain
  left       \* history: the pools the walk of each domain has yet to meet

vars == <<mem, running, gc, at, p, left>>

Kinds == {"old", "young", "current", "free"}

\* What a pool ** may point to: the head of a ring, or a local variable.
Rings == (Domains \X Kinds) \cup {<<Orphan, "old">>, <<Orphan, "young">>}
Locals == Domains \X {"p"}

Memory ==
  [head : [Rings \cup Locals -> Pools \cup {NULL}],
   next : [Pools -> Pools], prev : [Pools -> Pools],
   alloc_count : [Pools -> 0 .. POOL_CAPACITY + 1],
   delayed_count : [Pools -> -POOL_CAPACITY .. 0],
   class : [Pools -> {"YOUNG", "OLD", "UNTRACKED"}],
   domain_id : [Pools -> Domains \cup {NULL}],
   mapped : SUBSET Pools]

TypeOK ==
  /\ mem \in Memory
  /\ running \subseteq Domains
  /\ gc \in {"none", "minor", "major"}
  /\ at \in [Domains -> {"idle", "walk", "find", "enter", "young", "old",
                         "adopt", "finish", "orphan", "done", "crashed"}]
  /\ p \in [Domains -> Pools \cup {NULL}]
  /\ left \in [Domains -> SUBSET Pools]

Init ==
  /\ mem = [head |-> [l \in Rings \cup Locals |-> NULL],
            next |-> [q \in Pools |-> q], prev |-> [q \in Pools |-> q],
            alloc_count |-> [q \in Pools |-> 0],
            delayed_count |-> [q \in Pools |-> 0],
            class |-> [q \in Pools |-> "UNTRACKED"],
            domain_id |-> [q \in Pools |-> NULL],
            mapped |-> {}]
  /\ running = {MainDomain}
  /\ gc = "none"
  /\ at = [d \in Domains |-> "idle"]
  /\ p = [d \in Domains |-> NULL]
  /\ left = [d \in Domains |-> {}]

-----------------------------------------------------------------------------
(* Operations on rings.                                                    *)

\* The assertion source->prev == source lets the compiler read either for the
\* other.
PushBackOutcomes(m, source, l) ==
  IF AssertionsAssumed /\ source # NULL
  THEN {Splice(m, s, last, l) : s, last \in {source, m.prev[source]}}
  ELSE {ring_push_back(m, source, l)}

-----------------------------------------------------------------------------
(* Operations on one pool.                                                 *)

IsCurrent(m, q) == \E d \in Domains : m.head[<<d, "current">>] = q
Bias(m, q) == IF IsCurrent(m, q) THEN 1 ELSE 0

is_full_pool(m, q) == m.alloc_count[q] - Bias(m, q) = POOL_CAPACITY
is_not_too_full(m, q) == m.alloc_count[q] <= BXR_DEALLOC_THRESHOLD \div SlotSize
anticipated_alloc_count(m, q) == m.alloc_count[q] + m.delayed_count[q]

\* The roots in a pool.
Live(m, q) == anticipated_alloc_count(m, q) - Bias(m, q)

\* Move the pool at *l to the back of its ring, or to the front if it is not
\* too full.
reclassify_pool(m, l, d, cl) ==
  LET q == m.head[l]
      target == <<d, CASE cl = "OLD" -> "old" [] cl = "YOUNG" -> "young"
                       [] cl = "UNTRACKED" -> "free">>
      n == [ring_pop(m, l) EXCEPT !.domain_id[q] = d, !.class[q] = cl]
      o == Splice(n, q, q, target)
  IN IF is_not_too_full(o, q) THEN [o EXCEPT !.head[target] = q] ELSE o

\* The same through the address of a local variable that holds q.
WithLocal(m, d, q) == [m EXCEPT !.head[<<d, "p">>] = q]
Forget(m, d) == [m EXCEPT !.head[<<d, "p">>] = NULL]

move_current_to_young(m, d) ==
  LET q == m.head[<<d, "current">>]
      n == Forget(ring_pop(m, <<d, "current">>), d)
  IN IF q = NULL THEN m
     ELSE Forget(reclassify_pool(
                   WithLocal([n EXCEPT !.alloc_count[q] = @ - 1], d, q),
                   <<d, "p">>, d, "YOUNG"), d)

set_current_pool(m, d, q) ==
  [m EXCEPT !.domain_id[q] = d, !.head[<<d, "current">>] = q,
            !.class[q] = "YOUNG", !.alloc_count[q] = @ + 1]

\* MUTANT: the head of the ring does not follow.
Mut_try_demote_pool(m, d, q) ==
  IF q = m.head[<<d, "current">>] \/ ~ is_not_too_full(m, q) THEN m
  ELSE Forget(reclassify_pool(WithLocal(m, d, q), <<d, "p">>, d,
                IF m.alloc_count[q] = 0 THEN "UNTRACKED" ELSE m.class[q]), d)

try_demote_pool(m, d, q) ==
  LET cl == IF m.alloc_count[q] = 0 THEN "UNTRACKED" ELSE m.class[q]
      source == IF q = m.head[<<d, "old">>] THEN <<d, "old">>
                ELSE IF q = m.head[<<d, "young">>] THEN <<d, "young">>
                ELSE <<d, "p">>
  IN IF q = m.head[<<d, "current">>] \/ ~ is_not_too_full(m, q) THEN m
     ELSE Forget(reclassify_pool(WithLocal(m, d, q), source, d, cl), d)

gc_pool(m, q) ==
  [m EXCEPT !.alloc_count[q] = anticipated_alloc_count(m, q),
            !.delayed_count[q] = 0]

try_gc_and_reclassify_pool(m, l, d) ==
  LET q == m.head[l]  n == gc_pool(m, q)
  IN IF m.delayed_count[q] = 0 THEN m
     ELSE IF n.alloc_count[q] = 0 THEN reclassify_pool(n, l, d, "UNTRACKED")
     ELSE IF is_not_too_full(n, q) THEN reclassify_pool(n, l, d, n.class[q])
     ELSE n

\* MUTANT: it is always the head of the ring that moves.
Mut_GcOne(m, l, q, d) ==
  LET n == gc_pool(m, q)
  IN IF m.delayed_count[q] = 0 THEN m
     ELSE IF n.alloc_count[q] = 0 THEN reclassify_pool(n, l, d, "UNTRACKED")
     ELSE IF is_not_too_full(n, q) THEN reclassify_pool(n, l, d, n.class[q])
     ELSE n

\* The pool `q` of ring `l`, through the head of the ring if it is the head.
GcOne(m, l, q, d) ==
  IF q = m.head[l] THEN try_gc_and_reclassify_pool(m, l, d)
  ELSE Forget(try_gc_and_reclassify_pool(WithLocal(m, d, q), <<d, "p">>, d), d)

\* The last pool first.
reclassify_ring(m, l, d, cl) ==
  Drain(m, l, LAMBDA n :
    reclassify_pool([n EXCEPT !.head[l] = n.prev[n.head[l]]], l, d, cl))

\* bxr_free_pool: nothing is left of the pool.
Unmap(m, q) ==
  [m EXCEPT !.mapped = @ \ {q}, !.alloc_count[q] = 0, !.delayed_count[q] = 0,
            !.class[q] = "UNTRACKED", !.domain_id[q] = NULL]
free_pool_ring(m, l) == Drain(m, l, LAMBDA n : Unmap(ring_pop(n, l), n.head[l]))

\* MUTANT: the rings are appended as they are, as in orphan_pools.
Mut_adopt_orphaned_pools(m, d) ==
  LET Append(n, k) ==
        IF n.head[<<Orphan, k>>] = NULL THEN n
        ELSE [Splice(n, n.head[<<Orphan, k>>], n.prev[n.head[<<Orphan, k>>]], <<d, k>>)
               EXCEPT !.head[<<Orphan, k>>] = NULL]
  IN Append(Append(m, "old"), "young")

adopt_orphaned_pools(m, d) ==
  reclassify_ring(reclassify_ring(m, <<Orphan, "old">>, d, "OLD"),
                  <<Orphan, "young">>, d, "YOUNG")

init_pool_rings(m, d) ==
  [m EXCEPT !.head = [l \in DOMAIN m.head |->
                        IF l \in {d} \X Kinds THEN NULL ELSE m.head[l]]]

-----------------------------------------------------------------------------
(* Creation and deletion.                                                  *)

Goto(d, l) == at' = [at EXCEPT ![d] = l]
CanCall(d) == d \in running /\ gc = "none" /\ at[d] = "idle"
Current(d) == mem.head[<<d, "current">>]

\* A walk over the ring at *l, as it is when the walk starts.
StartWalk(d, l) ==
  /\ p' = [p EXCEPT ![d] = mem'.head[l]]
  /\ left' = [left EXCEPT ![d] = Ring(mem', l)]
StopWalk(d) ==
  /\ p' = [p EXCEPT ![d] = NULL]
  /\ left' = [left EXCEPT ![d] = {}]
Move(d, q) ==
  /\ p' = [p EXCEPT ![d] = q]
  /\ left' = [left EXCEPT ![d] = @ \ {p[d]}]

boxroot_create(d) ==
  /\ CanCall(d) /\ Current(d) # NULL /\ ~ is_full_pool(mem, Current(d))
  /\ mem' = [mem EXCEPT !.alloc_count[Current(d)] = @ + 1]
  /\ UNCHANGED <<running, gc, at, p, left>>

\* bxr_create_slow, up to the walk over the young pools.
bxr_create_slow(d) ==
  /\ CanCall(d)
  /\ IF Current(d) = NULL
     THEN Goto(d, "find") /\ UNCHANGED <<mem, p, left>>
     ELSE /\ is_full_pool(mem, Current(d))
          /\ mem' = move_current_to_young(mem, d)
          /\ StartWalk(d, <<d, "young">>)
          /\ Goto(d, "walk")
  /\ UNCHANGED <<running, gc>>

\* MUTANT: the walk looks for an empty pool until it has found one.
Mut_try_gc_and_reclassify_one_pool_no_stw(d) ==
  LET found == anticipated_alloc_count(mem, p[d]) = 0
  IN /\ at[d] = "walk"
     /\ mem' = IF found THEN GcOne(mem, <<d, "young">>, p[d], d) ELSE mem
     /\ IF found THEN StopWalk(d) ELSE Move(d, mem.next[p[d]])
     /\ IF found THEN Goto(d, "find") ELSE UNCHANGED at
     /\ UNCHANGED <<running, gc>>

try_gc_and_reclassify_one_pool_no_stw(d) ==
  LET young == <<d, "young">>
      found == anticipated_alloc_count(mem, p[d]) = 0
      finished == found \/ mem.next[p[d]] = mem.head[young]
  IN /\ at[d] = "walk"
     /\ mem' = IF found THEN GcOne(mem, young, p[d], d) ELSE mem
     /\ IF found THEN StopWalk(d)
        ELSE Move(d, IF finished THEN NULL ELSE mem.next[p[d]])
     /\ IF finished THEN Goto(d, "find") ELSE UNCHANGED at
     /\ UNCHANGED <<running, gc>>

HasRoom(l) == mem.head[l] # NULL /\ ~ is_full_pool(mem, mem.head[l])
OldHasRoom(d) == /\ HasRoom(<<d, "old">>)
                 /\ is_not_too_full(mem, mem.head[<<d, "old">>])

\* The pool that becomes current is popped from a ring, then allocated from.
Pop(d, l) ==
  LET q == mem.head[l]  n == set_current_pool(ring_pop(mem, l), d, q)
  IN mem' = [n EXCEPT !.alloc_count[q] = @ + 1]

\* get_empty_pool
Fresh(d) ==
  \E q \in Pools \ mem.mapped :
    mem' = [set_current_pool(mem, d, q) EXCEPT !.mapped = @ \cup {q},
                                               !.alloc_count[q] = 2]

find_and_set_available_pool(d) ==
  /\ at[d] = "find"
  /\ IF HasRoom(<<d, "young">>) THEN Pop(d, <<d, "young">>)
     ELSE IF OldHasRoom(d) THEN Pop(d, <<d, "old">>)
     ELSE IF HasRoom(<<d, "free">>) THEN Pop(d, <<d, "free">>)
     ELSE Fresh(d)
  /\ Goto(d, "idle")
  /\ UNCHANGED <<running, gc, p, left>>

\* The system has no memory left. The assertion that the pool is not full,
\* which reads the pool, comes before the test for NULL.
NoMemory(d) ==
  /\ at[d] = "find"
  /\ ~ HasRoom(<<d, "young">>) /\ ~ OldHasRoom(d) /\ ~ HasRoom(<<d, "free">>)
  /\ Goto(d, IF AssertionsAssumed THEN "crashed" ELSE "idle")
  /\ UNCHANGED <<mem, running, gc, p, left>>

boxroot_delete(d, q) ==
  /\ CanCall(d) /\ q \in mem.mapped /\ Live(mem, q) > 0 /\ mem.domain_id[q] = d
  /\ LET n == [mem EXCEPT !.alloc_count[q] = @ - 1]
     IN mem' = IF n.alloc_count[q] % BXR_DEALLOC_THRESHOLD = 0
               THEN try_demote_pool(n, d, q) ELSE n
  /\ UNCHANGED <<running, gc, at, p, left>>

\* With the lock of another domain, or none.
DeleteRemote(q) ==
  /\ q \in mem.mapped /\ Live(mem, q) > 0
  /\ mem' = [mem EXCEPT !.delayed_count[q] = @ - 1]
  /\ UNCHANGED <<running, gc, at, p, left>>

-----------------------------------------------------------------------------
(* Collections and termination.                                            *)

StartGC(kind) ==
  /\ gc = "none" /\ \A d \in running : at[d] = "idle"
  /\ gc' = kind
  /\ at' = [d \in Domains |-> IF d \in running THEN "enter" ELSE at[d]]
  /\ UNCHANGED <<mem, running, p, left>>

\* move_current_to_young, then gc_pool_rings.
Flush(d) ==
  /\ mem' = move_current_to_young(mem, d)
  /\ Goto(d, "young")
  /\ UNCHANGED <<running, gc, p, left>>

scan_roots(d) == at[d] = "enter" /\ Flush(d)

\* domain_termination_callback
Terminate(d) == CanCall(d) /\ d # MainDomain /\ Flush(d)

AfterRing(d, k) ==
  IF k = "young" THEN "old" ELSE IF gc = "none" THEN "orphan" ELSE "adopt"

gc_ring(d, k) ==
  /\ at[d] = k /\ p[d] = NULL
  /\ UNCHANGED <<mem, running, gc>>
  /\ StartWalk(d, <<d, k>>)
  /\ IF mem.head[<<d, k>>] = NULL THEN Goto(d, AfterRing(d, k)) ELSE UNCHANGED at

\* MUTANT: the walk ends when it meets the head, even a head that is new.
Mut_GcRingStep(d, k) ==
  LET q == p[d]
      next == mem.next[q]
      n == GcOne(mem, <<d, k>>, q, d)
      finished == next = n.head[<<d, k>>] \/ next = q
  IN /\ at[d] = k /\ q # NULL
     /\ mem' = n
     /\ Move(d, IF finished THEN NULL ELSE next)
     /\ IF finished THEN Goto(d, AfterRing(d, k)) ELSE UNCHANGED at
     /\ UNCHANGED <<running, gc>>

\* One iteration of the first loop of gc_ring, while p is the head of the ring,
\* or of the second one.
GcRingStep(d, k) ==
  LET q == p[d]
      next == mem.next[q]
      n == GcOne(mem, <<d, k>>, q, d)
      finished == IF q = mem.head[<<d, k>>] THEN next = q
                  ELSE next = n.head[<<d, k>>]
  IN /\ at[d] = k /\ q # NULL
     /\ mem' = n
     /\ Move(d, IF finished THEN NULL ELSE next)
     /\ IF finished THEN Goto(d, AfterRing(d, k)) ELSE UNCHANGED at
     /\ UNCHANGED <<running, gc>>

Adopt(d) ==
  /\ at[d] = "adopt"
  /\ mem' = adopt_orphaned_pools(mem, d)
  /\ Goto(d, "finish")
  /\ UNCHANGED <<running, gc, p, left>>

\* promote_young_pools, or the free ring goes back to the system.
Finish(d) ==
  /\ at[d] = "finish"
  /\ mem' = IF gc = "minor" THEN reclassify_ring(mem, <<d, "young">>, d, "OLD")
            ELSE free_pool_ring(mem, <<d, "free">>)
  /\ Goto(d, "done")
  /\ UNCHANGED <<running, gc, p, left>>

EndGC ==
  /\ gc # "none" /\ \A d \in running : at[d] = "done"
  /\ gc' = "none"
  /\ at' = [d \in Domains |-> "idle"]
  /\ UNCHANGED <<mem, running, p, left>>

\* MUTANT: the young pools are left to the next domain with this id.
Mut_orphan_pools(d) ==
  /\ at[d] = "orphan"
  /\ \E m \in PushBackOutcomes(mem, mem.head[<<d, "old">>], <<Orphan, "old">>) :
       mem' = free_pool_ring([m EXCEPT !.head[<<d, "old">>] = NULL], <<d, "free">>)
  /\ running' = running \ {d}
  /\ Goto(d, "idle")
  /\ UNCHANGED <<gc, p, left>>

\* The rest of orphan_pools.
orphan_pools(d) ==
  /\ at[d] = "orphan"
  /\ \E m \in PushBackOutcomes(mem, mem.head[<<d, "old">>], <<Orphan, "old">>) :
       \E n \in PushBackOutcomes(m, m.head[<<d, "young">>], <<Orphan, "young">>) :
         mem' = init_pool_rings(free_pool_ring(n, <<d, "free">>), d)
  /\ running' = running \ {d}
  /\ Goto(d, "idle")
  /\ UNCHANGED <<gc, p, left>>

\* A new domain takes a free id, once the orphans of the former are adopted.
Spawn(d) ==
  /\ d \notin running /\ gc = "none"
  /\ \A q \in Pools : mem.domain_id[q] # d
  /\ running' = running \cup {d}
  /\ UNCHANGED <<mem, gc, at, p, left>>

FunctionStep(d) ==
  \/ try_gc_and_reclassify_one_pool_no_stw(d)
  \/ find_and_set_available_pool(d)
  \/ scan_roots(d)
  \/ \E k \in {"young", "old"} : gc_ring(d, k) \/ GcRingStep(d, k)
  \/ Adopt(d) \/ Finish(d) \/ orphan_pools(d)

Next ==
  \/ \E d \in Domains :
       \/ boxroot_create(d) \/ bxr_create_slow(d) \/ NoMemory(d)
       \/ \E q \in Pools : boxroot_delete(d, q)
       \/ FunctionStep(d) \/ Terminate(d) \/ Spawn(d)
  \/ \E q \in Pools : DeleteRemote(q)
  \/ \E kind \in {"minor", "major"} : StartGC(kind)
  \/ EndGC

Spec == Init /\ [][Next]_vars

-----------------------------------------------------------------------------
(* Properties.                                                             *)

\* The state is well typed, and the mapped pools are on circular lists, in both
\* directions, each on one of them and on one only.
RingsAreDisjointCycles == TypeOK /\ DisjointCycles(mem, Rings, mem.mapped)

\* "Kept in sync with its location in the pool rings" (boxroot.h), of the class
\* of a pool and of its domain, which boxroot_delete and boxroot_modify rely
\* on; and the current ring has one pool at most.
KeptInSync ==
  /\ \A l \in Rings : \A q \in Ring(mem, l) :
       /\ mem.class[q] = CASE l[2] = "old" -> "OLD"
                           [] l[2] = "free" -> "UNTRACKED"
                           [] OTHER -> "YOUNG"
       /\ l[1] # Orphan => mem.domain_id[q] = l[1]
  /\ \A d \in Domains : Cardinality(Ring(mem, <<d, "current">>)) <= 1

\* The scan follows `next` from the heads of the rings of running domains,
\* those of orphans once adopted: every pool with a root is on the way.
EveryRootIsOnAScannedRing ==
  \A q \in Pools : Live(mem, q) > 0 =>
    \E l \in (running \cup {Orphan}) \X {"young", "old", "current"} :
      l \in Rings /\ q \in Ring(mem, l)

\* A walk ends only once it has met every pool that was on its ring when it
\* started, though it moves the pools it meets, the head of the ring among them:
\* no delayed free list is left out of a flush.
EveryPoolIsMet == \A d \in Domains : p[d] = NULL => left[d] = {}

\* A walk comes closer to the head of its ring, where it ends, whenever it does
\* not flush the pool it meets. It may start over after a flush, when the pool
\* has become the head; but a flush takes a deletion, and a domain creates
\* nothing while it walks: the walks of boxroot_create, of collections and of
\* domain termination end, whatever is deleted meanwhile.
WalksAdvance ==
  [][\A d \in Domains :
       LET l == <<d, IF at[d] = "walk" THEN "young" ELSE at[d]>>
       IN p[d] # NULL /\ p'[d] \notin {NULL, p[d]}
            => \/ mem'.delayed_count[p[d]] # mem.delayed_count[p[d]]
               \/ StepsTo(mem', p'[d], mem'.head[l]) < StepsTo(mem, p[d], mem.head[l])]_vars

\* "We never move pools that did not need to be GCd" (boxroot.c): a step of the
\* walk leaves the others in their order.
NextWithout(m, q, r) == IF m.next[q] = r THEN m.next[r] ELSE m.next[q]
OnlyFlushedPoolsMove ==
  [][\A d \in Domains, k \in {"young", "old"} :
       at[d] = k /\ p[d] # NULL /\ p'[d] # p[d] =>
         \A q \in Ring(mem, <<d, k>>) \ {p[d]} :
           NextWithout(mem', q, p[d]) = NextWithout(mem, q, p[d])]_vars
=============================================================================
