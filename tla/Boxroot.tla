------------------------------- MODULE Boxroot -------------------------------
(***************************************************************************)
(* The reference implementation, boxroot/boxroot.c and boxroot/boxroot.h:  *)
(* a pool allocator for GC roots, seen at the level of one pool operation  *)
(* per step.                                                               *)
(*                                                                         *)
(* A pool is in at most one ring, and its ring is recorded as a function   *)
(* of the pool.  The fields `class` and `domain_id` of the code are "kept  *)
(* in sync" with that ring: the class is derived from it and domain_id     *)
(* names the domain whose rings hold the pool.  The order of the pools in  *)
(* a ring is left open: wherever the code looks at the head of a ring, any *)
(* pool of that ring may be the head.                                      *)
(*                                                                         *)
(* A free list is the set of its cells.  The lock-free protocol by which   *)
(* cells are pushed on a delayed free list is one step here and is         *)
(* detailed in module DelayedFreeList.                                     *)
(*                                                                         *)
(* What the OCaml runtime does (spawning and terminating domains, starting *)
(* and ending collections) is the environment.  A cell holds the age of    *)
(* the block its value points to, and every root is taken to hold a block  *)
(* that nothing else keeps alive.                                          *)
(***************************************************************************)
EXTENDS Integers, FiniteSets

CONSTANTS
  Domains,          \* domain ids, 0 .. Num_domains - 1 in the code
  MainDomain,       \* the initial domain, which never runs the termination hook
  NoDomain,         \* the id -1 of bxr_cached_dom_id and of a fresh pool
  Pools,            \* addresses the aligned allocator may return
  PoolSize,         \* BXR_POOL_SIZE, in bytes
  HeaderSize,       \* sizeof(pool), in bytes
  SlotSize,         \* sizeof(bxr_slot), in bytes
  NoRoot,           \* the NULL boxroot
  MainCreatesFirst, \* environment: the initial domain has created a boxroot
                    \* before another domain terminates
  EarlyIdReuse      \* environment: a domain id may be reused while pools of
                    \* its former domain are still orphaned

POOL_CAPACITY == (PoolSize - HeaderSize) \div SlotSize
BXR_DEALLOC_THRESHOLD == PoolSize \div 2

ASSUME DomainAssumption ==
  /\ MainDomain \in Domains
  /\ NoDomain \notin Domains

ASSUME SizeAssumption ==
  /\ PoolSize \in Nat /\ HeaderSize \in Nat /\ SlotSize \in Nat
  /\ SlotSize > 0 /\ POOL_CAPACITY \in Nat /\ POOL_CAPACITY >= 1
  /\ BXR_DEALLOC_THRESHOLD \in Nat /\ BXR_DEALLOC_THRESHOLD > 0

Slots == 1 .. POOL_CAPACITY
Roots == Pools \X Slots

ASSUME RootAssumption == NoRoot \notin Roots

ASSUME EnvironmentAssumption ==
  /\ MainCreatesFirst \in BOOLEAN
  /\ EarlyIdReuse \in BOOLEAN

VARIABLES
  status,    \* setup state of the library
  running,   \* the domains that are running
  cached,    \* bxr_cached_dom_id of the thread that holds each domain lock
  warm,      \* the domains one of whose threads has cached its id
  inited,    \* the ids d for which pools[d] # NULL
  pool,      \* the pools, by address
  pending,   \* the boxroot each domain has yet to delete in a modify
  gc,        \* the kind of stop-the-world section under way
  pc         \* how far each domain is in its scanning callback

vars == <<status, running, cached, warm, inited, pool, pending, gc, pc>>

RingNames == {"unmapped", "current", "young", "old", "free",
              "orphan_young", "orphan_old"}
YoungRings == {"current", "young", "orphan_young"}
OldRings == {"old", "orphan_old"}
Orphaned == {"orphan_young", "orphan_old"}

\* "young", "old": a live root to a block of that age; "marked": an old block
\* reached by the major collection under way; "dead": the block was reclaimed
\* although the root is live; "free": the cell belongs to its pool.
Contents == {"free", "young", "old", "marked", "dead"}

PoolType ==
  [ring : RingNames, domain_id : Domains \cup {NoDomain},
   alloc_count : Int, free_list : SUBSET Slots,
   delayed_fl : SUBSET Slots, delayed_count : Int,
   cells : [Slots -> Contents]]

TypeOK ==
  /\ status \in {"NOT_SETUP", "RUNNING", "TORE_DOWN"}
  /\ running \subseteq Domains
  /\ cached \in [Domains -> Domains \cup {NoDomain}]
  /\ warm \subseteq Domains
  /\ inited \subseteq Domains
  /\ pool \in [Pools -> PoolType]
  /\ pending \in [Domains -> Roots \cup {NoRoot}]
  /\ gc \in {"none", "minor", "major"}
  /\ pc \in [Domains -> {"out", "enter", "scan", "finish", "done"}]

-----------------------------------------------------------------------------
(* Reading a pool.                                                         *)

\* The cells of a pool owned by the user.
Live(P) == {s \in Slots : P.cells[s] # "free"}

Class(P) ==
  IF P.ring \in YoungRings THEN "YOUNG"
  ELSE IF P.ring \in OldRings THEN "OLD" ELSE "UNTRACKED"

is_full_pool(P) == P.free_list = {}
is_not_too_full(P) == P.alloc_count <= BXR_DEALLOC_THRESHOLD \div SlotSize
anticipated_alloc_count(P) == P.alloc_count + P.delayed_count

\* In(PL, d, R): the pools of PL in the rings R of domain d.
In(PL, d, R) == {p \in Pools : PL[p].ring \in R /\ PL[p].domain_id = d}

-----------------------------------------------------------------------------
(* Operations on one pool: each takes the fields of a pool to its fields   *)
(* after the operation.                                                    *)

\* MUTANT: the free list of a fresh pool runs one cell past its end.
Mut_get_empty_pool ==
  [ring |-> "unmapped", domain_id |-> NoDomain, alloc_count |-> 0,
   free_list |-> 1 .. POOL_CAPACITY + 1, delayed_fl |-> {},
   delayed_count |-> 0, cells |-> [s \in Slots |-> "free"]]

get_empty_pool ==
  [ring |-> "unmapped", domain_id |-> NoDomain, alloc_count |-> 0,
   free_list |-> Slots, delayed_fl |-> {}, delayed_count |-> 0,
   cells |-> [s \in Slots |-> "free"]]

\* The memory goes back to the system; whatever roots it held are lost.
bxr_free_pool(P) == [get_empty_pool EXCEPT !.cells = P.cells]

\* The fast path of boxroot_create.
allocate(P, s, v) ==
  [P EXCEPT !.free_list = @ \ {s}, !.alloc_count = @ + 1,
            !.cells = [P.cells EXCEPT ![s] = v]]

bxr_free_slot(P, s) ==
  [P EXCEPT !.free_list = @ \cup {s}, !.alloc_count = @ - 1,
            !.cells = [P.cells EXCEPT ![s] = "free"]]

\* MUTANT: the remote deallocation forgets to count.
Mut_free_slot_atomic(P, s) ==
  [P EXCEPT !.delayed_fl = @ \cup {s}, !.cells = [P.cells EXCEPT ![s] = "free"]]

free_slot_atomic(P, s) ==
  [P EXCEPT !.delayed_fl = @ \cup {s}, !.delayed_count = @ - 1,
            !.cells = [P.cells EXCEPT ![s] = "free"]]

\* The assignment of boxroot_modify.
set_slot(P, s, v) == [P EXCEPT !.cells = [P.cells EXCEPT ![s] = v]]

\* Flush the delayed free list.
gc_pool(P) ==
  IF P.delayed_count = 0 THEN P
  ELSE [P EXCEPT !.free_list = @ \cup P.delayed_fl, !.delayed_fl = {},
                 !.alloc_count = @ + P.delayed_count, !.delayed_count = 0]

reclassify_pool(P, d, cl) ==
  [P EXCEPT !.domain_id = d,
            !.ring = CASE cl = "YOUNG" -> "young"
                       [] cl = "OLD" -> "old"
                       [] cl = "UNTRACKED" -> "free"]

\* The test for a slow local deletion: alloc_count is a multiple of the
\* threshold, a power of two.
AtThreshold(P) == P.alloc_count % BXR_DEALLOC_THRESHOLD = 0

try_demote_pool(P) ==
  IF P.ring = "current" \/ ~ is_not_too_full(P) THEN P
  ELSE reclassify_pool(P, P.domain_id,
         IF P.alloc_count = 0 THEN "UNTRACKED" ELSE Class(P))

\* MUTANT: a pool that is merely not too full is taken for an empty one.
Mut_try_gc_and_reclassify_pool(P, d) ==
  LET Q == gc_pool(P)
  IN IF P.delayed_count # 0 /\ is_not_too_full(Q)
     THEN reclassify_pool(Q, d, "UNTRACKED") ELSE Q

try_gc_and_reclassify_pool(P, d) ==
  LET Q == gc_pool(P)
  IN IF P.delayed_count # 0 /\ Q.alloc_count = 0
     THEN reclassify_pool(Q, d, "UNTRACKED") ELSE Q

\* The increment keeps the current pool away from the deallocation threshold.
set_current_pool(P, d) ==
  [P EXCEPT !.ring = "current", !.domain_id = d, !.alloc_count = @ + 1]

\* MUTANT: the current pool is retired to the old ring.
Mut_move_current_to_young(P, d) ==
  IF P.ring = "current" /\ P.domain_id = d
  THEN reclassify_pool([P EXCEPT !.alloc_count = @ - 1], d, "OLD") ELSE P

move_current_to_young(P, d) ==
  IF P.ring = "current" /\ P.domain_id = d
  THEN reclassify_pool([P EXCEPT !.alloc_count = @ - 1], d, "YOUNG") ELSE P

\* MUTANT: the delayed free lists of the old pools are not flushed.
Mut_gc_pool_rings(P, d) ==
  IF P.ring = "young" /\ P.domain_id = d
  THEN try_gc_and_reclassify_pool(P, d) ELSE P

gc_pool_rings(P, d) ==
  IF P.ring \in {"young", "old"} /\ P.domain_id = d
  THEN try_gc_and_reclassify_pool(P, d) ELSE P

\* MUTANT: only the old orphans are adopted.
Mut_adopt_orphaned_pools(P, d) ==
  IF P.ring = "orphan_old" THEN reclassify_pool(P, d, Class(P)) ELSE P

adopt_orphaned_pools(P, d) ==
  IF P.ring \in Orphaned THEN reclassify_pool(P, d, Class(P)) ELSE P

\* MUTANT: a terminating domain leaves its old pools behind.
Mut_orphan_pools(P, d) ==
  LET Q == gc_pool_rings(move_current_to_young(P, d), d)
  IN IF Q.domain_id # d \/ Q.ring \in Orphaned \cup {"old"} THEN Q
     ELSE CASE Q.ring = "young" -> [Q EXCEPT !.ring = "orphan_young"]
            [] OTHER -> bxr_free_pool(Q)

orphan_pools(P, d) ==
  LET Q == gc_pool_rings(move_current_to_young(P, d), d)
  IN IF Q.domain_id # d \/ Q.ring \in Orphaned THEN Q
     ELSE CASE Q.ring = "young" -> [Q EXCEPT !.ring = "orphan_young"]
            [] Q.ring = "old" -> [Q EXCEPT !.ring = "orphan_old"]
            [] OTHER -> bxr_free_pool(Q)

\* MUTANT: the scan of the young cells stops one cell short.
Mut_scan_pool_young(P) ==
  [P EXCEPT !.cells =
     [s \in Slots |-> IF P.cells[s] = "young" /\ s # POOL_CAPACITY
                      THEN "old" ELSE P.cells[s]]]

\* scan_pool_young: every cell that holds a young value is updated when the
\* block is promoted.
scan_pool_young(P) ==
  [P EXCEPT !.cells =
     [s \in Slots |-> IF P.cells[s] = "young" THEN "old" ELSE P.cells[s]]]

\* scan_pool_gen stops once it has met as many allocated cells as
\* anticipated_alloc_count says there are.
Met(P) == {s \in Live(P) : Cardinality({t \in Live(P) : t < s})
                             < anticipated_alloc_count(P)}
scan_pool_gen(P) ==
  [P EXCEPT !.cells =
     [s \in Slots |-> IF P.cells[s] = "old" /\ s \in Met(P)
                      THEN "marked" ELSE P.cells[s]]]

-----------------------------------------------------------------------------
Init ==
  /\ status = "NOT_SETUP"
  /\ running = {MainDomain}
  /\ cached = [d \in Domains |-> NoDomain]
  /\ warm = {}
  /\ inited = {}
  /\ pool = [p \in Pools |-> get_empty_pool]
  /\ pending = [d \in Domains |-> NoRoot]
  /\ gc = "none"
  /\ pc = [d \in Domains |-> "out"]

\* A thread of d holds its domain lock and runs outside of stop-the-world
\* sections; it is not inside boxroot_modify.
CanCall(d) == d \in running /\ gc = "none" /\ pending[d] = NoRoot

\* The user may hand a root to the API: it is live and no modify under way is
\* replacing it.
Owned(r) == /\ r[2] \in Live(pool[r[1]])
            /\ \A d \in Domains : pending[d] # r

-----------------------------------------------------------------------------
(* boxroot_create                                                          *)

\* The current pool has a free cell. A thread that has not cached its domain
\* id goes through bxr_create_slow, which caches it and tries again.
CreateFast(d, v, k) ==
  /\ status = "RUNNING"
  /\ \E p \in In(pool, d, {"current"}) :
       \E s \in pool[p].free_list :
         pool' = [pool EXCEPT ![p] = allocate(pool[p], s, v)]
  /\ cached' = [cached EXCEPT ![d] = d]
  /\ warm' = warm \cup {d}
  /\ pending' = [pending EXCEPT ![d] = k]
  /\ UNCHANGED <<status, running, inited, gc, pc>>

NeedsNewPool(d) ==
  /\ status # "TORE_DOWN"
  /\ \A p \in In(pool, d, {"current"}) : is_full_pool(pool[p])

\* The full current pool joins the young pools, one of which is collected if
\* every cell of it has been freed remotely.
RetireCurrent(PL, d) == [p \in Pools |-> move_current_to_young(PL[p], d)]
Emptied(PL, d) == {p \in In(PL, d, {"young"}) : anticipated_alloc_count(PL[p]) = 0}
AfterRetire(d) ==
  LET PL == RetireCurrent(pool, d)
  IN IF In(pool, d, {"current"}) = {} \/ Emptied(PL, d) = {} THEN {PL}
     ELSE {[p \in Pools |-> IF p = g THEN try_gc_and_reclassify_pool(PL[p], d) ELSE PL[p]] :
            g \in Emptied(PL, d)}

\* find_and_set_available_pool looks at the head of the young ring, then at
\* the head of the old ring, then at the free ring, then asks the system.
SkipsYoung(PL, d) ==
  \/ In(PL, d, {"young"}) = {}
  \/ \E p \in In(PL, d, {"young"}) : is_full_pool(PL[p])
SkipsOld(PL, d) ==
  \/ In(PL, d, {"old"}) = {}
  \/ \E p \in In(PL, d, {"old"}) : is_full_pool(PL[p]) \/ ~ is_not_too_full(PL[p])
NeedsSystem(PL, d) ==
  SkipsYoung(PL, d) /\ SkipsOld(PL, d) /\ In(PL, d, {"free"}) = {}

Available(PL, d, p) ==
  /\ ~ is_full_pool(PL[p])
  /\ \/ p \in In(PL, d, {"young"})
     \/ /\ SkipsYoung(PL, d)
        /\ p \in In(PL, d, {"old"}) /\ is_not_too_full(PL[p])
     \/ /\ SkipsYoung(PL, d) /\ SkipsOld(PL, d)
        /\ p \in In(PL, d, {"free"})
     \/ NeedsSystem(PL, d) /\ PL[p].ring = "unmapped"

\* bxr_create_slow, up to the allocation in the pool it has made current.
CreateSlow(d, v, k) ==
  /\ NeedsNewPool(d)
  /\ \E PL \in AfterRetire(d), p \in Pools :
       /\ Available(PL, d, p)
       /\ \E s \in PL[p].free_list :
            LET P == IF PL[p].ring = "unmapped" THEN get_empty_pool ELSE PL[p]
            IN pool' = [q \in Pools |->
                 IF q = p THEN allocate(set_current_pool(P, d), s, v) ELSE PL[q]]
  /\ status' = "RUNNING"
  /\ inited' = inited \cup {d}
  /\ cached' = [cached EXCEPT ![d] = d]
  /\ warm' = warm \cup {d}
  /\ pending' = [pending EXCEPT ![d] = k]
  /\ UNCHANGED <<running, gc, pc>>

\* bxr_create_slow fails to allocate the pool rings of d, or a pool: NULL is
\* returned, what was done before the failure stays.
CreateNoMemory(d) ==
  /\ NeedsNewPool(d)
  /\ \/ /\ d \notin inited
        /\ UNCHANGED <<cached, warm, inited, pool>>
     \/ /\ pool' \in AfterRetire(d)
        /\ NeedsSystem(pool', d)
        /\ inited' = inited \cup {d}
        /\ cached' = [cached EXCEPT ![d] = d]
        /\ warm' = warm \cup {d}
  /\ status' = "RUNNING"
  /\ UNCHANGED <<running, pending, gc, pc>>

Create(d) ==
  /\ CanCall(d)
  /\ \/ \E v \in {"young", "old"} :
          CreateFast(d, v, NoRoot) \/ CreateSlow(d, v, NoRoot)
     \/ CreateNoMemory(d)

-----------------------------------------------------------------------------
(* boxroot_delete                                                          *)

Local(d, p) == cached[d] = pool[p].domain_id

\* The deletion without its slow path, and with it.
DeleteLocal(d, r) ==
  /\ Local(d, r[1])
  /\ LET P == bxr_free_slot(pool[r[1]], r[2])
     IN pool' = [pool EXCEPT ![r[1]] =
                   IF AtThreshold(P) THEN try_demote_pool(P) ELSE P]

\* The lock of another domain is held, or the thread has not cached the id of
\* its own.
DeleteRemote(d, r) ==
  /\ ~ Local(d, r[1])
  /\ pool' = [pool EXCEPT ![r[1]] = free_slot_atomic(pool[r[1]], r[2])]

Delete(d, r) ==
  /\ CanCall(d) /\ Owned(r)
  /\ DeleteLocal(d, r) \/ DeleteRemote(d, r)
  /\ UNCHANGED <<status, running, cached, warm, inited, pending, gc, pc>>

\* A thread that holds no domain lock, at any time before teardown: it takes
\* the mutex of the pool.
DeleteNoLock(r) ==
  /\ status # "TORE_DOWN" /\ Owned(r)
  /\ pool' = [pool EXCEPT ![r[1]] = free_slot_atomic(pool[r[1]], r[2])]
  /\ UNCHANGED <<status, running, cached, warm, inited, pending, gc, pc>>

-----------------------------------------------------------------------------
(* boxroot_modify                                                          *)

\* MUTANT: the class of the pool is not looked at.
Mut_ModifyInPlace(d, r, v) ==
  /\ CanCall(d) /\ Owned(r)
  /\ pool' = [pool EXCEPT ![r[1]] = set_slot(pool[r[1]], r[2], v)]
  /\ UNCHANGED <<status, running, cached, warm, inited, pending, gc, pc>>

ModifyInPlace(d, r, v) ==
  /\ CanCall(d) /\ Owned(r)
  /\ Class(pool[r[1]]) = "YOUNG" \/ v = "old"
  /\ pool' = [pool EXCEPT ![r[1]] = set_slot(pool[r[1]], r[2], v)]
  /\ UNCHANGED <<status, running, cached, warm, inited, pending, gc, pc>>

\* A young value for a root in an old pool: a new root is created, then the
\* old one is deleted by the same thread, which does not let a collection in.
\* If the creation fails the root stays as it was.
ModifyReallocate(d, r) ==
  /\ CanCall(d) /\ Owned(r)
  /\ Class(pool[r[1]]) # "YOUNG"
  /\ \/ CreateFast(d, "young", r)
     \/ CreateSlow(d, "young", r)
     \/ CreateNoMemory(d)

ModifyDeletesOld(d) ==
  /\ pending[d] # NoRoot
  /\ DeleteLocal(d, pending[d]) \/ DeleteRemote(d, pending[d])
  /\ pending' = [pending EXCEPT ![d] = NoRoot]
  /\ UNCHANGED <<status, running, cached, warm, inited, gc, pc>>

-----------------------------------------------------------------------------
(* Collections. Each running domain runs scanning_callback once.           *)

StartGC(kind) ==
  /\ gc = "none" /\ running # {}
  /\ \A d \in Domains : pending[d] = NoRoot
  /\ gc' = kind
  /\ pc' = [d \in Domains |-> IF d \in running THEN "enter" ELSE "out"]
  /\ UNCHANGED <<status, running, cached, warm, inited, pool, pending>>

\* scanning_callback and the part of scan_roots that readies the rings.
ScanEnter(d) ==
  /\ pc[d] = "enter"
  /\ IF status = "RUNNING" /\ d \in inited
     THEN /\ pool' = [p \in Pools |-> adopt_orphaned_pools(
                        gc_pool_rings(move_current_to_young(pool[p], d), d), d)]
          /\ pc' = [pc EXCEPT ![d] = "scan"]
     ELSE /\ pc' = [pc EXCEPT ![d] = "done"]
          /\ UNCHANGED pool
  /\ UNCHANGED <<status, running, cached, warm, inited, pending, gc>>

scan_pools(d) ==
  /\ pc[d] = "scan"
  /\ pool' = [p \in Pools |->
       IF gc = "minor" /\ p \in In(pool, d, {"young"}) THEN scan_pool_young(pool[p])
       ELSE IF gc = "major" /\ p \in In(pool, d, {"young", "old"})
            THEN scan_pool_gen(pool[p]) ELSE pool[p]]
  /\ pc' = [pc EXCEPT ![d] = "finish"]
  /\ UNCHANGED <<status, running, cached, warm, inited, pending, gc>>

\* promote_young_pools, or the free ring goes back to the system.
ScanFinish(d) ==
  /\ pc[d] = "finish"
  /\ pool' = [p \in Pools |->
       IF gc = "minor" /\ p \in In(pool, d, {"young"})
       THEN reclassify_pool(pool[p], d, "OLD")
       ELSE IF gc = "major" /\ p \in In(pool, d, {"free"})
            THEN bxr_free_pool(pool[p]) ELSE pool[p]]
  /\ pc' = [pc EXCEPT ![d] = "done"]
  /\ UNCHANGED <<status, running, cached, warm, inited, pending, gc>>

\* The runtime reclaims what the collection has not reached: the minor heap
\* after a minor collection, the unmarked major heap after a major one.
Swept(c) ==
  CASE gc = "minor" /\ c = "young" -> "dead"
    [] gc = "major" /\ c = "old" -> "dead"
    [] gc = "major" /\ c = "marked" -> "old"
    [] OTHER -> c

EndGC ==
  /\ gc # "none" /\ \A d \in running : pc[d] = "done"
  /\ pool' = [p \in Pools |-> [pool[p] EXCEPT !.cells =
                                 [s \in Slots |-> Swept(pool[p].cells[s])]]]
  /\ gc' = "none"
  /\ pc' = [d \in Domains |-> "out"]
  /\ UNCHANGED <<status, running, cached, warm, inited, pending>>

-----------------------------------------------------------------------------
(* Domains, threads, the end of the program.                               *)

\* A new domain takes a free id. Its threads have cached nothing.
Spawn(d) ==
  /\ MainDomain \in running /\ d \notin running /\ gc = "none"
  /\ EarlyIdReuse \/ \A p \in Pools : pool[p].ring \in Orphaned => pool[p].domain_id # d
  /\ running' = running \cup {d}
  /\ UNCHANGED <<status, cached, warm, inited, pool, pending, gc, pc>>

\* Another system thread of d takes the domain lock.
SwitchThread(d) ==
  /\ CanCall(d)
  /\ \/ cached' = [cached EXCEPT ![d] = NoDomain]
     \/ d \in warm /\ cached' = [cached EXCEPT ![d] = d]
  /\ UNCHANGED <<status, running, warm, inited, pool, pending, gc, pc>>

\* domain_termination_callback, once the hooks are installed. pools[d] is
\* then reset, not freed.
Terminate(d) ==
  /\ CanCall(d) /\ d # MainDomain
  /\ MainCreatesFirst => MainDomain \in inited
  /\ running' = running \ {d}
  /\ cached' = [cached EXCEPT ![d] = NoDomain]
  /\ warm' = warm \ {d}
  /\ pool' = IF status = "RUNNING" /\ d \in inited
             THEN [p \in Pools |-> orphan_pools(pool[p], d)] ELSE pool
  /\ UNCHANGED <<status, inited, pending, gc, pc>>

\* The main domain leaves: every domain stops where it is.
Shutdown ==
  /\ MainDomain \in running /\ gc = "none"
  /\ \A d \in Domains : pending[d] = NoRoot
  /\ running' = {}
  /\ cached' = [d \in Domains |-> NoDomain]
  /\ warm' = {}
  /\ UNCHANGED <<status, inited, pool, pending, gc, pc>>

boxroot_teardown ==
  /\ running = {} /\ status = "RUNNING"
  /\ status' = "TORE_DOWN"
  /\ inited' = {}
  /\ pool' = [p \in Pools |-> bxr_free_pool(pool[p])]
  /\ UNCHANGED <<running, cached, warm, pending, gc, pc>>

DomainStep(d) ==
  \/ Create(d)
  \/ \E r \in Roots : Delete(d, r)
  \/ \E r \in Roots, v \in {"young", "old"} : ModifyInPlace(d, r, v)
  \/ \E r \in Roots : ModifyReallocate(d, r)
  \/ ModifyDeletesOld(d)
  \/ SwitchThread(d)
  \/ Terminate(d)

ScanStep(d) == ScanEnter(d) \/ scan_pools(d) \/ ScanFinish(d)

Next ==
  \/ \E d \in Domains : DomainStep(d) \/ ScanStep(d) \/ Spawn(d)
  \/ \E r \in Roots : DeleteNoLock(r)
  \/ \E kind \in {"minor", "major"} : StartGC(kind)
  \/ EndGC
  \/ Shutdown
  \/ boxroot_teardown

Spec == Init /\ [][Next]_vars

-----------------------------------------------------------------------------
(* Safety.                                                                 *)

\* The number added to the count of the current pool.
Bias(P) == IF P.ring = "current" THEN 1 ELSE 0

PoolOK(P) ==
  /\ P.free_list \cap P.delayed_fl = {}
  /\ P.free_list \cup P.delayed_fl = Slots \ Live(P)
  /\ P.alloc_count = POOL_CAPACITY - Cardinality(P.free_list) + Bias(P)
  /\ P.delayed_count = - Cardinality(P.delayed_fl)

\* Every cell of a pool is in exactly one of three hands: the user, the free
\* list, the delayed free list; and the two counts of the pool agree with
\* them, so that scan_pool_gen may stop early and flushing is exact. What
\* validate_pool asserts after each scan, here in every state.
CountsMatch == \A p \in Pools : pool[p].ring # "unmapped" => PoolOK(pool[p])

\* The generational invariant: only young pools, which every minor collection
\* scans, hold roots to young blocks; and a pool that is not scanned at all
\* holds no root. Creation, in-place modification, the promotion and reuse of
\* pools, orphaning and adoption all have to keep it.
YoungRootsInYoungPools ==
  \A p \in Pools :
    /\ Class(pool[p]) = "OLD" => \A s \in Slots : pool[p].cells[s] # "young"
    /\ pool[p].ring = "free" => Live(pool[p]) = {}

\* A value is considered as a root by the GC as long as its boxroot lives: no
\* block is reclaimed under a live root, whichever domains create, delete,
\* modify, terminate and collect.
NoDangling == \A r \in Roots : pool[r[1]].cells[r[2]] # "dead"

\* Memory is given back to the system (free ring at a major collection, free
\* and emptied pools at a domain's termination) only when no root is left in
\* it; before teardown a root is always in a mapped pool.
NoUseAfterFree ==
  status # "TORE_DOWN" =>
    \A p \in Pools : Live(pool[p]) # {} => pool[p].ring # "unmapped"

\* Part of the inductive invariant: the root that boxroot_modify is replacing
\* stays its caller's, by the rules that users follow.
PendingIsLive ==
  \A d \in Domains : pending[d] # NoRoot =>
    /\ d \in running
    /\ pending[d][2] \in Live(pool[pending[d][1]])
    /\ \A e \in Domains \ {d} : pending[e] # pending[d]

\* boxroot_modify reallocates at most once between two minor collections: a
\* pool with roots moves from the class YOUNG to the class OLD only when a
\* minor collection promotes it, so a root created or reallocated since the
\* last one is modified in place. boxroot_modify reads the class of pools of
\* other domains without their lock and relies on it too.
YoungUntilPromoted ==
  [][\A p \in Pools : Class(pool[p]) = "YOUNG" /\ Class(pool'[p]) = "OLD"
                        => gc = "minor"]_vars

-----------------------------------------------------------------------------
(* Why no root is missed: the parts of an inductive invariant.             *)

\* What a collection has left to do can be read off the pools.
HoldsUnscanned(P) ==
  \E s \in Slots : \/ gc = "minor" /\ P.cells[s] = "young"
                   \/ gc = "major" /\ P.cells[s] = "old"

\* The initial domain leaves last; while a domain runs the library is not torn
\* down, and a collection concerns running domains only.
LifeCycle ==
  /\ running # {} => MainDomain \in running /\ status # "TORE_DOWN"
  /\ inited # {} => status = "RUNNING"
  /\ gc # "none" => running # {} /\ \A d \in Domains : pending[d] = NoRoot
  /\ \A d \in Domains : pc[d] # "out" => gc # "none" /\ d \in running
  /\ \A d \in Domains : cached[d] # NoDomain =>
       cached[d] = d /\ d \in running \cap inited
  /\ warm \subseteq running \cap inited
  /\ \A p \in Pools : pool[p].ring # "unmapped" =>
       /\ pool[p].domain_id \in inited
       /\ running # {} /\ pool[p].ring \notin Orphaned =>
            pool[p].domain_id \in running

\* Orphans are waited for: the initial domain adopts those nobody else has.
OrphansWait ==
  MainCreatesFirst =>
    \A p \in Pools : pool[p].ring \in Orphaned =>
      MainDomain \in inited /\ (gc # "none" => pc[MainDomain] = "enter")

\* A pool that still holds an unscanned root is orphaned, or its owner has yet
\* to scan it.
ScanCovers ==
  /\ \A p \in Pools : pool[p].ring = "current" /\ gc # "none" =>
       pc[pool[p].domain_id] = "enter"
  /\ \A p \in Pools : HoldsUnscanned(pool[p]) =>
       \/ pool[p].ring \in Orphaned
       \/ pool[p].ring # "unmapped" /\ pc[pool[p].domain_id] \in {"enter", "scan"}
  /\ gc # "major" => \A p \in Pools : \A s \in Slots : pool[p].cells[s] # "marked"

IInv ==
  /\ TypeOK /\ CountsMatch /\ YoungRootsInYoungPools /\ NoUseAfterFree
  /\ LifeCycle /\ PendingIsLive /\ OrphansWait /\ ScanCovers
  /\ MainCreatesFirst => NoDangling

-----------------------------------------------------------------------------
(* Refinement and liveness.                                                *)

\* What the users of boxroot see of a cell.
Seen(r) ==
  LET P == pool[r[1]]  c == P.cells[r[2]]
  IN IF c = "free" \/ status = "TORE_DOWN" THEN "free"
     ELSE IF P.ring = "unmapped" THEN "lost"
     ELSE IF c = "marked" THEN "old" ELSE c

Table == INSTANCE RootTable WITH
  Root <- Roots, table <- [r \in Roots |-> Seen(r)], phase <- gc

\* The pool allocator is a table of GC roots: whatever the pools, the rings
\* and the free lists do, each step of it creates, modifies, promotes or
\* deletes one root as the API says, or is invisible.
ImplementsRootTable == Table!TableSpec

\* The runtime keeps collecting while a domain runs, and a stop-the-world
\* section runs to its end.
Fairness ==
  /\ WF_vars(EndGC \/ \E d \in Domains : ScanStep(d))
  /\ \A d \in Domains : WF_vars(ModifyDeletesOld(d))
  /\ SF_vars(\E kind \in {"minor", "major"} : StartGC(kind))

FairSpec == Spec /\ Fairness

\* Cells freed remotely do not stay in limbo: as long as the program runs each
\* pool gets them back, again and again, even when its domain has terminated
\* in the meantime and another one has to adopt the pool first.  One pool
\* stands for all: no operation tells one from another.
DelayedCellsComeBack ==
  LET p == CHOOSE p \in Pools : TRUE
  IN []<>(pool[p].delayed_fl = {} \/ running = {})

\* Collections, of either kind, leave no orphan behind.
OrphansAreAdopted ==
  []<>((\A p \in Pools : pool[p].ring \notin Orphaned) \/ running = {})

Life == INSTANCE PoolLife WITH
  Nobody <- NoDomain,
  place <- [p \in Pools |-> IF pool[p].ring = "unmapped" THEN "none" ELSE pool[p].ring],
  owner <- [p \in Pools |-> IF pool[p].ring \in Orphaned \cup {"unmapped"}
                            THEN NoDomain ELSE pool[p].domain_id],
  held <- {p \in Pools : status # "TORE_DOWN" /\ Live(pool[p]) # {}}

\* Each step moves pools as their life allows: a domain moves its own, orphans
\* ("owned by orphan_mutex", boxroot.c) leave their rings by adoption in a
\* collection, a pool with a root is never freed nor left behind, and at the
\* end of a collection every pool has been adopted, promoted or released.
FollowsPoolLife == Life!LifeSpec
=============================================================================
