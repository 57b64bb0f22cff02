# A formal model of ocaml-boxroot

Boxroot gives C and Rust programs roots of the OCaml garbage collector: a
`boxroot` is a cell, allocated by the library in a *pool*, whose value the
collector treats as a root as long as the cell is not deleted. This directory
holds TLA+ modules translated from the C code in `src/boxroot`, the TLC
configurations that check them, and proofs checked by TLAPS.

## 1. Inventory

| Part | Source | State it keeps | Operations |
|---|---|---|---|
| Pool allocator (the reference implementation) | `boxroot.c`, `boxroot.h` | per domain, four rings of pools (`old`, `young`, `current`, `free`) in `pools[]`; two rings of orphaned pools; in each pool the cells, a free list, its count, class and domain; `bxr_current_free_list`, the domain id cached by each thread | `boxroot_create`, `boxroot_delete`, `boxroot_modify`, and their slow paths |
| Delayed free list | `boxroot.c` | in each pool `delayed_fl` (atomic `a_next`, `end`, atomic `a_alloc_count`) and `mutex` | `free_slot_atomic`, `gc_pool` |
| Scanning | `boxroot.c` | the above | `scanning_callback` → `scan_roots`: flush, adopt, scan, promote or release |
| Orphaning | `boxroot.c` | `orphan`, `orphan_mutex` | `domain_termination_callback` → `orphan_pools`; `adopt_orphaned_pools` |
| Setup and teardown | `boxroot.c` | `status`, `init_mutex` | `setup`, `boxroot_teardown` |
| OCaml hooks | `ocaml_hooks.c` | `in_minor_collection`, the previous hooks, `bxr_thread_has_lock` (OCaml 4) | hooks of the runtime |
| Platform | `platform.c`, `platform.h` | none | aligned allocation, mutexes, atomics |
| Prototypes | `dll_boxroot.c`, `rem_boxroot.c`, `bitmap_boxroot.c` | rings of elements; rings of pools and a remembered set; chunks with an atomic bitmap | the same API, for one domain or with coarse locks |
| Arenas | `arena.h`, `arena.c` | a chain of arenas in `Caml_state->local_roots`, each with a free list through its slots | `init_arena`, `drop_arena`, `alloc_local_ref`, `delete_local_ref` |
| Clients | `benchmarks`, `rust` | none of the library's | |

**How the parts interact.** A thread that holds the lock of its domain calls the
API; the fast paths of creation and local deletion only touch the free list of a
pool of the domain. A deletion on a pool of another domain, or without any
domain lock, goes to the delayed free list of that pool. The runtime calls
`scanning_callback` once per domain in each collection, while every other domain
is stopped; threads without a domain lock are *not* stopped and may be deleting:
the pool mutex is what they share with the scan. When a domain terminates the
runtime calls `domain_termination_callback`, while the other domains run; the
next domain that scans adopts what it left.

**What is hard.** The lock-free push of remote deallocations (an exchange, then a
link, then a decrement, with no CAS) and the three places that flush it, two of
them outside of a stop-the-world section; the generational invariant, kept by
a dozen operations that move pools between rings; a scan that stops early on the
word of two counters; the deletion at any time, even during a collection, even
after the domain of the pool has terminated; the reuse of domain ids; the first
creations of several domains, whose hooks run while other hooks are being put in
place.

**What makes each part correct.**

- *Pools*: every cell is with the user, on the free list or on the delayed free
  list, and the counts agree; a domain allocates from one pool at most.
- *Generations*: roots to young blocks are in young pools only; a pool that is
  not scanned, or that is released, holds no root.
- *The promise*: a block is not reclaimed as long as a boxroot to it lives; all
  the pool machinery is invisible to the user.
- *Delayed free list*: no interleaving loses a cell, lists it twice, or shows the
  scan counts and cells that disagree; the world can always be resumed.
- *Orphans*: cells freed remotely and pools of terminated domains are recovered.
- *Rings*: disjoint circular lists, whatever is moved, appended or walked over.
- *Hooks*: installed once, each calls the previous one and comes back; a domain
  knows in which kind of collection it scans; no root exists before them.
- *Arenas*: the free list leads through free slots only.

## 2. Modules

| Module | What it is |
|---|---|
| `Boxroot` | the reference implementation, one operation on pools per step |
| `RootTable` | what the API promises: a table of GC roots |
| `DelayedFreeList` | one pool and its two free lists, one memory access per step |
| `PoolLedger` | what the two lists promise: cells change hands one at a time |
| `PoolLife` | what may happen to a pool: its ring, its owner, whether it holds a root |
| `Null` | the null pointer |
| `Rings` | circular doubly linked lists in memory, as operators |
| `PoolRings` | the rings of pools in memory and the walks over them, one pool per step |
| `Setup` | the first creations, the hooks and the runtime, one access to shared memory per step |
| `RemBoxroot` | the prototype with a remembered set |
| `BitmapBoxroot` | the prototype with an atomic bitmap per chunk |
| `DllBoxroot` | the prototype with linked elements |
| `Arena` | local roots in arenas |
| `MCPoolRings`, `MCRemBoxroot`, `MCBitmapBoxroot`, `MCDllBoxroot` | the same with the symmetry of addresses, for TLC |
| `RingSequences` | a ring as the sequence of its members, for the two prototypes where only the order matters |
| `BoxrootProofs` | lemmas on the operations on one pool, the inductive invariant of `Boxroot`, its theorems and refinements |
| `DelayedFreeListProofs` | the invariant of the two free lists, and the refinement of `PoolLedger` |
| `SetupProofs` | the invariant of the setup and the hooks |
| `ListLemmas` | lemmas on linked lists as paths, sequences without repetition, and circular lists as irreducible closed sets of nodes |
| `PoolRingsProofs` | the layout of the rings, the invariant of `PoolRings` and what its walks do |
| `DllBoxrootProofs`, `RemBoxrootProofs`, `BitmapBoxrootProofs` | the invariants of the prototypes, and their refinement of `RootTable` |

`Boxroot`, `RemBoxroot`, `BitmapBoxroot` and `DllBoxroot` implement the same
`RootTable`; `Boxroot` implements `PoolLife` too, and `DelayedFreeList` implements
`PoolLedger`, whose steps are those `Boxroot` takes on a pool: `Take` is the fast
path of `CreateFast`, `Return` of `DeleteLocal`, `ReturnLater` is `free_slot_atomic`
and `Flush` is `gc_pool`. `PoolRings` and `DllBoxroot` extend `Rings`. `PoolRings` has
the same operations as `Boxroot` on a finer state; that it implements the rings
of `Boxroot`, or `PoolLife`, is not stated (the refinement holds where it was
tried, but its check takes TLC too long on three pools).

### Boxroot

The state is one record per pool address: its ring, `domain_id`,
`free_list.alloc_count`, the free list and the delayed free list as sets of
cells, the count of the latter, and the content of each cell. The class of a pool
"is kept in sync" with its ring in the code; it is derived from it here
(`Class`). The order of the pools in a ring is left open: where the code looks at
the head of a ring (`pop_available`), any pool of the ring may be the head, which
includes the orders the code produces. A cell in use holds the age of its block:
`young`, `old`, `marked` (reached by the major collection under way), or `dead`
if the block was reclaimed under the root, which is what must not happen. Each
root is taken to be the only one that keeps its block alive.

| Action | Code |
|---|---|
| `CreateFast`, `CreateSlow`, `CreateNoMemory` | `boxroot_create`, `bxr_create_slow` with `setup`, `move_current_to_young`, `try_gc_and_reclassify_one_pool_no_stw`, `find_and_set_available_pool` |
| `Delete`, `DeleteNoLock` | `boxroot_delete`, `bxr_free_slot`, `bxr_delete_slow`, `try_demote_pool` |
| `ModifyInPlace`, `ModifyReallocate`, `ModifyDeletesOld` | `boxroot_modify`, `bxr_modify_slow`; the reallocation is two steps because lockless threads can delete between them |
| `ScanEnter`, `scan_pools`, `ScanFinish` | `scanning_callback` and `scan_roots`, in three parts per domain |
| `Terminate` | `domain_termination_callback`, `orphan_pools` |
| `boxroot_teardown` | the same |
| `Spawn`, `SwitchThread`, `StartGC`, `EndGC`, `Shutdown` | the OCaml runtime |

`EndGC` turns what a collection has not reached into `dead`: young values after
a minor collection, unmarked old ones after a major one. A collection is one
stop-the-world section in which each running domain scans once; a major
collection marks and sweeps in it. In OCaml 5 the marking continues after the
section; for a root that exists when it starts this is the same obligation.
A creation during the marking is protected by the runtime (the value was
reachable from the stack), not by boxroot.

Three constants describe the environment. `MainCreatesFirst`: the initial domain
has created a boxroot before another domain terminates (see finding 1).
`EarlyIdReuse`: a domain id may be given to a new domain while orphaned pools
still carry it (section 4). The initial domain leaves last (`Shutdown`), as in
OCaml, and `boxroot_teardown` is called after that, as its documentation asks. A
terminated domain does not scan after its termination hook.

### DelayedFreeList

One pool whose cells are memory: a value or a link. `free_slot_atomic` is five
steps (`LockPool`, `Exchange`, `Link`, `SetEnd`, `Decr`), `gc_pool` nine, in the
order of the code. `Remotes` are threads that hold the lock of another domain
and are stopped by a collection; `NoLocks` are threads that hold none and take
the pool mutex. What the owner does alone under its domain lock is one step.
Memory is sequentially consistent: the relaxed accesses of the code are ordered
by the pool mutex, by the stop-the-world section or, for the flush of an empty
pool outside of one, by the release decrement and the acquire fence. Weak
memory beyond that argument is not modelled. The actions are those of the code
without a condition on the environment (`Spec`): a remote deletion may fall into
the flush of a terminating domain, and the lists are then broken (finding 2 of
section 4). `Quiet` says of a state that no other domain is deleting while
`orphan_pools` flushes; `QuietSpec` has the steps of `Spec` that keep it, and the
properties of run `delayed` and the theorems are about such executions. The
moves of the pool between rings are in `Boxroot` only; a pool found empty
stays the pool of its domain here.

### PoolRings

Of each pool there are `prev`, `next`, the two counts, the class and the owner;
of each domain the four heads, and of the orphans two. An operation on rings is
an operator from memory to memory. What the code passes as `pool **`, the address
of a head or of a local variable, is a key of the map of heads (`Rings`,
`Locals`). `gc_ring` and `try_gc_and_reclassify_one_pool_no_stw` take one step per
pool, and `DeleteRemote` comes between the steps; `reclassify_ring` and
`free_pool_ring` run inside a stop-the-world section, or on rings nobody else
reaches, and are one step. `left` is a history variable: the pools of the ring
when the walk began that it has not met. That `scanning_callback` returns early in
a domain without rings (`boxroot.c:1165`) is left to `Boxroot`: here a domain has
its rings from the start, and the scan of empty ones does nothing but adopt.

The constant `AssertionsAssumed` says how the library is built: TRUE when the
compiler may rely on the assertions (`DEBUGassert` is `__builtin_unreachable`
outside of debug builds), in which case `ring_push_back` may use `source` and
`source->prev` for one another. The passing runs take it to be FALSE, a build
that does not exploit it (see `rings_splice` for the other).

### PoolLife

Where `RootTable` is the view of the user, `PoolLife` is the view of who owns
what: `place` is the ring of a pool, `owner` the domain whose rings hold it, `held`
the pools with a root. Its steps are what the comments "ownership required" ask
for: a domain retires, empties, reuses and promotes its own pools; a pool with a
root is never released; orphaned pools leave the orphan rings in a collection
only, all at once, and with their generation; a collection ends with every pool
adopted, and promoted or released according to its kind.

### Setup

`setup` is taken apart: the test of `status`, `init_mutex`, the second test, for each
of the four hooks the exchange and the record of the previous hook, `status`, and
the mutex again. Another library installs a hook at any moment outside of a
collection, in front of the one it finds, and calls that one from its own
(`Chain`). A collection waits until every domain is outside of the library, or
between two calls: a domain that waits for `init_mutex` keeps its domain lock.
Then each domain goes through the hooks at its own pace (`record_minor_begin`,
`scan_roots`, `record_minor_end`); a major collection goes on after a barrier with a
second scan, outside of the minor one. Of the pools there is whether the rings
of a domain exist (`pools`) and whether they hold roots (`holds`).

Two constants are assumptions on the environment, taken to be TRUE by the run.
`QuietInstall`: no domain terminates between the exchange of the termination hook
and the record of the previous one. `LeavesAtOnce`: a domain takes part in no
collection after its termination hook. Section 4 says what fails without them.

### DllBoxroot

The elements are in memory as the pools of `PoolRings` are; the local variable
of `ring_pop_elem`, whose address it passes to `ring_pop`, is the head "elem". The
prototype has no mutex, and a call is one step. `malloc` may fail and the library
may be set up again after a teardown: both lead to crashes (`hooks`), which the
model contains.

### Arena

Arenas are the elements of a sequence, oldest first; a slot is the number of its
arena and its index. `PTR_OF_VALUE` is translated as the macro is written: it
takes the value at hand, `v`, and not its argument. The tag that keeps a link
of the free list from the collector is left out.

### RemBoxroot

A ring is a sequence of pools, head first. The library has a mutex and its
callers hold a domain lock, so that an operation is one step. The minor free
list is a sequence, because a minor collection splices it through the pointer to
its last slot; the major free list is a set, whose order nothing depends on. The
runtime is four actions: a collection starts, traverses the remembered set,
calls the scanning hook (in either order, as OCaml 4 and 5 differ), and ends:
young values that were not remembered are then `dead`. A major collection starts
without young values. The setup is done once, since teardown "can only be called
at OCaml shutdown" (`rem_boxroot.c:789`).

### BitmapBoxroot

A chunk has its slots, its bitmap of free indices and its class; a ring is a
sequence. The steps are cut at the changes of the bitmap made without the mutex:
`bitmap_boxroot_delete` (the exclusive or) and `DeleteReclassify` (with the
mutex), `bitmap_boxroot_create` and, when it has filled the chunk,
`AllocReclassify`. A chunk address given back to the system may be given again.
Threads hold a domain lock, so a collection finds none of them inside the
library. The setup is done once.

## 3. What the runs check

Runs that must find no error:

| Run | Instance | Properties | States |
|---|---|---|---|
| `allocator` | 2 domains, 2 pools of 2 cells | `TypeOK`, `CountsMatch`, `YoungRootsInYoungPools`, `NoDangling`, `NoUseAfterFree`, `YoungUntilPromoted`, `ImplementsRootTable`, `FollowsPoolLife`, `DelayedCellsComeBack`, `OrphansAreAdopted` | 611,000 |
| `delayed` | 2 remote threads, 1 lockless, 3 cells | `EveryCellAccounted`, `EndIsLast`, `WeOwnAllTheSlots`, `ScanExact`, `FlushKeepsRoots`, `ImplementsLedger`, `StopTheWorldEnds`, `FreedCellsComeBack` | 55,500 |
| `rings_walks` | 2 domains, 3 pools of 2 cells | `RingsAreDisjointCycles`, `KeptInSync`, `EveryRootIsOnAScannedRing`, `EveryPoolIsMet`, `OnlyFlushedPoolsMove`, `WalksAdvance` | 777,000 |
| `setup` | 3 domains, another library with two hooks | `TypeOK`, `HooksAreChained`, `KindIsRight`, `HooksAreReady`, `RootsAreReached`, `CallsReturn` | 116,000 |
| `dll` | 5 elements | `RingsAreDisjointCycles`, `RingsValid`, `ImplementsRootTable` | 2,000 |
| `remembered` | 2 pools of 2 slots | `FreeListsCorrect`, `YoungIsRemembered`, `EmptyPoolsGoBack`, `ImplementsRootTable` | 38,600 |
| `bitmap` | 2 domains, 3 chunks of 2 slots | `ChunksOnTheirRing`, `NonFullAtTheStart`, `ImplementsRootTable` | 396,000 |

Runs that must find a violation, discussed in section 4: `unused_main`,
`termination_race`, `rings_splice`, `bitmap_race`, `arena_reuse`.

Together they show, on these instances: no block is reclaimed under a live root
and no pool with a root is released, whichever domains create, delete, modify,
collect and terminate; only a minor collection moves a pool with roots from
young to old, so that `boxroot_modify` reallocates at most once between two of
them; the whole allocator is, to its user, the table of `RootTable`; the
lock-free protocol accounts for every cell at every step and amounts to the
atomic steps of the pool level, if no other domain deletes during the flush of
a terminating one; the rings stay circular lists, disjoint and in
sync with the pools, and the walks meet every pool and end although they move
the pools of the ring they walk over; the hooks are installed once and chained,
whoever creates the first root, and tell the kind of the collection; the
remembered set replaces the scan of young roots; the rings of chunks survive
deletions that reclassify a chunk later.

Each module has a type invariant `TypeOK`; in `DelayedFreeList`, `PoolRings`,
`RemBoxroot`, `BitmapBoxroot` and `DllBoxroot` it is the first conjunct of the invariant
that says how the lists or rings are made. Properties worth a word:

- `EveryRootIsOnAScannedRing` and `EveryPoolIsMet` are what `Boxroot` takes for
  granted by its rings as sets.
- `ImplementsRootTable` says, for a collection, that every root that the user has
  is still there with a value that was not reclaimed, and that after a minor
  collection none is young.
- `WeOwnAllTheSlots` is the comment at `boxroot.c:826-830` on the flush of an empty
  pool outside of a stop-the-world section: the two counts, read without a lock,
  show that nobody is deleting. It says nothing of the flush of `orphan_pools`, for
  which the code has no such argument.
- `FlushKeepsRoots` is the promise as it stands at the level of memory: a flush
  writes through the `end` of the delayed list whether or not the list is empty,
  and `end` is only right if it was set since the last flush.
- `EveryPoolIsMet` does not say "once": when the head of a ring is flushed to the
  front again, or another pool becomes the head, `gc_ring` may come to a pool a
  second time, which is harmless.
- `WalksAdvance` is why walks end: a step of a walk that carries out no deletion
  brings it nearer to the end of the ring, whatever is deleted in between. It
  may start over after a flush, but every flush takes a deletion, and the domain
  creates nothing meanwhile. That is a safety property, and needs no fairness.
- `KindIsRight` is about a counter that several domains raise and lower: a domain
  in its own minor collection reads it as not zero wherever the others are, and
  after the barrier of a major collection it is zero.
- `CallsReturn` rules out that a domain waits for ever for `init_mutex` while a
  collection waits for that domain: a domain that holds the mutex never waits
  for a collection.
- `NonFullAtTheStart` is stated of the young ring only: promotion appends the
  young ring at the back of the old one, behind its full chunks, so the comment
  "all non-full chunks at the start" does not hold of the old one.
- In `bitmap` a thread that finds its chunk freed stops (`use after free`); the
  properties are about what happens as long as that does not.

**Bounds.** Two pools are enough for a pool to be current while another is young,
old, free, orphaned or adopted; two domains for remote deletion, orphaning,
adoption and reuse of an id (the initial domain never terminates before the
end). Pools of two cells reach full, partly full and empty. One pool of four
cells, which can be neither full nor "not too full", satisfies the same
properties (162,000 states) and is not part of the runs. The sizes in bytes are
scaled down (`PoolSize` 8, `SlotSize` 4, no header) so that the test for a pool that is not too full falls
inside the range of the counts. The deallocation threshold does not: as with the
sizes of the code, it is a number of bytes larger than the count of cells, and
the only count that is a multiple of it is 0. Three pools let a walk meet a head
that moves, a pool behind it, and one left behind. Three cells and three
deleters in `DelayedFreeList` allow three cells to be pushed at once, in any
order. Two pools of `RemBoxroot` put one on each ring; larger instances (2 pools
of 3 slots, 3 pools of 2 slots, 1.5 and 2.2 million states) found nothing more
and are not part of the runs. Three chunks put chunks on both rings with one free
address left. Three domains in `Setup` let one hold the mutex, one wait for it
and one terminate, collect or create; another library that uses the scanning
and the termination hook can be in front of boxroot, behind it, or get between
its exchange and its record; with all four hooks and without liveness there are
1.04 million states and no error. Five elements in `DllBoxroot` put two on one
ring and some on each other. `Arena` has its bound on the chain in the guards
(`MaxArenas`). No other counter needs a cap: the state spaces are finite and explored
entirely. Symmetry is used where no constant tells addresses apart, and not in
runs with liveness.

**Deadlock.** The configurations of `Boxroot`, `RemBoxroot`, `BitmapBoxroot` and
`DllBoxroot` turn the check for deadlock off: the program stops after the library
is torn down, or after a crash of the model. Those of the passing runs of
`DelayedFreeList`, `PoolRings` and `Setup` leave it on.

**Fairness** (`FairSpec`). In `Boxroot`: weak fairness of the steps of a
collection under way and of the end of each modification, since the runtime
finishes a stop-the-world section it has begun and a function that has started
returns; strong fairness of the start of collections, of whatever kind, since the
runtime keeps collecting as long as a domain runs while other calls disable it
for a moment. Nothing is assumed of the user: no deletion, creation or
termination need ever happen. In `DelayedFreeList`: weak fairness of the steps of
each thread inside a call (the scheduler runs every thread), strong fairness of
the start of a stop-the-world section, which waits for domains between two calls.
In `Setup`: weak fairness of what each domain goes on to do by itself, and of the
end of a stop-the-world section. A mutex that is free is taken at last: at most
one domain after the other passes through `setup` before the status says that
there is nothing to do. Nothing says that domains create, terminate or collect.
`PoolRings` states no fairness: the end of its walks is `WalksAdvance`.

**Mutants.** Next to the operators of a module are variants marked `MUTANT`, each
a plausible slip in that code (a count that is not reset, a mutex not taken, a
ring left behind). For each property of each run, one of them, put in the place
of the operator, makes TLC report that property violated.

## 4. Disagreements between the code and its documentation

Each of these has a run that exhibits it.

1. `unused_main` (`boxroot.c:1165`): `scanning_callback` returns when its domain
   has no pool rings, before adoption. If the remaining domains have never
   created a boxroot, the live roots of a terminated domain are not scanned,
   against `boxroot.h:13-15`. The other runs assume `MainCreatesFirst`.
2. `termination_race` (`boxroot.c:786`): `orphan_pools` flushes the pools of its
   domain while the other domains run. A remote deletion takes no mutex
   (`free_slot_atomic`), and its comment says "I only flush the delayed free list
   during stop-the-world sections or when the pool is empty!"
   (`boxroot.c:643-645`); so do `boxroot.c:93-94` and the "ownership required: STW" of
   `boxroot.c:780`. When the exchange of a deletion falls between the two accesses
   that splice the list (`boxroot.c:365-366`), its cell is lost and its decrement
   kept. The adopting domain then flushes a list that is empty but counted:
   it writes a link through an `end` left over from the flush before, over a root
   that was created in that cell since, against `boxroot.h:13-15`. The other run
   of `DelayedFreeList` assumes `Quiet`.
3. `rings_splice` (`boxroot.c:271`): `ring_push_back` asserts that its source is a
   single pool, `orphan_pools` passes whole rings. In a build where the assertion
   is a promise to the compiler, pools can be lost when two domains have been
   orphaned. The other run of `PoolRings` assumes `AssertionsAssumed = FALSE`.
4. `bitmap_race` (`bitmap_boxroot.c:378`): a deletion that waits for the mutex to
   reclassify its chunk may find it freed by another deletion, against the
   configuration that `bitmap_boxroot.c:39-41` gives for thread safety.
5. `arena_reuse` (`arena.h:111`): the macro `PTR_OF_VALUE(p)` uses `v`. When a deleted
   slot is reused for a value, that value becomes the head of the free list; the
   next allocation returns it as a local root, and overwrites a field of the
   block it points to. With the argument of the macro in its place no violation
   is found (246,000 states).

Observed while modelling, without a run of their own:

- `boxroot.c:440-451`: a new domain with the id of a terminated one takes deletions on
  orphaned pools for local ones, and moves a pool out of the orphan ring without
  `orphan_mutex`, against `boxroot.c:141-142`. With `EarlyIdReuse = TRUE`, TLC finds
  `FollowsPoolLife` violated in eight states; the runs assume that an id is reused
  after the orphans have been adopted.
- `rem_boxroot.c:594`: after a creation that failed for lack of memory
  (`CreateNoMemory`), `pools` is NULL while `full_pools` is not, and the next
  collection reads through it: the model crashes there.
- `ocaml_hooks.c:94`: the previous hook is recorded after the exchange that installs the
  new one. The comment before it relies on hooks being called in stop-the-world
  sections; the termination hook is not, and a domain that terminates in between
  does not call the hook of the other library. With `QuietInstall = FALSE`, TLC finds
  `HooksAreChained` violated.
- `boxroot.c:1186`: if the runtime let a domain take part in a collection after its
  termination hook, that domain would adopt its own orphans again and leave with
  them: with `LeavesAtOnce = FALSE`, TLC finds `RootsAreReached` violated.
- `ocaml_hooks.c:77`: the prototypes give NULL for the termination callback, which is
  called without a test when a domain terminates.
- `arena.c:9`, `dll_boxroot.c:195`: the result of a failed allocation is written through.
- `boxroot.c:740`: in debug builds `scan_roots` validates pools without their mutex and
  can see a lockless deletion half done; the assertion on the count then fails.
- `boxroot.c:826-828`: a young pool can be empty without delayed cells (a current
  pool emptied locally and retired by a major collection). Harmless, except that
  the search for a pool to collect stops there.
- `boxroot.c:476`: the assertion that the pool found is not full reads it before the
  test for NULL. With `AssertionsAssumed = TRUE` the model crashes there when the
  system has no memory.
- `boxroot.h:179`: the deallocation threshold, in bytes, is compared with a number of
  cells, so that only a count of 0 meets it; the order of the rings described in
  `boxroot.c:456-459` is then not kept: a full pool can be in front of emptier ones.
- `rem_boxroot.c:354`: teardown does not release `full_pools`.
- `rem_boxroot.c:599`: pools are freed in the hook of a minor collection, while slots
  of theirs may be in the remembered set that the runtime has yet to traverse.
- `bitmap_boxroot.c:298`: a failed allocation of a chunk is dereferenced.
- `bitmap_boxroot.h:40-42`: a root may be reallocated more than once between two minor
  collections, since the test is on the value it holds: an old value is written
  in place, and the next young one reallocates again.
- `dll_boxroot.c:389`, `rem_boxroot.c:782`, `bitmap_boxroot.c:604`: a second setup after
  teardown installs the hooks again, and the previous hook is then the hook
  itself: the next collection does not return. `DllBoxroot` contains it.

## 5. What is proved

The theorems hold for every set of domains, threads, pools, chunks, elements or
cells and every size, under the ASSUMEs of the modules: sizes are natural
numbers with room for one cell, sentinels (`NULL`, `Orphan`, `NoDomain`, `Empty`)
are none of the things they stand next to, the constants that describe the
environment are Boolean, and, where a proof counts or walks, sets are finite
(the elements of `DllBoxroot`, the pools of `PoolRings` and `RemBoxroot`, the domains
of `Setup`; not the domains and pools of `Boxroot`). TLC evaluates these on each
run. Every inductive invariant was model-checked, as an invariant of a run,
before it was proved.

| Module | Theorem | What it states |
|---|---|---|
| `BoxrootProofs` | `TypeCorrect`, `CountsCorrect`, `GenerationalCorrect`, `FreedPoolsHoldNoRoot` | `TypeOK`, `CountsMatch`, `YoungRootsInYoungPools`, `NoUseAfterFree` |
| | `RootsKeepBlocksAlive` | `MainCreatesFirst => NoDangling` |
| | `ModifyReallocatesOnce` | `YoungUntilPromoted` |
| | `ImplementsTable` | `ImplementsRootTable`, under `MainCreatesFirst` |
| | `PoolsLiveTheirLife` | `FollowsPoolLife`, under `MainCreatesFirst` and `~ EarlyIdReuse` |
| `DelayedFreeListProofs` | `CellsAccounted`, `EndsAreLast`, `EmptyPoolIsOurs`, `ScanIsExact`, `RootsAreKept` | `EveryCellAccounted`, `EndIsLast`, `WeOwnAllTheSlots`, `ScanExact`, `FlushKeepsRoots`, each of the executions of `Spec` that are always `Quiet` |
| | `ImplementsPoolLedger` | `ImplementsLedger`, of the same executions |
| | `QuietRuns` | the executions of `QuietSpec` are such executions |
| `PoolRingsProofs` | `RingsStayDisjointCycles`, `HeadersKeptInSync`, `EveryRootIsScanned`, `WalksMeetEveryPool` | `RingsAreDisjointCycles`, `KeptInSync`, `EveryRootIsOnAScannedRing`, `EveryPoolIsMet`, under `~ AssertionsAssumed` |
| | `OthersKeepTheirOrder`, `WalksComeCloser` | `OnlyFlushedPoolsMove`, `WalksAdvance`, under `~ AssertionsAssumed` |
| `SetupProofs` | `SetupTypeCorrect`, `KindCorrect`, `HooksReady` | `TypeOK`, `KindIsRight`, `HooksAreReady` |
| | `HooksChained` | `HooksAreChained`, under `QuietInstall` |
| | `RootsReached` | `RootsAreReached`, under `LeavesAtOnce` |
| `DllBoxrootProofs` | `RingsDisjoint`, `RingsSorted`, `DllImplementsTable` | `RingsAreDisjointCycles`, `RingsValid`, `ImplementsRootTable` |
| `RemBoxrootProofs` | `FreeListsRight`, `YoungRemembered`, `EmptyPoolsReturn`, `RemImplementsTable` | `FreeListsCorrect`, `YoungIsRemembered`, `EmptyPoolsGoBack`, `ImplementsRootTable` |
| `BitmapBoxrootProofs` | `ChunksOnRings`, `NonFullFirst`, `BitmapImplementsTable` | `ChunksOnTheirRing`, `NonFullAtTheStart`, `ImplementsRootTable` |

The conditions are constants of the modules, and those of the runs, but for
`Quiet`, a formula: `Spec /\ []Quiet => ...`. They are
there because the code is not right without them, as section 4 shows for each:
none was added for the sake of a proof.

**Boxroot: the invariant.** `NoDangling` is not inductive: at the end of a
collection it needs every root to have been scanned. `IInv` adds what makes it
so:

- `ScanCovers`: a pool with a root that the collection under way has not
  processed (`HoldsUnscanned`) is orphaned, or its owner has yet to scan it, and
  no pool is current once its domain has begun to scan.
- `OrphansWait`: orphaned pools wait for the initial domain if for no other; they
  exist during a collection only before it has entered its scan. This is where
  `MainCreatesFirst` comes in, and where `unused_main` breaks without it.
- `LifeCycle`: mapped pools belong to running domains or are orphaned, only
  running domains scan, the library is torn down after the last domain.
- `CountsMatch`, since the scan of a pool stops when it has met
  `anticipated_alloc_count` values: lemma `AnticipatedIsLive` shows that this is
  the number of its live cells, and `ScanGen` that the scan then meets them all,
  by a counting argument on the cells before a given one.
- `YoungRootsInYoungPools`, since a minor collection scans the young rings only.

Each operation on one pool has a lemma that says what it preserves (`PoolOK`, the
roots, the class), each action one that says that it preserves `IInv`; then come
`InitInv`, `NextInv` and `Invariance`.

**Boxroot: the refinements.** The actions fall into a few kinds, each an operator
that says what a step may do to the pools: a call of a domain retires, empties,
reuses or takes pools of its own; a deletion frees one cell; a scan promotes,
marks, or releases; a domain leaves its pools to the orphans. One lemma per
action puts it into its kind, and one lemma per kind maps it to a step of
`RootTable` and of `PoolLife`, or to none. For `PoolLife` the invariant is `LifeInv`:
a domain has one current pool at most, the pools that carry the id of a domain
that is not running are orphaned, and a domain that has scanned has no young
pool with roots left.

**DelayedFreeList.** A free list is a path: the function that gives its cells in
the order of the links (`ListLemmas`). `DInv` says that the free list and the
delayed one are paths that share out, with the cells in use and those that a
deletion has in hand, the cells of the pool; that the delayed path has one gap
for each deletion between its exchange and its link; what each thread has done
of its call; and who may hold the mutex. The lemmas say what taking the first
cell, putting one in front, and joining two paths do. The length of a path is
linked to the cardinality of its cells by a bounded induction (`IntervalInduction`),
which is proved from the theorem on injections between finite sets, as no scheme
of induction can be used here.

**Circular lists.** A ring is a set of nodes closed under `next` and `prev`, inverse
of one another there, with no smaller set closed under `next` (`Cycle` in
`ListLemmas`). No order of the nodes is needed to say what unlinking a node,
joining two rings and walking along one do; `RingIsCycle` shows that the set is
what the walk of module `Rings`, a recursive function, meets, and `StepsCloser`
that a step along a ring is one step less to the head. `PopRing` and `PushRing` say
what `ring_pop` and `ring_push_back` make of the set of each ring.

**PoolRings.** A layout `R` gives the set of pools of each ring. `Good` says that the
memory has that layout (`Laid`: each ring a cycle, no two with a pool in common),
that what is mapped is what is on the rings, that the headers name the ring
(`Sync`), that current rings have one pool at most, that counts fit their
pools (`Counted`), and that an address that is not mapped is a ring of one. A
lemma per operation says from which layout to which it goes. `Inv` says that some
layout is `Good` and that each domain is somewhere it can be in it (`Walker`): a
domain that is not running has no ring, and a walk at the pool `x` has before it
all the pools in `left`. The last part is `Covers`: those pools are in every set
that has `x` and that `next` does not leave but for the head. It is what the
walks need to be correct although they move the pool they meet, and the head
with it: `WalkFlushes` proves it of the three things a flush may do (leave the pool
where it is, take it out of the ring, or put it in front) and of the two tests
by which `gc_ring` ends.

An operation of a domain is seen by the others as `Changes`: their rings keep their
pools, their heads and their links, so that their walks go on; and it leaves the
orphans that it does not adopt as they are. The loops over a whole ring (`Drain`)
are followed by induction on the number of iterations (`ReclassifyRingIs`,
`FreeRingIs`). In `orphan_pools` the ring that is appended is for a moment at two
heads; the lemmas `Cleared...` show that the code does what it would do if the
head of the terminated domain were cleared first.

The theorems assume `~ AssertionsAssumed`, as the run does. In a build that exploits the
assertion of `ring_push_back` they are false: that is what `rings_splice` shows.

**Setup.** `SInv` says where each domain is in `setup` and what it has done there,
that the mutex is held by the domain that is past it, the shape of each chain
of hooks (empty, boxroot alone, in front of or behind the other library, or
between its exchange and its record), that the callbacks are there before the
hooks, what the counter of minor collections is made of, and, for a collection,
which domains have scanned.

**dll_boxroot.** The elements are laid out in cycles as the pools are. `DllInv` gives
the set of each ring (`Layout`), the values that its elements have (`Sorted`), and
what a collection has done (`Phases`).

**rem_boxroot.** The rings and the minor free lists are enumerations of sets:
sequences with each member once. `RemInv` says that the rings share the mapped
pools, that the header of each pool is that of its roots (`HeaderOK`: the count, the
two free lists, the recorded last slot), that a full pool is over the threshold,
that the slots of the minor free lists and those of young roots are remembered,
and what a collection that has scanned has left.

**bitmap_boxroot.** `BitInv` says that the rings enumerate the chunks of their
class, that addresses that are not mapped have empty bitmaps, that the domain
that holds the mutex between its two steps has a root of its own in the chunk
it will move (the chunk is still there), and that in the young ring a full chunk
`a` is before a chunk `b` with room only if a domain has freed a slot of `b`, or is
the one that holds the mutex and has just filled `a`. The last part is stronger
than `NonFullAtTheStart`, which a move of `a` by a domain that has freed a slot of
it would not preserve. It speaks of the order of the chunks alone (`Before`), which
removals keep.

**Refinement of `RootTable`.** In each prototype every step is mapped to a step of
the table or leaves what the user sees; what makes it work is that the scan of a
collection meets every root of the ages it is for, so that its end reclaims none.

**Model-checked only.** Every safety property of the passing runs, invariant, action
property or refinement, has its theorem. Liveness under fairness
(`DelayedCellsComeBack`, `OrphansAreAdopted`, `StopTheWorldEnds`, `FreedCellsComeBack`,
`CallsReturn`) is out of reach of the prover, which has no rule for ENABLED: the
five are model-checked only. An induction scheme is out of reach too; where a
proof has to follow a recursive function (`Walk`, `Drain`) it uses `IntervalInduction`.

## 6. What is not modelled, and the plan

What remains to be proved: that `PoolRings` implements the rings of `Boxroot` taken
as sets, which the layouts of its proof prepare, once that refinement is stated
and checked on an instance small enough.

Not modelled, and why:

- The hooks of OCaml 4 (`ocaml_hooks.c:98-164`, `boxroot.c:557-563`): whether the flag
  `bxr_thread_has_lock` is right depends on when the runtime and other libraries
  call the blocking section hooks, of which the repository shows nothing; the
  check of the library always succeeds, so that `BOXROOT_INVALID` is never set.
- A second setup of `rem_boxroot` (excluded by its comment) and of `bitmap_boxroot`;
  it fails as that of `DllBoxroot` does.
- The validation of debug builds: it changes no state, and what it asserts is
  stated by `CountsMatch`, `KeptInSync`, `EveryCellAccounted` and `RingsValid`.
- The platform layer: a mutex, an aligned address or no memory, which is how the
  modules use it.

Left out for good: statistics and their printing; benchmarks and Rust
declarations, which are clients; `BXR_MULTITHREAD` false and `BXR_FORCE_REMOTE`
true, which are for experiments; weak memory; `errno`.
