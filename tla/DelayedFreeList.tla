--------------------------- MODULE DelayedFreeList ---------------------------
(***************************************************************************)
(* One pool of boxroot/boxroot.c and its two free lists, one memory access *)
(* per step: the lock-free remote deallocation, the deallocation of        *)
(* threads that hold no domain lock, the three places that flush the       *)
(* delayed free list, and the scan of the cells.                           *)
(*                                                                         *)
(* Threads take steps in any order; a stop-the-world section waits for the *)
(* threads that hold a domain lock, and only for those.  The accesses are  *)
(* sequentially consistent: the relaxed ones of the code are ordered by    *)
(* the mutex, by the stop-the-world section, or, when the pool is flushed  *)
(* outside of it, by the release decrement and the acquire fence.          *)
(*                                                                         *)
(* What the domain of the pool does alone on the free list, protected by   *)
(* its domain lock, is one step.                                           *)
(***************************************************************************)
EXTENDS Integers, FiniteSets

CONSTANTS
  POOL_CAPACITY,    \* the number of cells
  Owner,            \* the domain of the pool, or the one that adopts it
  Remotes,          \* threads that hold the lock of another domain
  NoLocks,          \* threads that hold no domain lock
  NoThread,         \* the mutex is free
  Value,            \* an OCaml value, as opposed to a link
  Empty,            \* a pointer to the pool: the end of a list
  Null              \* the NULL pointer

Slots == 1 .. POOL_CAPACITY
Deleters == Remotes \cup NoLocks

ASSUME CapacityAssumption == POOL_CAPACITY \in Nat \ {0}
ASSUME ThreadAssumption ==
  /\ Owner \notin Deleters /\ NoThread \notin Deleters \cup {Owner}
  /\ Remotes \cap NoLocks = {}
ASSUME CellAssumption ==
  /\ {Value, Empty, Null} \cap Slots = {}
  /\ Cardinality({Value, Empty, Null}) = 3

VARIABLES
  cell,       \* the content of each cell: Value, or a link
  fl,         \* free_list: next, end, alloc_count
  dfl,        \* delayed_fl: a_next, end, a_alloc_count
  mutex,      \* who holds the pool mutex
  pc,         \* where each deleter is in free_slot_atomic
  hand,       \* the root each deleter is deleting
  old_next,   \* what each deleter has read in its exchange
  at,         \* where the owner is
  list,       \* the local variable of gc_pool
  stw,        \* in a stop-the-world section
  orphaned    \* the domain of the pool has terminated

vars == <<cell, fl, dfl, mutex, pc, hand, old_next, at, list, stw, orphaned>>

Links == Slots \cup {Empty, Null}
Lists == [next : Links, end : Links, count : -POOL_CAPACITY .. POOL_CAPACITY]

TypeOK ==
  /\ cell \in [Slots -> Slots \cup {Empty, Value}]
  /\ fl \in Lists /\ dfl \in Lists
  /\ mutex \in Deleters \cup {Owner, NoThread}
  /\ pc \in [Deleters -> {"idle", "lock", "exchange", "link", "end", "decr", "unlock"}]
  /\ hand \in [Deleters -> Links]
  /\ old_next \in [Deleters -> Links]
  /\ at \in {"idle", "gc", "lock", "end", "count", "reset", "next", "empty",
             "link", "unlock", "scan_lock", "scan", "scan_unlock", "done"}
  /\ list \in Links
  /\ stw \in BOOLEAN /\ orphaned \in BOOLEAN

-----------------------------------------------------------------------------
\* get_empty_pool
Init ==
  /\ cell = [s \in Slots |-> IF s = POOL_CAPACITY THEN Empty ELSE s + 1]
  /\ fl = [next |-> 1, end |-> POOL_CAPACITY, count |-> 0]
  /\ dfl = [next |-> Empty, end |-> Null, count |-> 0]
  /\ mutex = NoThread
  /\ pc = [t \in Deleters |-> "idle"]
  /\ hand = [t \in Deleters |-> Null]
  /\ old_next = [t \in Deleters |-> Null]
  /\ at = "idle" /\ list = Null
  /\ stw = FALSE /\ orphaned = FALSE

is_full_pool == fl.next = Empty
anticipated_alloc_count == fl.count + dfl.count

\* The roots whose user may still delete them.
Deletable == {s \in Slots : cell[s] = Value /\ \A t \in Deleters : hand[t] # s}

-----------------------------------------------------------------------------
(* The owner, outside of stop-the-world sections.                          *)

OwnerIsFree == at = "idle" /\ ~ stw /\ ~ orphaned

boxroot_create ==
  /\ OwnerIsFree /\ ~ is_full_pool
  /\ cell' = [cell EXCEPT ![fl.next] = Value]
  /\ fl' = [fl EXCEPT !.next = cell[fl.next], !.count = @ + 1]
  /\ UNCHANGED <<dfl, mutex, pc, hand, old_next, at, list, stw, orphaned>>

bxr_free_slot(s) ==
  /\ OwnerIsFree /\ s \in Deletable
  /\ cell' = [cell EXCEPT ![s] = fl.next]
  /\ fl' = [next |-> s, end |-> IF is_full_pool THEN s ELSE fl.end,
            count |-> fl.count - 1]
  /\ UNCHANGED <<dfl, mutex, pc, hand, old_next, at, list, stw, orphaned>>

-----------------------------------------------------------------------------
(* free_slot_atomic, called by bxr_delete_slow with the mutex of the pool  *)
(* when the thread has no domain lock, without it otherwise.               *)

Goto(t, l) == pc' = [pc EXCEPT ![t] = l]

\* MUTANT: a thread without a domain lock deletes as one that has one.
Mut_bxr_delete_slow(t, s) ==
  /\ pc[t] = "idle" /\ s \in Deletable
  /\ t \in Remotes => ~ stw
  /\ hand' = [hand EXCEPT ![t] = s]
  /\ Goto(t, "exchange")
  /\ UNCHANGED <<cell, fl, dfl, mutex, old_next, at, list, stw, orphaned>>

bxr_delete_slow(t, s) ==
  /\ pc[t] = "idle" /\ s \in Deletable
  /\ t \in Remotes => ~ stw
  /\ hand' = [hand EXCEPT ![t] = s]
  /\ Goto(t, IF t \in NoLocks THEN "lock" ELSE "exchange")
  /\ UNCHANGED <<cell, fl, dfl, mutex, old_next, at, list, stw, orphaned>>

LockPool(t) ==
  /\ pc[t] = "lock" /\ mutex = NoThread
  /\ mutex' = t
  /\ Goto(t, "exchange")
  /\ UNCHANGED <<cell, fl, dfl, hand, old_next, at, list, stw, orphaned>>

Exchange(t) ==
  /\ pc[t] = "exchange"
  /\ old_next' = [old_next EXCEPT ![t] = dfl.next]
  /\ dfl' = [dfl EXCEPT !.next = hand[t]]
  /\ Goto(t, "link")
  /\ UNCHANGED <<cell, fl, mutex, hand, at, list, stw, orphaned>>

Link(t) ==
  /\ pc[t] = "link"
  /\ cell' = [cell EXCEPT ![hand[t]] = old_next[t]]
  /\ Goto(t, IF old_next[t] = Empty THEN "end" ELSE "decr")
  /\ UNCHANGED <<fl, dfl, mutex, hand, old_next, at, list, stw, orphaned>>

\* MUTANT: `end` is set to the cell that was first, which there is not.
Mut_SetEnd(t) ==
  /\ pc[t] = "end"
  /\ dfl' = [dfl EXCEPT !.end = old_next[t]]
  /\ Goto(t, "decr")
  /\ UNCHANGED <<cell, fl, mutex, hand, old_next, at, list, stw, orphaned>>

SetEnd(t) ==
  /\ pc[t] = "end"
  /\ dfl' = [dfl EXCEPT !.end = hand[t]]
  /\ Goto(t, "decr")
  /\ UNCHANGED <<cell, fl, mutex, hand, old_next, at, list, stw, orphaned>>

Decr(t) ==
  /\ pc[t] = "decr"
  /\ dfl' = [dfl EXCEPT !.count = @ - 1]
  /\ hand' = [hand EXCEPT ![t] = Null]
  /\ old_next' = [old_next EXCEPT ![t] = Null]
  /\ Goto(t, IF t \in NoLocks THEN "unlock" ELSE "idle")
  /\ UNCHANGED <<cell, fl, mutex, at, list, stw, orphaned>>

UnlockPool(t) ==
  /\ pc[t] = "unlock"
  /\ mutex' = NoThread
  /\ Goto(t, "idle")
  /\ UNCHANGED <<cell, fl, dfl, hand, old_next, at, list, stw, orphaned>>

free_slot_atomic(t) == Exchange(t) \/ Link(t) \/ SetEnd(t) \/ Decr(t)

-----------------------------------------------------------------------------
(* gc_pool, step by step; its callers are below.                           *)

Past(l) == at' = l
AfterFlush == Past(IF stw THEN "scan_lock" ELSE "idle")

\* MUTANT: the mutex is not taken.
Mut_GcLock ==
  /\ at = "lock"
  /\ Past("end")
  /\ UNCHANGED <<cell, fl, dfl, mutex, pc, hand, old_next, list, stw, orphaned>>

\* MUTANT: the delayed free list keeps its cells.
Mut_GcEmpty ==
  /\ at = "empty"
  /\ Past("link")
  /\ UNCHANGED <<cell, fl, dfl, mutex, pc, hand, old_next, list, stw, orphaned>>

\* MUTANT: a pool without delayed cells is not passed.
Mut_GcRead ==
  /\ at = "gc"
  /\ Past(IF dfl.count = 0 THEN "gc" ELSE "lock")
  /\ UNCHANGED <<cell, fl, dfl, mutex, pc, hand, old_next, list, stw, orphaned>>

GcRead ==
  /\ at = "gc"
  /\ IF dfl.count = 0 THEN AfterFlush ELSE Past("lock")
  /\ UNCHANGED <<cell, fl, dfl, mutex, pc, hand, old_next, list, stw, orphaned>>

GcLock ==
  /\ at = "lock" /\ mutex = NoThread
  /\ mutex' = Owner
  /\ Past("end")
  /\ UNCHANGED <<cell, fl, dfl, pc, hand, old_next, list, stw, orphaned>>

GcEnd ==
  /\ at = "end"
  /\ fl' = IF is_full_pool THEN [fl EXCEPT !.end = dfl.end] ELSE fl
  /\ Past("count")
  /\ UNCHANGED <<cell, dfl, mutex, pc, hand, old_next, list, stw, orphaned>>

GcCount ==
  /\ at = "count"
  /\ fl' = [fl EXCEPT !.count = anticipated_alloc_count]
  /\ Past("reset")
  /\ UNCHANGED <<cell, dfl, mutex, pc, hand, old_next, list, stw, orphaned>>

\* MUTANT: the deletions that were delayed are counted again.
Mut_GcReset ==
  /\ at = "reset"
  /\ Past("next")
  /\ UNCHANGED <<cell, fl, dfl, mutex, pc, hand, old_next, list, stw, orphaned>>

GcReset ==
  /\ at = "reset"
  /\ dfl' = [dfl EXCEPT !.count = 0]
  /\ Past("next")
  /\ UNCHANGED <<cell, fl, mutex, pc, hand, old_next, list, stw, orphaned>>

GcNext ==
  /\ at = "next"
  /\ list' = fl.next
  /\ fl' = [fl EXCEPT !.next = dfl.next]
  /\ Past("empty")
  /\ UNCHANGED <<cell, dfl, mutex, pc, hand, old_next, stw, orphaned>>

GcEmpty ==
  /\ at = "empty"
  /\ dfl' = [dfl EXCEPT !.next = Empty]
  /\ Past("link")
  /\ UNCHANGED <<cell, fl, mutex, pc, hand, old_next, list, stw, orphaned>>

\* Undefined when `end` was never set: no cell changes then.
GcLink ==
  /\ at = "link"
  /\ cell' = [s \in Slots |-> IF s = dfl.end THEN list ELSE cell[s]]
  /\ list' = Null
  /\ Past("unlock")
  /\ UNCHANGED <<fl, dfl, mutex, pc, hand, old_next, stw, orphaned>>

GcUnlock ==
  /\ at = "unlock"
  /\ mutex' = NoThread
  /\ AfterFlush
  /\ UNCHANGED <<cell, fl, dfl, pc, hand, old_next, list, stw, orphaned>>

gc_pool == \/ GcRead \/ GcLock \/ GcEnd \/ GcCount \/ GcReset \/ GcNext
           \/ GcEmpty \/ GcLink \/ GcUnlock

-----------------------------------------------------------------------------
(* The callers of gc_pool, and the scan.                                   *)

\* MUTANT: the cells freed remotely are not taken into account.
Mut_try_gc_and_reclassify_one_pool_no_stw ==
  /\ OwnerIsFree /\ fl.count + dfl.count <= 1
  /\ Past("gc")
  /\ UNCHANGED <<cell, fl, dfl, mutex, pc, hand, old_next, list, stw, orphaned>>

\* A pool whose cells have all been freed is flushed outside of
\* stop-the-world sections.
try_gc_and_reclassify_one_pool_no_stw ==
  /\ OwnerIsFree /\ anticipated_alloc_count = 0
  /\ Past("gc")
  /\ UNCHANGED <<cell, fl, dfl, mutex, pc, hand, old_next, list, stw, orphaned>>

\* domain_termination_callback flushes the pool, and orphans it; the other
\* domains are running, and may be deleting.
domain_termination_callback ==
  /\ OwnerIsFree
  /\ orphaned' = TRUE
  /\ Past("gc")
  /\ UNCHANGED <<cell, fl, dfl, mutex, pc, hand, old_next, list, stw>>

\* Every domain lock is held. scan_roots flushes the pools of the domain,
\* adopts those that are orphaned, then scans.
StopTheWorld ==
  /\ at = "idle" /\ ~ stw
  /\ \A t \in Remotes : pc[t] = "idle"
  /\ stw' = TRUE
  /\ Past(IF orphaned THEN "scan_lock" ELSE "gc")
  /\ UNCHANGED <<cell, fl, dfl, mutex, pc, hand, old_next, list, orphaned>>

\* MUTANT: the orphan is scanned, but not adopted.
Mut_ScanLock ==
  /\ at = "scan_lock" /\ mutex = NoThread
  /\ mutex' = Owner
  /\ Past("scan")
  /\ UNCHANGED <<cell, fl, dfl, pc, hand, old_next, list, stw, orphaned>>

ScanLock ==
  /\ at = "scan_lock" /\ mutex = NoThread
  /\ mutex' = Owner
  /\ orphaned' = FALSE
  /\ Past("scan")
  /\ UNCHANGED <<cell, fl, dfl, pc, hand, old_next, list, stw>>

ScanUnlock ==
  /\ at = "scan"
  /\ mutex' = NoThread
  /\ Past("done")
  /\ UNCHANGED <<cell, fl, dfl, pc, hand, old_next, list, stw, orphaned>>

ResumeTheWorld ==
  /\ at = "done"
  /\ stw' = FALSE
  /\ Past("idle")
  /\ UNCHANGED <<cell, fl, dfl, mutex, pc, hand, old_next, list, orphaned>>

OwnerStep == gc_pool \/ ScanLock \/ ScanUnlock \/ ResumeTheWorld
DeleterStep(t) == LockPool(t) \/ free_slot_atomic(t) \/ UnlockPool(t)

\* What happens whether or not the domain of the pool is terminating.
AnyTime ==
  \/ boxroot_create
  \/ \E s \in Slots : bxr_free_slot(s)
  \/ \E t \in NoLocks, s \in Slots : bxr_delete_slow(t, s)
  \/ \E t \in Deleters : DeleterStep(t)
  \/ try_gc_and_reclassify_one_pool_no_stw
  \/ StopTheWorld
  \/ OwnerStep

RemoteDelete == \E t \in Remotes, s \in Slots : bxr_delete_slow(t, s)

Next == AnyTime \/ RemoteDelete \/ domain_termination_callback

Spec == Init /\ [][Next]_vars

\* The code does not see to it that the other domains keep away while
\* orphan_pools flushes: it is an assumption on the program, without which the
\* two free lists do not work (run termination_race).
Quiet ==
  orphaned /\ ~ stw /\ at # "idle" => \A t \in Remotes : pc[t] = "idle"

QuietNext ==
  \/ AnyTime
  \/ RemoteDelete /\ Quiet'
  \/ domain_termination_callback /\ Quiet'

\* The operating system runs every thread; the runtime keeps collecting, and a
\* domain reaches a safepoint after each call. None of these steps is
\* restricted by the assumption.
Fairness ==
  /\ WF_vars(OwnerStep)
  /\ \A t \in Deleters : WF_vars(DeleterStep(t))
  /\ SF_vars(StopTheWorld)

QuietSpec == Init /\ [][QuietNext]_vars
FairSpec == QuietSpec /\ Fairness

-----------------------------------------------------------------------------
(* Reading the lists.                                                      *)

\* The links as they will be once the cells already exchanged are linked.
NextOf(s) ==
  IF \E t \in Deleters : pc[t] = "link" /\ hand[t] = s
  THEN old_next[CHOOSE t \in Deleters : pc[t] = "link" /\ hand[t] = s]
  ELSE cell[s]

\* The n-th address met from h on.
Follow(h) ==
  LET w[n \in 0 .. POOL_CAPACITY] ==
        IF n = 0 THEN h
        ELSE IF w[n - 1] \in Slots THEN NextOf(w[n - 1]) ELSE w[n - 1]
  IN w
Reach(h) == {Follow(h)[n] : n \in 0 .. POOL_CAPACITY} \cap Slots
IsList(h, n) ==
  /\ n \in 0 .. POOL_CAPACITY
  /\ Follow(h)[n] = Empty /\ Cardinality(Reach(h)) = n

\* The deleters whose cell is on the delayed free list, yet not counted.
Pushing == {t \in Deleters : pc[t] \in {"link", "end", "decr"}}
InUse == {s \in Slots : NextOf(s) = Value}

-----------------------------------------------------------------------------
(* Safety.                                                                 *)

\* The flush has begun to write and is not finished.
Flushing == at \in {"reset", "next", "empty", "link"}

\* The state is well typed and, whatever the deletions under way, every cell is
\* in use or on exactly one of two well-formed lists, whose lengths are those
\* the counts tell: no cell is lost or on two lists, although a list is broken
\* between an exchange and its link.
EveryCellAccounted ==
  /\ TypeOK
  /\ ~ Flushing =>
    /\ IsList(fl.next, POOL_CAPACITY - fl.count)
    /\ IsList(dfl.next, Cardinality(Pushing) - dfl.count)
    /\ Cardinality(InUse) = anticipated_alloc_count - Cardinality(Pushing)

\* "if non-empty, points to last cell", for both lists: gc_pool writes through
\* the `end` of the delayed list, set by whoever found the list empty.
EndIsLast ==
  ~ Flushing =>
    /\ fl.next # Empty => fl.end \in Reach(fl.next) /\ cell[fl.end] = Empty
    /\ dfl.next # Empty /\ (\A t \in Pushing : old_next[t] # Empty) =>
         dfl.end \in Reach(dfl.next) /\ NextOf(dfl.end) = Empty

\* "Moreover we own all the slots (nobody can mutate the delayed_fl in
\* parallel)": from the moment the domain finds the counts at zero, outside of
\* stop-the-world sections and with the other domains running, to the end of
\* the flush, no cell is in use and no deletion is under way.
WeOwnAllTheSlots ==
  at # "idle" /\ ~ stw /\ ~ orphaned => InUse = {} /\ \A t \in Deleters : hand[t] = Null

\* "This value will be considered as a root by the OCaml GC as long as the
\* boxroot lives" (boxroot.h): the cell a flush writes through the `end` of the
\* delayed list is not one in use, although `end` is left over from a list that
\* was flushed before unless someone has found the list empty since.
FlushKeepsRoots ==
  [][GcLink => \A s \in Slots : cell[s] = Value => cell'[s] = Value]_vars

\* The scan, which stops after anticipated_alloc_count values, stops exactly
\* at the last value, whatever threads without a domain lock were deleting
\* when the world stopped.
ScanExact ==
  at = "scan" =>
    /\ Cardinality({s \in Slots : cell[s] = Value}) = anticipated_alloc_count
    /\ IsList(fl.next, POOL_CAPACITY - fl.count)

-----------------------------------------------------------------------------
(* Refinement and liveness.                                                *)

\* A remote deletion takes effect when it decrements the count, a flush when it
\* resets it.
Flushed == at \in {"next", "empty", "link"}
Free == IF Flushed THEN Slots \ InUse ELSE Reach(fl.next)
Delayed == IF Flushed THEN {} ELSE Reach(dfl.next) \ {hand[t] : t \in Pushing}
Counts == IF at = "reset" THEN <<fl.count - dfl.count, dfl.count>>
          ELSE <<fl.count, dfl.count>>

Ledger == INSTANCE PoolLedger WITH
  Cell <- Slots, free <- Free, delayed <- Delayed, count <- Counts

\* The memory accesses of concurrent deletions and flushes add up to the
\* atomic operations that module Boxroot is made of.
ImplementsLedger == Ledger!LedgerSpec

\* No thread can keep the world stopped by holding the mutex of the pool.
StopTheWorldEnds == stw ~> ~ stw

\* A cell freed remotely returns to the free list, if need be after the pool
\* has been adopted.
FreedCellsComeBack == \A s \in Slots : s \in Delayed ~> s \in Free
=============================================================================
