------------------------- MODULE DelayedFreeListProofs -------------------------
(* The proofs about DelayedFreeList, for every number of cells and threads,   *)
(* and every interleaving of their memory accesses.  A well-formed list is a  *)
(* path: the cells it goes through, as an injective function from 1 .. n.     *)
(* The inductive invariant DInv says that there is a path from each of the    *)
(* two lists, that every cell is on one of them or in use, and who may be     *)
(* where while the lists are changed.                                         *)
EXTENDS DelayedFreeList, ListLemmas

-----------------------------------------------------------------------------
(* The inductive invariant.                                                *)

\* What each deleter has at each place.
Hands ==
  /\ \A t \in Deleters :
       IF pc[t] \in {"idle", "unlock"} THEN hand[t] = Null ELSE hand[t] \in Slots
  /\ \A t, u \in Deleters : hand[t] = hand[u] /\ hand[t] # Null => t = u
  /\ \A t \in Deleters : pc[t] \in {"lock", "exchange", "link"} => cell[hand[t]] = Value
  /\ \A t \in Pushing : old_next[t] \in Slots \cup {Empty}
  /\ \A t \in Deleters : pc[t] = "end" => old_next[t] = Empty

InGc == {"gc", "lock", "end", "count", "reset", "next", "empty", "link", "unlock"}

\* Who holds the mutex, and what keeps the others away from a flush: the world
\* is stopped, or the domain has terminated, or there is nothing to delete.
Protection ==
  /\ mutex \notin Remotes
  /\ \A t \in Remotes : pc[t] \notin {"lock", "unlock"}
  /\ \A t \in NoLocks : mutex = t <=> pc[t] \in {"exchange", "link", "end", "decr", "unlock"}
  /\ mutex = Owner <=> at \in (InGc \ {"gc", "lock"}) \cup {"scan"}
  /\ stw => at # "idle" /\ \A t \in Remotes : pc[t] = "idle"
  /\ at \notin InGc \cup {"idle"} => stw
  /\ at \in InGc =>
       \/ stw
       \/ orphaned /\ \A t \in Remotes : pc[t] = "idle"
       \/ /\ \A t \in Deleters : pc[t] \in {"idle", "unlock"}
          /\ \A s \in Slots : cell[s] # Value

\* The free list is at `list` while the delayed one is put in front of it.
FreeHead == IF at \in {"empty", "link"} THEN list ELSE fl.next
DelayedHead == IF at \in {"empty", "link"} THEN fl.next ELSE dfl.next

\* The links of all cells.
Nexts == [s \in Slots |-> NextOf(s)]

\* What the counts tell of the lengths, as the flush goes on.
CountsTell(m, n) ==
  /\ fl.count = POOL_CAPACITY - m - IF Flushing THEN n ELSE 0
  /\ dfl.count = IF Flushed THEN 0 ELSE Cardinality(Pushing) - n
  /\ at \in InGc \ {"gc", "unlock"} => n > 0

\* Whoever has found the delayed free list empty pushes its last cell, and is
\* to set its end.
Ends(p, m, q, n) ==
  /\ m > 0 => fl.end = p[m]
  /\ m = 0 /\ at \in {"count", "reset", "next", "empty", "link"} => fl.end = dfl.end
  /\ \A t \in Deleters : pc[t] \in {"link", "end"} /\ old_next[t] = Empty => hand[t] = q[n]
  /\ n > 0 /\ (\A t \in Deleters : pc[t] \in {"link", "end"} => old_next[t] # Empty) =>
       dfl.end = q[n]

\* The cells are in use or on the two lists, those that are being pushed on the
\* delayed one.
Shape(p, m, q, n) ==
  /\ TwoLists(Slots, Value, Empty, Nexts, FreeHead, p, m, DelayedHead, q, n)
  /\ \A t \in Pushing : On(hand[t], q, n)
  /\ CountsTell(m, n) /\ Ends(p, m, q, n)
  /\ at = "link" => dfl.next = Empty

DInv ==
  /\ TypeOK /\ Hands /\ Protection
  /\ \E m, n \in 0 .. POOL_CAPACITY :
       \E p \in [1 .. m -> Slots], q \in [1 .. n -> Slots] : Shape(p, m, q, n)

-----------------------------------------------------------------------------
(* Reading the links.                                                      *)

LEMMA Distinct ==
  /\ Value # Empty /\ Empty # Null /\ Value # Null
  /\ Value \notin Slots /\ Empty \notin Slots /\ Null \notin Slots
  /\ POOL_CAPACITY \in Nat /\ POOL_CAPACITY > 0
  /\ Owner \notin Deleters /\ NoThread \notin Deleters /\ NoThread # Owner
<1>1. IsFiniteSet({Null}) /\ Cardinality({Null}) = 1
  BY FS_Singleton
<1>2. IsFiniteSet({Empty, Null}) /\ Cardinality({Empty, Null}) <= 2
  <2>1. {Empty, Null} = {Null} \cup {Empty}
    OBVIOUS
  <2> QED BY <1>1, <2>1, FS_AddElement
<1>3. Value \notin {Empty, Null}
  <2>1. {Value, Empty, Null} = {Empty, Null} \cup {Value}
    OBVIOUS
  <2> QED BY <1>2, <2>1, FS_AddElement, CellAssumption
<1>4. Empty # Null
  <2>1. ASSUME Empty = Null PROVE Cardinality({Value, Empty, Null}) <= 2
    <3>1. {Value, Empty, Null} = {Null} \cup {Value}
      BY <2>1
    <3> QED BY <1>1, <3>1, FS_AddElement
  <2> QED BY <2>1, CellAssumption
<1> QED BY <1>3, <1>4, CellAssumption, CapacityAssumption, ThreadAssumption

\* One field of a list is set.
LEMMA ListsKept ==
  \A l \in Lists :
    /\ \A x \in Links : [l EXCEPT !.next = x] \in Lists /\ [l EXCEPT !.end = x] \in Lists
    /\ \A k \in -POOL_CAPACITY .. POOL_CAPACITY : [l EXCEPT !.count = k] \in Lists
    /\ [l EXCEPT !.count = 0] \in Lists
    /\ l.count \in Int
BY Distinct DEF Lists

\* What a cell will contain, without the choice of a deleter.
LinksAre ==
  /\ Nexts \in [Slots -> Slots \cup {Empty, Value}]
  /\ \A t \in Deleters : pc[t] = "link" => Nexts[hand[t]] = old_next[t]
  /\ \A s \in Slots : (\A t \in Deleters : pc[t] = "link" => hand[t] # s) => Nexts[s] = cell[s]

LEMMA LinksRead == TypeOK /\ Hands => LinksAre
<1> SUFFICES ASSUME TypeOK, Hands PROVE LinksAre
  OBVIOUS
<1>1. \A t \in Deleters : pc[t] = "link" => hand[t] \in Slots /\ NextOf(hand[t]) = old_next[t]
  <2> SUFFICES ASSUME NEW t \in Deleters, pc[t] = "link"
               PROVE  hand[t] \in Slots /\ NextOf(hand[t]) = old_next[t]
    OBVIOUS
  <2>1. hand[t] \in Slots /\ hand[t] # Null
    BY Distinct DEF Hands
  <2>2. PICK u \in Deleters : u = CHOOSE x \in Deleters : pc[x] = "link" /\ hand[x] = hand[t]
    OBVIOUS
  <2>3. pc[u] = "link" /\ hand[u] = hand[t]
    BY <2>2
  <2>4. u = t
    BY <2>1, <2>3 DEF Hands
  <2> QED BY <2>1, <2>2, <2>4 DEF NextOf
<1>2. \A s \in Slots : (\A t \in Deleters : pc[t] = "link" => hand[t] # s) => NextOf(s) = cell[s]
  BY DEF NextOf
<1>3. \A s \in Slots : NextOf(s) \in Slots \cup {Empty, Value}
  <2> TAKE s \in Slots
  <2>1. CASE \E t \in Deleters : pc[t] = "link" /\ hand[t] = s
    BY <1>1, <2>1 DEF Hands, Pushing
  <2>2. CASE \A t \in Deleters : pc[t] = "link" => hand[t] # s
    BY <1>2, <2>2 DEF TypeOK
  <2> QED BY <2>1, <2>2
<1> QED BY <1>1, <1>2, <1>3 DEF LinksAre, Nexts

LEMMA LinksReadNext == TypeOK' /\ Hands' => LinksAre'
BY LinksRead, PTL

\* The links are the same when no exchange, link or owner's write takes place.
LEMMA SameLinks ==
  ASSUME LinksAre, LinksAre', UNCHANGED cell,
         \A t \in Deleters : pc'[t] = "link" <=> pc[t] = "link",
         \A t \in Deleters : pc[t] = "link" => hand'[t] = hand[t] /\ old_next'[t] = old_next[t]
  PROVE  Nexts' = Nexts
<1>1. \A s \in Slots : Nexts'[s] = Nexts[s]
  BY DEF LinksAre
<1> QED BY <1>1 DEF LinksAre

-----------------------------------------------------------------------------
(* The steps.                                                              *)

Safe == TypeOK /\ Hands /\ Protection

LEMMA LockPoolKeeps ==
  ASSUME Safe, NEW m \in 0 .. POOL_CAPACITY, NEW n \in 0 .. POOL_CAPACITY,
         NEW p \in [1 .. m -> Slots], NEW q \in [1 .. n -> Slots], Shape(p, m, q, n),
         NEW t \in Deleters, LockPool(t)
  PROVE  Safe' /\ Shape(p, m, q, n)'
<1> USE Distinct DEF LockPool, Goto, Safe
<1>1. TypeOK'
  BY DEF TypeOK
<1>2. Hands'
  BY DEF TypeOK, Hands, Pushing
<1>3. Protection'
  BY DEF TypeOK, Protection, InGc, Deleters
<1>4. Nexts' = Nexts
  <2>1. \A u \in Deleters : pc'[u] = "link" <=> pc[u] = "link"
    BY DEF TypeOK
  <2> QED BY <1>1, <1>2, <2>1, LinksRead, LinksReadNext, SameLinks
<1>5. Pushing' = Pushing
  BY DEF Pushing, TypeOK
<1>6. CountsTell(m, n)'
  BY <1>5 DEF Shape, CountsTell, Flushing, Flushed
<1>7. Ends(p, m, q, n)'
  BY DEF Shape, Ends, TypeOK
<1> QED BY <1>1, <1>2, <1>3, <1>4, <1>5, <1>6, <1>7 DEF Shape, FreeHead, DelayedHead

\* No cell is being pushed while the owner holds the mutex in gc_pool.
LEMMA NobodyPushes ==
  ASSUME Safe, at \in InGc \ {"gc", "lock"}
  PROVE  Pushing = {} /\ \A t \in Deleters : pc[t] \notin {"exchange", "link", "end", "decr"}
BY ThreadAssumption DEF Safe, Protection, InGc, Pushing, Deleters

\* The lengths of the lists, and the number of those who push.
LEMMA Sizes ==
  ASSUME Safe, NEW m \in 0 .. POOL_CAPACITY, NEW n \in 0 .. POOL_CAPACITY,
         NEW p \in [1 .. m -> Slots], NEW q \in [1 .. n -> Slots], Shape(p, m, q, n)
  PROVE  /\ IsFiniteSet(Pushing) /\ Cardinality(Pushing) \in Nat /\ Cardinality(Pushing) <= n
         /\ m + n <= POOL_CAPACITY
         /\ Cardinality(InUse) = POOL_CAPACITY - m - n
<1>1. IsFiniteSet(Slots) /\ Cardinality(Slots) = POOL_CAPACITY
  BY CapacityAssumption, FS_Interval DEF Slots
<1>2. m \in Nat /\ n \in Nat
  OBVIOUS
<1>3. IsFiniteSet(Pushing) /\ Cardinality(Pushing) \in Nat /\ Cardinality(Pushing) <= n
  <2>1. \A t \in Pushing : On(hand[t], q, n)
    BY DEF Shape
  <2>2. \A t, u \in Pushing : hand[t] = hand[u] => t = u
    BY Distinct DEF Safe, Hands, Pushing
  <2> QED BY <1>2, <2>1, <2>2, HoldersFit
<1>4. /\ Cardinality({s \in Slots : Nexts[s] = Value}) = Cardinality(Slots) - m - n
      /\ m + n <= Cardinality(Slots)
  <2>1. /\ \A i, j \in 1 .. m : p[i] = p[j] => i = j
        /\ \A i, j \in 1 .. n : q[i] = q[j] => i = j
        /\ Shared(Slots, Value, Nexts, p, m, q, n)
    BY DEF Shape, TwoLists, Path
  <2> QED BY <1>1, <1>2, <2>1, SharedSizes
<1>5. InUse = {s \in Slots : Nexts[s] = Value}
  BY DEF InUse, Nexts
<1> QED BY <1>1, <1>3, <1>4, <1>5

LEMMA UnlockPoolKeeps ==
  ASSUME Safe, NEW m \in 0 .. POOL_CAPACITY, NEW n \in 0 .. POOL_CAPACITY,
         NEW p \in [1 .. m -> Slots], NEW q \in [1 .. n -> Slots], Shape(p, m, q, n),
         NEW t \in Deleters, UnlockPool(t)
  PROVE  Safe' /\ Shape(p, m, q, n)'
<1> USE Distinct DEF UnlockPool, Goto, Safe
<1>1. TypeOK'
  BY DEF TypeOK
<1>2. Hands'
  BY DEF TypeOK, Hands, Pushing
<1>3. Protection'
  BY ThreadAssumption DEF TypeOK, Protection, InGc, Deleters
<1>4. Nexts' = Nexts
  <2>1. \A u \in Deleters : pc'[u] = "link" <=> pc[u] = "link"
    BY DEF TypeOK
  <2>2. \A u \in Deleters : pc[u] = "link" => hand'[u] = hand[u] /\ old_next'[u] = old_next[u]
    BY DEF TypeOK
  <2> QED BY <1>1, <1>2, <2>1, <2>2, LinksRead, LinksReadNext, SameLinks
<1>5. Pushing' = Pushing
  BY DEF Pushing, TypeOK
<1>6. CountsTell(m, n)'
  BY <1>5 DEF Shape, CountsTell, Flushing, Flushed, InGc, TypeOK, Lists
<1>7. Ends(p, m, q, n)'
  BY DEF Shape, Ends, TypeOK
<1> QED BY <1>1, <1>2, <1>3, <1>4, <1>5, <1>6, <1>7 DEF Shape, FreeHead, DelayedHead

LEMMA DeleteKeeps ==
  ASSUME Safe, NEW m \in 0 .. POOL_CAPACITY, NEW n \in 0 .. POOL_CAPACITY,
         NEW p \in [1 .. m -> Slots], NEW q \in [1 .. n -> Slots], Shape(p, m, q, n),
         NEW t \in Deleters, NEW x \in Slots, bxr_delete_slow(t, x), Quiet'
  PROVE  Safe' /\ Shape(p, m, q, n)'
<1> USE Distinct DEF bxr_delete_slow, Goto, Deletable, Safe
<1>1. TypeOK'
  BY DEF TypeOK, Links
<1>2. Hands'
  BY DEF TypeOK, Hands, Pushing
<1>3. Protection'
  BY ThreadAssumption DEF TypeOK, Protection, InGc, Deleters, Quiet
<1>4. Nexts' = Nexts
  <2>1. \A u \in Deleters : pc'[u] = "link" <=> pc[u] = "link"
    BY DEF TypeOK
  <2>2. \A u \in Deleters : pc[u] = "link" => hand'[u] = hand[u] /\ old_next'[u] = old_next[u]
    BY DEF TypeOK
  <2> QED BY <1>1, <1>2, <2>1, <2>2, LinksRead, LinksReadNext, SameLinks
<1>5. Pushing' = Pushing
  BY DEF Pushing, TypeOK
<1>6. CountsTell(m, n)'
  BY <1>5 DEF Shape, CountsTell, Flushing, Flushed, InGc, TypeOK, Lists
<1>7. Ends(p, m, q, n)'
  BY DEF Shape, Ends, TypeOK
<1>8. \A u \in Pushing' : On(hand'[u], q, n)
  BY <1>5 DEF Shape, Pushing, TypeOK
<1> QED BY <1>8, <1>1, <1>2, <1>3, <1>4, <1>5, <1>6, <1>7 DEF Shape, FreeHead, DelayedHead

LEMMA SetEndKeeps ==
  ASSUME Safe, NEW m \in 0 .. POOL_CAPACITY, NEW n \in 0 .. POOL_CAPACITY,
         NEW p \in [1 .. m -> Slots], NEW q \in [1 .. n -> Slots], Shape(p, m, q, n),
         NEW t \in Deleters, SetEnd(t)
  PROVE  Safe' /\ Shape(p, m, q, n)'
<1> USE Distinct DEF SetEnd, Goto, Safe
<1>1. TypeOK'
  <2>1. hand[t] \in Links /\ dfl' \in Lists
    BY ListsKept DEF TypeOK
  <2> QED BY <2>1 DEF TypeOK
<1>2. Hands'
  BY DEF TypeOK, Hands, Pushing
<1>3. Protection'
  BY ThreadAssumption DEF TypeOK, Protection, InGc, Deleters
<1>4. Nexts' = Nexts
  <2>1. \A u \in Deleters : pc'[u] = "link" <=> pc[u] = "link"
    BY DEF TypeOK
  <2>2. \A u \in Deleters : pc[u] = "link" => hand'[u] = hand[u] /\ old_next'[u] = old_next[u]
    BY DEF TypeOK
  <2> QED BY <1>1, <1>2, <2>1, <2>2, LinksRead, LinksReadNext, SameLinks
<1>5. Pushing' = Pushing
  BY DEF Pushing, TypeOK
<1>6. CountsTell(m, n)'
  BY <1>5 DEF Shape, CountsTell, Flushing, Flushed, InGc, TypeOK, Lists
<1>7. Ends(p, m, q, n)'
  <2>1. at \notin InGc \ {"gc", "lock"}
    BY NobodyPushes
  <2>2. old_next[t] = Empty /\ hand[t] = q[n]
    BY DEF Hands, Shape, Ends
  <2> QED BY <2>1, <2>2 DEF Shape, Ends, TypeOK, Lists, InGc
<1> QED BY <1>1, <1>2, <1>3, <1>4, <1>5, <1>6, <1>7 DEF Shape, FreeHead, DelayedHead

LEMMA GcReadKeeps ==
  ASSUME Safe, NEW m \in 0 .. POOL_CAPACITY, NEW n \in 0 .. POOL_CAPACITY,
         NEW p \in [1 .. m -> Slots], NEW q \in [1 .. n -> Slots], Shape(p, m, q, n),
         GcRead
  PROVE  Safe' /\ Shape(p, m, q, n)'
<1> USE Distinct DEF GcRead, AfterFlush, Past, Safe
<1>1. TypeOK'
  BY DEF TypeOK
<1>2. Hands'
  BY DEF TypeOK, Hands, Pushing
<1>3. Protection'
  BY ThreadAssumption DEF TypeOK, Protection, InGc, Deleters
<1>4. Nexts' = Nexts
  <2>1. \A u \in Deleters : pc'[u] = "link" <=> pc[u] = "link"
    BY DEF TypeOK
  <2>2. \A u \in Deleters : pc[u] = "link" => hand'[u] = hand[u] /\ old_next'[u] = old_next[u]
    BY DEF TypeOK
  <2> QED BY <1>1, <1>2, <2>1, <2>2, LinksRead, LinksReadNext, SameLinks
<1>5. Pushing' = Pushing
  BY DEF Pushing, TypeOK
<1>6. CountsTell(m, n)'
  <2>1. dfl.count # 0 => n > 0
    BY Sizes DEF Shape, CountsTell, Flushed
  <2> QED BY <2>1, <1>5 DEF Shape, CountsTell, Flushing, Flushed, InGc, TypeOK, Lists
<1>7. Ends(p, m, q, n)'
  BY DEF Shape, Ends, TypeOK
<1> QED BY <1>1, <1>2, <1>3, <1>4, <1>5, <1>6, <1>7 DEF Shape, FreeHead, DelayedHead

LEMMA GcLockKeeps ==
  ASSUME Safe, NEW m \in 0 .. POOL_CAPACITY, NEW n \in 0 .. POOL_CAPACITY,
         NEW p \in [1 .. m -> Slots], NEW q \in [1 .. n -> Slots], Shape(p, m, q, n),
         GcLock
  PROVE  Safe' /\ Shape(p, m, q, n)'
<1> USE Distinct DEF GcLock, Past, Safe
<1>1. TypeOK'
  BY DEF TypeOK
<1>2. Hands'
  BY DEF TypeOK, Hands, Pushing
<1>3. Protection'
  BY ThreadAssumption DEF TypeOK, Protection, InGc, Deleters
<1>4. Nexts' = Nexts
  <2>1. \A u \in Deleters : pc'[u] = "link" <=> pc[u] = "link"
    BY DEF TypeOK
  <2>2. \A u \in Deleters : pc[u] = "link" => hand'[u] = hand[u] /\ old_next'[u] = old_next[u]
    BY DEF TypeOK
  <2> QED BY <1>1, <1>2, <2>1, <2>2, LinksRead, LinksReadNext, SameLinks
<1>5. Pushing' = Pushing
  BY DEF Pushing, TypeOK
<1>6. CountsTell(m, n)'
  BY <1>5 DEF Shape, CountsTell, Flushing, Flushed, InGc, TypeOK, Lists
<1>7. Ends(p, m, q, n)'
  BY DEF Shape, Ends, TypeOK
<1> QED BY <1>1, <1>2, <1>3, <1>4, <1>5, <1>6, <1>7 DEF Shape, FreeHead, DelayedHead

LEMMA GcEndKeeps ==
  ASSUME Safe, NEW m \in 0 .. POOL_CAPACITY, NEW n \in 0 .. POOL_CAPACITY,
         NEW p \in [1 .. m -> Slots], NEW q \in [1 .. n -> Slots], Shape(p, m, q, n),
         GcEnd
  PROVE  Safe' /\ Shape(p, m, q, n)'
<1> USE Distinct DEF GcEnd, Past, is_full_pool, Safe
<1>1. TypeOK'
  BY DEF TypeOK, Lists, Links
<1>2. Hands'
  BY DEF TypeOK, Hands, Pushing
<1>3. Protection'
  BY ThreadAssumption DEF TypeOK, Protection, InGc, Deleters
<1>4. Nexts' = Nexts
  <2>1. \A u \in Deleters : pc'[u] = "link" <=> pc[u] = "link"
    BY DEF TypeOK
  <2>2. \A u \in Deleters : pc[u] = "link" => hand'[u] = hand[u] /\ old_next'[u] = old_next[u]
    BY DEF TypeOK
  <2> QED BY <1>1, <1>2, <2>1, <2>2, LinksRead, LinksReadNext, SameLinks
<1>5. Pushing' = Pushing
  BY DEF Pushing, TypeOK
<1>6. CountsTell(m, n)'
  BY <1>5 DEF Shape, CountsTell, Flushing, Flushed, InGc, TypeOK, Lists
<1>7. Ends(p, m, q, n)'
  <2>1. fl.next = Empty <=> m = 0
    BY DEF Shape, TwoLists, Path, FreeHead
  <2>2. \A t \in Deleters : pc[t] \notin {"link", "end"}
    BY NobodyPushes DEF InGc
  <2>3. n > 0 /\ dfl.end = q[n]
    BY <2>2 DEF Shape, CountsTell, Ends, InGc
  <2> QED BY <2>1, <2>2, <2>3 DEF Shape, Ends, TypeOK, Lists
<1> QED BY <1>1, <1>2, <1>3, <1>4, <1>5, <1>6, <1>7 DEF Shape, FreeHead, DelayedHead

LEMMA GcCountKeeps ==
  ASSUME Safe, NEW m \in 0 .. POOL_CAPACITY, NEW n \in 0 .. POOL_CAPACITY,
         NEW p \in [1 .. m -> Slots], NEW q \in [1 .. n -> Slots], Shape(p, m, q, n),
         GcCount
  PROVE  Safe' /\ Shape(p, m, q, n)'
<1> USE Distinct DEF GcCount, Past, anticipated_alloc_count, Safe
<1>0. Pushing = {} /\ Cardinality(Pushing) = 0 /\ m + n <= POOL_CAPACITY
  BY NobodyPushes, Sizes, FS_EmptySet DEF InGc
<1>a. fl.count + dfl.count = POOL_CAPACITY - m - n
  BY <1>0 DEF Shape, CountsTell, Flushing, Flushed
<1>1. TypeOK'
  BY <1>0, <1>a DEF TypeOK, Lists
<1>2. Hands'
  BY DEF TypeOK, Hands, Pushing
<1>3. Protection'
  BY ThreadAssumption DEF TypeOK, Protection, InGc, Deleters
<1>4. Nexts' = Nexts
  <2>1. \A u \in Deleters : pc'[u] = "link" <=> pc[u] = "link"
    BY DEF TypeOK
  <2>2. \A u \in Deleters : pc[u] = "link" => hand'[u] = hand[u] /\ old_next'[u] = old_next[u]
    BY DEF TypeOK
  <2> QED BY <1>1, <1>2, <2>1, <2>2, LinksRead, LinksReadNext, SameLinks
<1>5. Pushing' = Pushing
  BY DEF Pushing, TypeOK
<1>6. CountsTell(m, n)'
  BY <1>0, <1>a, <1>5 DEF Shape, CountsTell, Flushing, Flushed, InGc, TypeOK, Lists
<1>7. Ends(p, m, q, n)'
  BY DEF Shape, Ends, TypeOK
<1> QED BY <1>1, <1>2, <1>3, <1>4, <1>5, <1>6, <1>7 DEF Shape, FreeHead, DelayedHead

LEMMA GcResetKeeps ==
  ASSUME Safe, NEW m \in 0 .. POOL_CAPACITY, NEW n \in 0 .. POOL_CAPACITY,
         NEW p \in [1 .. m -> Slots], NEW q \in [1 .. n -> Slots], Shape(p, m, q, n),
         GcReset
  PROVE  Safe' /\ Shape(p, m, q, n)'
<1> USE Distinct DEF GcReset, Past, Safe
<1>1. TypeOK'
  <2>1. dfl' \in Lists
    BY ListsKept DEF TypeOK
  <2> QED BY <2>1 DEF TypeOK
<1>2. Hands'
  BY DEF TypeOK, Hands, Pushing
<1>3. Protection'
  BY ThreadAssumption DEF TypeOK, Protection, InGc, Deleters
<1>4. Nexts' = Nexts
  <2>1. \A u \in Deleters : pc'[u] = "link" <=> pc[u] = "link"
    BY DEF TypeOK
  <2>2. \A u \in Deleters : pc[u] = "link" => hand'[u] = hand[u] /\ old_next'[u] = old_next[u]
    BY DEF TypeOK
  <2> QED BY <1>1, <1>2, <2>1, <2>2, LinksRead, LinksReadNext, SameLinks
<1>5. Pushing' = Pushing
  BY DEF Pushing, TypeOK
<1>6. CountsTell(m, n)'
  BY <1>5 DEF Shape, CountsTell, Flushing, Flushed, InGc, TypeOK, Lists
<1>7. Ends(p, m, q, n)'
  BY DEF Shape, Ends, TypeOK
<1> QED BY <1>1, <1>2, <1>3, <1>4, <1>5, <1>6, <1>7 DEF Shape, FreeHead, DelayedHead

LEMMA GcNextKeeps ==
  ASSUME Safe, NEW m \in 0 .. POOL_CAPACITY, NEW n \in 0 .. POOL_CAPACITY,
         NEW p \in [1 .. m -> Slots], NEW q \in [1 .. n -> Slots], Shape(p, m, q, n),
         GcNext
  PROVE  Safe' /\ Shape(p, m, q, n)'
<1> USE Distinct DEF GcNext, Past, Safe
<1>1. TypeOK'
  BY DEF TypeOK, Lists, Links
<1>2. Hands'
  BY DEF TypeOK, Hands, Pushing
<1>3. Protection'
  BY ThreadAssumption DEF TypeOK, Protection, InGc, Deleters
<1>4. Nexts' = Nexts
  <2>1. \A u \in Deleters : pc'[u] = "link" <=> pc[u] = "link"
    BY DEF TypeOK
  <2>2. \A u \in Deleters : pc[u] = "link" => hand'[u] = hand[u] /\ old_next'[u] = old_next[u]
    BY DEF TypeOK
  <2> QED BY <1>1, <1>2, <2>1, <2>2, LinksRead, LinksReadNext, SameLinks
<1>5. Pushing' = Pushing
  BY DEF Pushing, TypeOK
<1>6. CountsTell(m, n)'
  BY <1>5 DEF Shape, CountsTell, Flushing, Flushed, InGc, TypeOK, Lists
<1>7. Ends(p, m, q, n)'
  BY DEF Shape, Ends, TypeOK
<1> QED BY <1>1, <1>2, <1>3, <1>4, <1>5, <1>6, <1>7 DEF Shape, FreeHead, DelayedHead

LEMMA GcEmptyKeeps ==
  ASSUME Safe, NEW m \in 0 .. POOL_CAPACITY, NEW n \in 0 .. POOL_CAPACITY,
         NEW p \in [1 .. m -> Slots], NEW q \in [1 .. n -> Slots], Shape(p, m, q, n),
         GcEmpty
  PROVE  Safe' /\ Shape(p, m, q, n)'
<1> USE Distinct DEF GcEmpty, Past, Safe
<1>1. TypeOK'
  BY DEF TypeOK, Lists, Links
<1>2. Hands'
  BY DEF TypeOK, Hands, Pushing
<1>3. Protection'
  BY ThreadAssumption DEF TypeOK, Protection, InGc, Deleters
<1>4. Nexts' = Nexts
  <2>1. \A u \in Deleters : pc'[u] = "link" <=> pc[u] = "link"
    BY DEF TypeOK
  <2>2. \A u \in Deleters : pc[u] = "link" => hand'[u] = hand[u] /\ old_next'[u] = old_next[u]
    BY DEF TypeOK
  <2> QED BY <1>1, <1>2, <2>1, <2>2, LinksRead, LinksReadNext, SameLinks
<1>5. Pushing' = Pushing
  BY DEF Pushing, TypeOK
<1>6. CountsTell(m, n)'
  BY <1>5 DEF Shape, CountsTell, Flushing, Flushed, InGc, TypeOK, Lists
<1>7. Ends(p, m, q, n)'
  BY DEF Shape, Ends, TypeOK
<1> QED BY <1>1, <1>2, <1>3, <1>4, <1>5, <1>6, <1>7 DEF Shape, FreeHead, DelayedHead

LEMMA GcUnlockKeeps ==
  ASSUME Safe, NEW m \in 0 .. POOL_CAPACITY, NEW n \in 0 .. POOL_CAPACITY,
         NEW p \in [1 .. m -> Slots], NEW q \in [1 .. n -> Slots], Shape(p, m, q, n),
         GcUnlock
  PROVE  Safe' /\ Shape(p, m, q, n)'
<1> USE Distinct DEF GcUnlock, AfterFlush, Past, Safe
<1>1. TypeOK'
  BY DEF TypeOK
<1>2. Hands'
  BY DEF TypeOK, Hands, Pushing
<1>3. Protection'
  BY ThreadAssumption DEF TypeOK, Protection, InGc, Deleters
<1>4. Nexts' = Nexts
  <2>1. \A u \in Deleters : pc'[u] = "link" <=> pc[u] = "link"
    BY DEF TypeOK
  <2>2. \A u \in Deleters : pc[u] = "link" => hand'[u] = hand[u] /\ old_next'[u] = old_next[u]
    BY DEF TypeOK
  <2> QED BY <1>1, <1>2, <2>1, <2>2, LinksRead, LinksReadNext, SameLinks
<1>5. Pushing' = Pushing
  BY DEF Pushing, TypeOK
<1>6. CountsTell(m, n)'
  BY NobodyPushes, Sizes, <1>5 DEF Shape, CountsTell, Flushing, Flushed, InGc, TypeOK, Lists
<1>7. Ends(p, m, q, n)'
  BY DEF Shape, Ends, TypeOK
<1> QED BY <1>1, <1>2, <1>3, <1>4, <1>5, <1>6, <1>7 DEF Shape, FreeHead, DelayedHead

LEMMA TerminateKeeps ==
  ASSUME Safe, NEW m \in 0 .. POOL_CAPACITY, NEW n \in 0 .. POOL_CAPACITY,
         NEW p \in [1 .. m -> Slots], NEW q \in [1 .. n -> Slots], Shape(p, m, q, n),
         domain_termination_callback, Quiet'
  PROVE  Safe' /\ Shape(p, m, q, n)'
<1> USE Distinct DEF domain_termination_callback, OwnerIsFree, Past, Safe
<1>1. TypeOK'
  BY DEF TypeOK
<1>2. Hands'
  BY DEF TypeOK, Hands, Pushing
<1>3. Protection'
  BY ThreadAssumption DEF TypeOK, Protection, InGc, Deleters, Quiet
<1>4. Nexts' = Nexts
  <2>1. \A u \in Deleters : pc'[u] = "link" <=> pc[u] = "link"
    BY DEF TypeOK
  <2>2. \A u \in Deleters : pc[u] = "link" => hand'[u] = hand[u] /\ old_next'[u] = old_next[u]
    BY DEF TypeOK
  <2> QED BY <1>1, <1>2, <2>1, <2>2, LinksRead, LinksReadNext, SameLinks
<1>5. Pushing' = Pushing
  BY DEF Pushing, TypeOK
<1>6. CountsTell(m, n)'
  BY <1>5 DEF Shape, CountsTell, Flushing, Flushed, InGc, TypeOK, Lists
<1>7. Ends(p, m, q, n)'
  BY DEF Shape, Ends, TypeOK
<1> QED BY <1>1, <1>2, <1>3, <1>4, <1>5, <1>6, <1>7 DEF Shape, FreeHead, DelayedHead

LEMMA StopTheWorldKeeps ==
  ASSUME Safe, NEW m \in 0 .. POOL_CAPACITY, NEW n \in 0 .. POOL_CAPACITY,
         NEW p \in [1 .. m -> Slots], NEW q \in [1 .. n -> Slots], Shape(p, m, q, n),
         StopTheWorld
  PROVE  Safe' /\ Shape(p, m, q, n)'
<1> USE Distinct DEF StopTheWorld, Past, Safe
<1>1. TypeOK'
  BY DEF TypeOK
<1>2. Hands'
  BY DEF TypeOK, Hands, Pushing
<1>3. Protection'
  BY ThreadAssumption DEF TypeOK, Protection, InGc, Deleters
<1>4. Nexts' = Nexts
  <2>1. \A u \in Deleters : pc'[u] = "link" <=> pc[u] = "link"
    BY DEF TypeOK
  <2>2. \A u \in Deleters : pc[u] = "link" => hand'[u] = hand[u] /\ old_next'[u] = old_next[u]
    BY DEF TypeOK
  <2> QED BY <1>1, <1>2, <2>1, <2>2, LinksRead, LinksReadNext, SameLinks
<1>5. Pushing' = Pushing
  BY DEF Pushing, TypeOK
<1>6. CountsTell(m, n)'
  BY <1>5 DEF Shape, CountsTell, Flushing, Flushed, InGc, TypeOK, Lists
<1>7. Ends(p, m, q, n)'
  BY DEF Shape, Ends, TypeOK
<1> QED BY <1>1, <1>2, <1>3, <1>4, <1>5, <1>6, <1>7 DEF Shape, FreeHead, DelayedHead

LEMMA ScanLockKeeps ==
  ASSUME Safe, NEW m \in 0 .. POOL_CAPACITY, NEW n \in 0 .. POOL_CAPACITY,
         NEW p \in [1 .. m -> Slots], NEW q \in [1 .. n -> Slots], Shape(p, m, q, n),
         ScanLock
  PROVE  Safe' /\ Shape(p, m, q, n)'
<1> USE Distinct DEF ScanLock, Past, Safe
<1>1. TypeOK'
  BY DEF TypeOK
<1>2. Hands'
  BY DEF TypeOK, Hands, Pushing
<1>3. Protection'
  BY ThreadAssumption DEF TypeOK, Protection, InGc, Deleters
<1>4. Nexts' = Nexts
  <2>1. \A u \in Deleters : pc'[u] = "link" <=> pc[u] = "link"
    BY DEF TypeOK
  <2>2. \A u \in Deleters : pc[u] = "link" => hand'[u] = hand[u] /\ old_next'[u] = old_next[u]
    BY DEF TypeOK
  <2> QED BY <1>1, <1>2, <2>1, <2>2, LinksRead, LinksReadNext, SameLinks
<1>5. Pushing' = Pushing
  BY DEF Pushing, TypeOK
<1>6. CountsTell(m, n)'
  BY <1>5 DEF Shape, CountsTell, Flushing, Flushed, InGc, TypeOK, Lists
<1>7. Ends(p, m, q, n)'
  BY DEF Shape, Ends, TypeOK
<1> QED BY <1>1, <1>2, <1>3, <1>4, <1>5, <1>6, <1>7 DEF Shape, FreeHead, DelayedHead

LEMMA ScanUnlockKeeps ==
  ASSUME Safe, NEW m \in 0 .. POOL_CAPACITY, NEW n \in 0 .. POOL_CAPACITY,
         NEW p \in [1 .. m -> Slots], NEW q \in [1 .. n -> Slots], Shape(p, m, q, n),
         ScanUnlock
  PROVE  Safe' /\ Shape(p, m, q, n)'
<1> USE Distinct DEF ScanUnlock, Past, Safe
<1>1. TypeOK'
  BY DEF TypeOK
<1>2. Hands'
  BY DEF TypeOK, Hands, Pushing
<1>3. Protection'
  BY ThreadAssumption DEF TypeOK, Protection, InGc, Deleters
<1>4. Nexts' = Nexts
  <2>1. \A u \in Deleters : pc'[u] = "link" <=> pc[u] = "link"
    BY DEF TypeOK
  <2>2. \A u \in Deleters : pc[u] = "link" => hand'[u] = hand[u] /\ old_next'[u] = old_next[u]
    BY DEF TypeOK
  <2> QED BY <1>1, <1>2, <2>1, <2>2, LinksRead, LinksReadNext, SameLinks
<1>5. Pushing' = Pushing
  BY DEF Pushing, TypeOK
<1>6. CountsTell(m, n)'
  BY <1>5 DEF Shape, CountsTell, Flushing, Flushed, InGc, TypeOK, Lists
<1>7. Ends(p, m, q, n)'
  BY DEF Shape, Ends, TypeOK
<1> QED BY <1>1, <1>2, <1>3, <1>4, <1>5, <1>6, <1>7 DEF Shape, FreeHead, DelayedHead

LEMMA ResumeTheWorldKeeps ==
  ASSUME Safe, NEW m \in 0 .. POOL_CAPACITY, NEW n \in 0 .. POOL_CAPACITY,
         NEW p \in [1 .. m -> Slots], NEW q \in [1 .. n -> Slots], Shape(p, m, q, n),
         ResumeTheWorld
  PROVE  Safe' /\ Shape(p, m, q, n)'
<1> USE Distinct DEF ResumeTheWorld, Past, Safe
<1>1. TypeOK'
  BY DEF TypeOK
<1>2. Hands'
  BY DEF TypeOK, Hands, Pushing
<1>3. Protection'
  BY ThreadAssumption DEF TypeOK, Protection, InGc, Deleters
<1>4. Nexts' = Nexts
  <2>1. \A u \in Deleters : pc'[u] = "link" <=> pc[u] = "link"
    BY DEF TypeOK
  <2>2. \A u \in Deleters : pc[u] = "link" => hand'[u] = hand[u] /\ old_next'[u] = old_next[u]
    BY DEF TypeOK
  <2> QED BY <1>1, <1>2, <2>1, <2>2, LinksRead, LinksReadNext, SameLinks
<1>5. Pushing' = Pushing
  BY DEF Pushing, TypeOK
<1>6. CountsTell(m, n)'
  BY <1>5 DEF Shape, CountsTell, Flushing, Flushed, InGc, TypeOK, Lists
<1>7. Ends(p, m, q, n)'
  BY DEF Shape, Ends, TypeOK
<1> QED BY <1>1, <1>2, <1>3, <1>4, <1>5, <1>6, <1>7 DEF Shape, FreeHead, DelayedHead

LEMMA LinkKeeps ==
  ASSUME Safe, NEW m \in 0 .. POOL_CAPACITY, NEW n \in 0 .. POOL_CAPACITY,
         NEW p \in [1 .. m -> Slots], NEW q \in [1 .. n -> Slots], Shape(p, m, q, n),
         NEW t \in Deleters, Link(t)
  PROVE  Safe' /\ Shape(p, m, q, n)'
<1> USE Distinct DEF Link, Goto, Safe
<1>0. hand[t] \in Slots /\ hand[t] # Null /\ old_next[t] \in Slots \cup {Empty} /\ t \in Pushing
  BY DEF Hands, Pushing
<1>1. TypeOK'
  BY <1>0 DEF TypeOK
<1>2. Hands'
  <2>1. \A u \in Deleters : pc'[u] \in {"lock", "exchange", "link"} => u # t /\ pc[u] = pc'[u]
    BY DEF TypeOK
  <2>2. \A u \in Deleters : u # t => hand[u] # hand[t]
    BY <1>0 DEF Hands
  <2>3. \A u \in Deleters : pc'[u] \in {"lock", "exchange", "link"} => cell'[hand'[u]] = Value
    BY <2>1, <2>2 DEF Hands, TypeOK
  <2> QED BY <1>0, <2>3 DEF TypeOK, Hands, Pushing
<1>3. Protection'
  BY <1>0, ThreadAssumption DEF TypeOK, Protection, InGc, Deleters, Pushing
<1>4. Nexts' = Nexts
  <2>1. LinksAre /\ LinksAre'
    BY <1>1, <1>2, LinksRead, LinksReadNext
  <2>2. \A x \in Slots : Nexts'[x] = Nexts[x]
    <3> TAKE x \in Slots
    <3>1. CASE x = hand[t]
      <4>1. \A u \in Deleters : pc'[u] = "link" => hand'[u] # x
        BY <3>1, <1>0 DEF Hands, TypeOK
      <4> QED BY <2>1, <3>1, <4>1 DEF LinksAre, TypeOK
    <3>2. CASE x # hand[t] /\ \E u \in Deleters : pc[u] = "link" /\ hand[u] = x
      <4>1. PICK u \in Deleters : pc[u] = "link" /\ hand[u] = x
        BY <3>2
      <4>2. pc'[u] = "link" /\ hand'[u] = x
        BY <3>2, <4>1 DEF TypeOK
      <4> QED BY <2>1, <4>1, <4>2 DEF LinksAre
    <3>3. CASE x # hand[t] /\ \A u \in Deleters : pc[u] = "link" => hand[u] # x
      <4>1. \A u \in Deleters : pc'[u] = "link" => hand'[u] # x
        BY <3>3 DEF TypeOK
      <4> QED BY <2>1, <3>3, <4>1 DEF LinksAre, TypeOK
    <3> QED BY <3>1, <3>2, <3>3
  <2> QED BY <2>1, <2>2 DEF LinksAre
<1>5. Pushing' = Pushing
  BY DEF Pushing, TypeOK
<1>6. CountsTell(m, n)'
  BY <1>5 DEF Shape, CountsTell, Flushing, Flushed, InGc, TypeOK
<1>7. Ends(p, m, q, n)'
  BY DEF Shape, Ends, TypeOK
<1> QED BY <1>1, <1>2, <1>3, <1>4, <1>5, <1>6, <1>7 DEF Shape, FreeHead, DelayedHead

LEMMA DecrKeeps ==
  ASSUME Safe, NEW m \in 0 .. POOL_CAPACITY, NEW n \in 0 .. POOL_CAPACITY,
         NEW p \in [1 .. m -> Slots], NEW q \in [1 .. n -> Slots], Shape(p, m, q, n),
         NEW t \in Deleters, Decr(t)
  PROVE  Safe' /\ Shape(p, m, q, n)'
<1> USE Distinct DEF Decr, Goto, Safe
<1>0. t \in Pushing /\ at \notin InGc \ {"gc", "lock"}
  BY NobodyPushes DEF Pushing
<1>5. Pushing' = Pushing \ {t}
  BY DEF Pushing, TypeOK
<1>6. CountsTell(m, n)' /\ dfl.count - 1 \in -POOL_CAPACITY .. POOL_CAPACITY
  <2>1. /\ Cardinality(Pushing') = Cardinality(Pushing) - 1
        /\ Cardinality(Pushing) \in Nat /\ Cardinality(Pushing) <= n
    BY <1>0, <1>5, Sizes, FS_RemoveElement
  <2>2. Cardinality(Pushing') \in Nat
    BY <1>0, <1>5, Sizes, FS_RemoveElement, FS_CardinalityType
  <2>3. dfl.count = Cardinality(Pushing) - n
    BY <1>0 DEF Shape, CountsTell, Flushed, InGc
  <2>4. dfl'.count = dfl.count - 1 /\ fl' = fl /\ at' = at
    BY DEF TypeOK, Lists
  <2>5. ~ Flushing /\ ~ Flushed /\ ~ Flushing' /\ ~ Flushed'
    BY <1>0, <2>4 DEF Flushing, Flushed, InGc
  <2> QED BY <2>1, <2>2, <2>3, <2>4, <2>5 DEF Shape, CountsTell
<1>1. TypeOK'
  <2>1. dfl' \in Lists
    BY <1>6, ListsKept DEF TypeOK
  <2> QED BY <2>1 DEF TypeOK, Links
<1>2. Hands'
  BY DEF TypeOK, Hands, Pushing
<1>3. Protection'
  BY <1>0, ThreadAssumption DEF TypeOK, Protection, InGc, Deleters
<1>4. Nexts' = Nexts
  <2>1. \A u \in Deleters : pc'[u] = "link" <=> pc[u] = "link"
    BY DEF TypeOK
  <2>2. \A u \in Deleters : pc[u] = "link" => hand'[u] = hand[u] /\ old_next'[u] = old_next[u]
    BY DEF TypeOK
  <2> QED BY <1>1, <1>2, <2>1, <2>2, LinksRead, LinksReadNext, SameLinks
<1>7. Ends(p, m, q, n)'
  BY DEF Shape, Ends, TypeOK, Lists
<1>8. \A u \in Pushing' : On(hand'[u], q, n)
  BY <1>5 DEF Shape, TypeOK, Pushing
<1> QED BY <1>1, <1>2, <1>3, <1>4, <1>6, <1>7, <1>8 DEF Shape, FreeHead, DelayedHead, TypeOK, Lists

LEMMA EmptyPoolGcKeeps ==
  ASSUME Safe, NEW m \in 0 .. POOL_CAPACITY, NEW n \in 0 .. POOL_CAPACITY,
         NEW p \in [1 .. m -> Slots], NEW q \in [1 .. n -> Slots], Shape(p, m, q, n),
         try_gc_and_reclassify_one_pool_no_stw
  PROVE  Safe' /\ Shape(p, m, q, n)'
<1> USE Distinct DEF try_gc_and_reclassify_one_pool_no_stw, OwnerIsFree, Past, Safe
<1>0. /\ \A t \in Deleters : pc[t] \in {"idle", "unlock"}
      /\ \A s \in Slots : cell[s] # Value
  <2>1. Cardinality(Pushing) + Cardinality(InUse) = 0
    BY Sizes DEF Shape, CountsTell, Flushing, Flushed, anticipated_alloc_count
  <2>2. IsFiniteSet(InUse) /\ Cardinality(InUse) \in Nat
    <3>1. IsFiniteSet(Slots) /\ InUse \in SUBSET Slots
      BY CapacityAssumption, FS_Interval DEF Slots, InUse
    <3> QED BY <3>1, FS_Subset, FS_CardinalityType
  <2>3. Pushing = {} /\ InUse = {}
    BY <2>1, <2>2, Sizes, FS_EmptySet
  <2>4. \A s \in Slots : cell[s] # Value
    <3>1. \A s \in Slots : Nexts[s] = cell[s] /\ Nexts[s] # Value
      BY <2>3, LinksRead DEF LinksAre, Pushing, InUse, Nexts
    <3> QED BY <3>1
  <2> QED BY <2>3, <2>4 DEF Hands, TypeOK, Pushing
<1>1. TypeOK'
  BY DEF TypeOK
<1>2. Hands'
  BY DEF TypeOK, Hands, Pushing
<1>3. Protection'
  BY <1>0, ThreadAssumption DEF TypeOK, Protection, InGc, Deleters
<1>4. Nexts' = Nexts
  <2>1. \A u \in Deleters : pc'[u] = "link" <=> pc[u] = "link"
    BY DEF TypeOK
  <2>2. \A u \in Deleters : pc[u] = "link" => hand'[u] = hand[u] /\ old_next'[u] = old_next[u]
    BY DEF TypeOK
  <2> QED BY <1>1, <1>2, <2>1, <2>2, LinksRead, LinksReadNext, SameLinks
<1>5. Pushing' = Pushing
  BY DEF Pushing, TypeOK
<1>6. CountsTell(m, n)'
  BY <1>5 DEF Shape, CountsTell, Flushing, Flushed, InGc, TypeOK
<1>7. Ends(p, m, q, n)'
  BY DEF Shape, Ends, TypeOK
<1> QED BY <1>1, <1>2, <1>3, <1>4, <1>5, <1>6, <1>7 DEF Shape, FreeHead, DelayedHead

-----------------------------------------------------------------------------
(* The steps that change a list.                                           *)

\* The owner writes a cell that nobody is linking.
LEMMA OwnerWrites ==
  ASSUME LinksAre, LinksAre', UNCHANGED <<pc, hand, old_next>>, cell \in [Slots -> Slots \cup {Empty, Value}],
         NEW x \in Slots, NEW w, cell' = [cell EXCEPT ![x] = w],
         \A t \in Deleters : pc[t] = "link" => hand[t] # x
  PROVE  Nexts' = [Nexts EXCEPT ![x] = w] /\ Nexts[x] = cell[x]
<1>1. \A s \in Slots : Nexts'[s] = IF s = x THEN w ELSE Nexts[s]
  <2> TAKE s \in Slots
  <2>1. CASE s = x
    BY <2>1 DEF LinksAre
  <2>2. CASE s # x /\ \E t \in Deleters : pc[t] = "link" /\ hand[t] = s
    BY <2>2 DEF LinksAre
  <2>3. CASE s # x /\ \A t \in Deleters : pc[t] = "link" => hand[t] # s
    BY <2>3 DEF LinksAre
  <2> QED BY <2>1, <2>2, <2>3
<1> QED BY <1>1 DEF LinksAre

\* When a cell is in use, there is room for it on a list.
LEMMA RoomForOne ==
  ASSUME Safe, NEW m \in 0 .. POOL_CAPACITY, NEW n \in 0 .. POOL_CAPACITY,
         NEW p \in [1 .. m -> Slots], NEW q \in [1 .. n -> Slots], Shape(p, m, q, n),
         NEW x \in Slots, Nexts[x] = Value
  PROVE  m + n < POOL_CAPACITY
<1>1. x \in InUse /\ IsFiniteSet(InUse)
  <2>1. IsFiniteSet(Slots) /\ InUse \in SUBSET Slots
    BY CapacityAssumption, FS_Interval DEF Slots, InUse
  <2> QED BY <2>1, FS_Subset DEF InUse, Nexts
<1>2. Cardinality(InUse) # 0 /\ Cardinality(InUse) \in Nat
  BY <1>1, FS_EmptySet, FS_CardinalityType
<1>3. Cardinality(InUse) = POOL_CAPACITY - m - n
  BY Sizes
<1> QED BY <1>2, <1>3, Distinct

LEMMA CreateKeeps ==
  ASSUME Safe, NEW m \in 0 .. POOL_CAPACITY, NEW n \in 0 .. POOL_CAPACITY,
         NEW p \in [1 .. m -> Slots], NEW q \in [1 .. n -> Slots], Shape(p, m, q, n),
         boxroot_create
  PROVE  Safe' /\ Shape(Behind(p, m), m - 1, q, n)' /\ m - 1 \in 0 .. POOL_CAPACITY
         /\ Behind(p, m) \in [1 .. m - 1 -> Slots]
<1> USE Distinct DEF boxroot_create, OwnerIsFree, is_full_pool, Safe
<1>0. m > 0 /\ fl.next \in Slots /\ FreeHead = fl.next /\ On(fl.next, p, m) /\ fl.next = p[1]
  BY DEF Shape, TwoLists, Path, FreeHead, On
<1>1. cell[fl.next] # Value /\ \A t \in Deleters : pc[t] \in {"lock", "exchange", "link"} => hand[t] # fl.next
  <2>1. \A t \in Pushing : ~ On(hand[t], p, m)
    BY DEF Shape, TwoLists, Shared, Hands, Pushing
  <2>2. \A t \in Deleters : pc[t] = "link" => hand[t] # fl.next
    BY <1>0, <2>1 DEF Pushing
  <2>3. Nexts[fl.next] = cell[fl.next] /\ Nexts[fl.next] # Value
    BY <1>0, <2>2, LinksRead DEF LinksAre, Shape, TwoLists, Shared
  <2> QED BY <2>2, <2>3 DEF Hands
<1>2. m - 1 \in 0 .. POOL_CAPACITY /\ fl.count = POOL_CAPACITY - m
  BY <1>0 DEF Shape, CountsTell, Flushing
<1>3. TypeOK'
  <2>1. cell[fl.next] \in Links /\ fl.count + 1 \in -POOL_CAPACITY .. POOL_CAPACITY
    BY <1>0, <1>1, <1>2 DEF TypeOK, Links
  <2> QED BY <1>0, <2>1 DEF TypeOK, Lists
<1>4. Hands'
  BY <1>0 DEF TypeOK, Hands, Pushing
<1>5. Protection'
  BY DEF Protection, InGc
<1>6. Nexts' = [Nexts EXCEPT ![fl.next] = Value] /\ Nexts[fl.next] = cell[fl.next]
  BY <1>0, <1>1, <1>3, <1>4, LinksRead, LinksReadNext, OwnerWrites DEF TypeOK
<1> DEFINE p1 == Behind(p, m)
<1>7. /\ p1 \in [1 .. m - 1 -> Slots]
      /\ TwoLists(Slots, Value, Empty, Nexts', cell[fl.next], p1, m - 1, DelayedHead, q, n)
      /\ m > 1 => p1[m - 1] = p[m]
  <2>1. PICK h, dh, a, b : h = fl.next /\ dh = DelayedHead /\ a = Nexts /\ b = Nexts'
    OBVIOUS
  <2>2. TwoLists(Slots, Value, Empty, a, h, p, m, dh, q, n)
    BY <1>0, <2>1 DEF Shape
  <2>3. a \in [Slots -> Slots \cup {Empty, Value}]
    BY <2>1, LinksRead DEF LinksAre
  <2>4. \A x \in Slots : b[x] = IF x = h THEN Value ELSE a[x]
    BY <1>0, <1>6, <2>1, <2>3
  <2>5. m \in Nat /\ n \in Nat /\ m > 0
    BY <1>0
  <2>6. TwoLists(Slots, Value, Empty, b, a[h], p1, m - 1, dh, q, n)
    BY <2>2, <2>3, <2>4, <2>5, TakeFirst
  <2>7. p1 \in [1 .. m - 1 -> Slots] /\ (m > 1 => p1[m - 1] = p[m])
    BY DEF Behind
  <2> QED BY <1>6, <2>1, <2>6, <2>7
<1> HIDE DEF p1
<1>8. Pushing' = Pushing /\ FreeHead' = cell[fl.next] /\ DelayedHead' = DelayedHead
  BY DEF Pushing, FreeHead, DelayedHead, TypeOK, Lists
<1>9. CountsTell(m - 1, n)'
  BY <1>0, <1>8 DEF Shape, CountsTell, Flushing, Flushed, InGc, TypeOK, Lists
<1>10. Ends(p1, m - 1, q, n)'
  BY <1>7 DEF Shape, Ends, TypeOK, Lists
<1>11. Shape(p1, m - 1, q, n)'
  BY <1>7, <1>8, <1>9, <1>10 DEF Shape
<1> QED BY <1>2, <1>3, <1>4, <1>5, <1>7, <1>11 DEF p1

LEMMA FreeSlotKeeps ==
  ASSUME Safe, NEW m \in 0 .. POOL_CAPACITY, NEW n \in 0 .. POOL_CAPACITY,
         NEW p \in [1 .. m -> Slots], NEW q \in [1 .. n -> Slots], Shape(p, m, q, n),
         NEW x \in Slots, bxr_free_slot(x)
  PROVE  Safe' /\ Shape(Ahead(x, p, m), m + 1, q, n)' /\ m + 1 \in 0 .. POOL_CAPACITY
         /\ Ahead(x, p, m) \in [1 .. m + 1 -> Slots]
<1> USE Distinct DEF bxr_free_slot, OwnerIsFree, is_full_pool, Deletable, Safe
<1>0. fl.next = Empty <=> m = 0
  BY DEF Shape, TwoLists, Path, FreeHead
<1>1. FreeHead = fl.next /\ fl.next \in Slots \cup {Empty}
  BY DEF FreeHead, Shape, TwoLists, Path
<1>2. Nexts[x] = Value
  BY LinksRead DEF LinksAre
<1>3. m + 1 \in 0 .. POOL_CAPACITY /\ fl.count = POOL_CAPACITY - m
  <2>1. m + n < POOL_CAPACITY
    BY <1>2, RoomForOne, ZenonT(40)
  <2>2. fl.count = POOL_CAPACITY - m
    BY DEF Shape, CountsTell, Flushing
  <2> QED BY <2>1, <2>2
<1>4. TypeOK'
  BY <1>1, <1>3 DEF TypeOK, Lists, Links
<1>5. Hands'
  BY DEF TypeOK, Hands, Pushing
<1>6. Protection'
  BY DEF Protection, InGc
<1>7. Nexts' = [Nexts EXCEPT ![x] = fl.next]
  BY <1>1, <1>4, <1>5, LinksRead, LinksReadNext, OwnerWrites DEF TypeOK
<1> DEFINE p1 == Ahead(x, p, m)
<1>8. /\ p1 \in [1 .. m + 1 -> Slots]
      /\ TwoLists(Slots, Value, Empty, Nexts', x, p1, m + 1, DelayedHead, q, n)
      /\ p1[m + 1] = IF m = 0 THEN x ELSE p[m]
  <2>1. PICK h, dh, a, b : h = fl.next /\ dh = DelayedHead /\ a = Nexts /\ b = Nexts'
    OBVIOUS
  <2>2. TwoLists(Slots, Value, Empty, a, h, p, m, dh, q, n) /\ a[x] = Value
    BY <1>1, <1>2, <2>1 DEF Shape
  <2>3. a \in [Slots -> Slots \cup {Empty, Value}]
    BY <2>1, LinksRead DEF LinksAre
  <2>4. \A y \in Slots : b[y] = IF y = x THEN h ELSE a[y]
    BY <1>7, <2>1, <2>3
  <2>5. m \in Nat /\ n \in Nat
    OBVIOUS
  <2>6. TwoLists(Slots, Value, Empty, b, x, p1, m + 1, dh, q, n)
    BY <2>2, <2>3, <2>4, <2>5, PutFirst
  <2>7. p1 \in [1 .. m + 1 -> Slots] /\ p1[m + 1] = IF m = 0 THEN x ELSE p[m]
    BY <2>5 DEF Ahead
  <2> QED BY <2>1, <2>6, <2>7
<1> HIDE DEF p1
<1>9. Pushing' = Pushing /\ FreeHead' = x /\ DelayedHead' = DelayedHead
  BY DEF Pushing, FreeHead, DelayedHead, TypeOK, Lists
<1>10. CountsTell(m + 1, n)'
  BY <1>3, <1>9 DEF Shape, CountsTell, Flushing, Flushed, InGc, TypeOK, Lists
<1>11. Ends(p1, m + 1, q, n)'
  BY <1>0, <1>8 DEF Shape, Ends, TypeOK, Lists
<1>12. Shape(p1, m + 1, q, n)'
  BY <1>8, <1>9, <1>10, <1>11 DEF Shape
<1> QED BY <1>3, <1>4, <1>5, <1>6, <1>8, <1>12 DEF p1

LEMMA ExchangeKeeps ==
  ASSUME Safe, NEW m \in 0 .. POOL_CAPACITY, NEW n \in 0 .. POOL_CAPACITY,
         NEW p \in [1 .. m -> Slots], NEW q \in [1 .. n -> Slots], Shape(p, m, q, n),
         NEW t \in Deleters, Exchange(t), NEW x \in Slots, x = hand[t]
  PROVE  Safe' /\ Shape(p, m, Ahead(x, q, n), n + 1)' /\ n + 1 \in 0 .. POOL_CAPACITY
         /\ Ahead(x, q, n) \in [1 .. n + 1 -> Slots]
<1> USE Distinct DEF Exchange, Goto, Safe
<1>0. at \notin InGc \ {"gc", "lock"} /\ t \notin Pushing
  BY NobodyPushes DEF Pushing
<1>1. /\ Nexts[x] = Value
      /\ \A u \in Deleters : u # t => hand[u] # x
  <2>1. x # Null
    OBVIOUS
  <2>2. \A u \in Deleters : u # t => hand[u] # x
    BY <2>1 DEF Hands
  <2>3. cell[x] = Value /\ \A u \in Deleters : pc[u] = "link" => hand[u] # x
    BY <2>2 DEF Hands
  <2> QED BY <2>2, <2>3, LinksRead DEF LinksAre
<1>2. DelayedHead = dfl.next /\ dfl.next \in Slots \cup {Empty} /\ (dfl.next = Empty <=> n = 0)
  BY <1>0 DEF DelayedHead, InGc, Shape, TwoLists, Path
<1>3. n + 1 \in 0 .. POOL_CAPACITY
  <2>1. m + n < POOL_CAPACITY
    BY <1>1, RoomForOne
  <2> QED BY <2>1
<1>4. TypeOK'
  <2>1. hand[t] \in Links /\ dfl' \in Lists
    BY ListsKept DEF TypeOK
  <2> QED BY <1>2, <2>1 DEF TypeOK, Links
<1>5. Hands'
  BY <1>2 DEF TypeOK, Hands, Pushing
<1>6. Protection'
  BY <1>0, ThreadAssumption DEF TypeOK, Protection, InGc, Deleters
<1>7. \A y \in Slots : Nexts'[y] = IF y = x THEN dfl.next ELSE Nexts[y]
  <2>1. LinksAre /\ LinksAre'
    BY <1>4, <1>5, LinksRead, LinksReadNext
  <2> TAKE y \in Slots
  <2>2. CASE y = x
    <3>1. pc'[t] = "link" /\ hand'[t] = x /\ old_next'[t] = dfl.next
      BY DEF TypeOK
    <3> QED BY <2>1, <2>2, <3>1 DEF LinksAre
  <2>3. CASE y # x /\ \E u \in Deleters : pc[u] = "link" /\ hand[u] = y
    <3>1. PICK u \in Deleters : pc[u] = "link" /\ hand[u] = y
      BY <2>3
    <3>2. pc'[u] = "link" /\ hand'[u] = y /\ old_next'[u] = old_next[u]
      BY <2>3, <3>1 DEF TypeOK
    <3> QED BY <2>1, <2>3, <3>1, <3>2 DEF LinksAre
  <2>4. CASE y # x /\ \A u \in Deleters : pc[u] = "link" => hand[u] # y
    <3>1. \A u \in Deleters : pc'[u] = "link" => hand'[u] # y
      BY <2>4 DEF TypeOK
    <3> QED BY <2>1, <2>4, <3>1 DEF LinksAre
  <2> QED BY <2>2, <2>3, <2>4
<1> DEFINE q1 == Ahead(x, q, n)
<1>8. /\ q1 \in [1 .. n + 1 -> Slots]
      /\ TwoLists(Slots, Value, Empty, Nexts', FreeHead, p, m, x, q1, n + 1)
      /\ q1[n + 1] = IF n = 0 THEN x ELSE q[n]
      /\ \A y \in Slots : On(y, q1, n + 1) <=> y = x \/ On(y, q, n)
  <2>1. PICK h, fh, a, b : h = dfl.next /\ fh = FreeHead /\ a = Nexts /\ b = Nexts'
    OBVIOUS
  <2>2. TwoLists(Slots, Value, Empty, a, h, q, n, fh, p, m) /\ a[x] = Value
    BY <1>1, <1>2, <2>1, TwoListsSym DEF Shape
  <2>3. a \in [Slots -> Slots \cup {Empty, Value}]
    BY <2>1, LinksRead DEF LinksAre
  <2>4. \A y \in Slots : b[y] = IF y = x THEN h ELSE a[y]
    BY <1>7, <2>1
  <2>5. m \in Nat /\ n \in Nat
    OBVIOUS
  <2>6. TwoLists(Slots, Value, Empty, b, x, q1, n + 1, fh, p, m)
    BY <2>2, <2>3, <2>4, <2>5, PutFirst, SMTT(30)
  <2>7. q1 \in [1 .. n + 1 -> Slots] /\ q1[n + 1] = IF n = 0 THEN x ELSE q[n]
    BY <2>5 DEF Ahead
  <2>8. \A y \in Slots : On(y, q1, n + 1) <=> y = x \/ On(y, q, n)
    BY <2>5, AheadOn
  <2> QED BY <2>1, <2>6, <2>7, <2>8, TwoListsSym
<1> HIDE DEF q1
<1>9. Pushing' = Pushing \cup {t} /\ FreeHead' = FreeHead /\ DelayedHead' = x
  BY <1>0 DEF Pushing, FreeHead, DelayedHead, TypeOK, Lists, InGc
<1>10. CountsTell(m, n + 1)'
  <2>1. Cardinality(Pushing') = Cardinality(Pushing) + 1 /\ Cardinality(Pushing) \in Nat
    BY <1>0, <1>9, Sizes, FS_AddElement
  <2>2. dfl'.count = dfl.count /\ fl' = fl /\ at' = at
    BY DEF TypeOK, Lists
  <2>3. ~ Flushing /\ ~ Flushed /\ ~ Flushing' /\ ~ Flushed'
    BY <1>0, <2>2 DEF Flushing, Flushed, InGc
  <2> QED BY <2>1, <2>2, <2>3 DEF Shape, CountsTell
<1>11. Ends(p, m, q1, n + 1)'
  <2>1. \A u \in Deleters : u # t => pc'[u] = pc[u] /\ hand'[u] = hand[u] /\ old_next'[u] = old_next[u]
    BY DEF TypeOK
  <2>2. pc'[t] = "link" /\ hand'[t] = x /\ old_next'[t] = dfl.next
    BY DEF TypeOK
  <2>3. fl' = fl /\ dfl'.end = dfl.end /\ at' = at
    BY DEF TypeOK, Lists
  <2>4. \A u \in Deleters : u # t /\ pc'[u] \in {"link", "end"} /\ old_next'[u] = Empty => hand'[u] = q1[n + 1]
    <3> SUFFICES ASSUME NEW u \in Deleters, u # t, pc'[u] \in {"link", "end"}, old_next'[u] = Empty
                 PROVE  hand'[u] = q1[n + 1]
      OBVIOUS
    <3>1. u \in Pushing /\ hand[u] = q[n]
      BY <2>1 DEF Shape, Ends, Pushing
    <3>2. n > 0
      BY <3>1 DEF Shape, On
    <3> QED BY <1>8, <2>1, <3>1, <3>2
  <2>5. hand'[t] = q1[n + 1] \/ old_next'[t] # Empty
    BY <1>2, <1>8, <2>2
  <2>6. ASSUME \A u \in Deleters : pc'[u] \in {"link", "end"} => old_next'[u] # Empty
        PROVE  dfl'.end = q1[n + 1]
    <3>1. n > 0
      BY <1>2, <2>2, <2>6
    <3>2. \A u \in Deleters : pc[u] \in {"link", "end"} => old_next[u] # Empty
      BY <2>1, <2>6, <1>0 DEF Pushing
    <3> QED BY <1>8, <2>3, <3>1, <3>2 DEF Shape, Ends
  <2> QED BY <1>0, <2>2, <2>3, <2>4, <2>5, <2>6 DEF Shape, Ends, InGc
<1>12. \A u \in Pushing' : On(hand'[u], q1, n + 1)
  BY <1>8, <1>9 DEF Shape, Hands, Pushing
<1>13. Shape(p, m, q1, n + 1)'
  BY <1>0, <1>8, <1>9, <1>10, <1>11, <1>12 DEF Shape, InGc
<1> QED BY <1>3, <1>4, <1>5, <1>6, <1>8, <1>13 DEF q1

LEMMA GcLinkKeeps ==
  ASSUME Safe, NEW m \in 0 .. POOL_CAPACITY, NEW n \in 0 .. POOL_CAPACITY,
         NEW p \in [1 .. m -> Slots], NEW q \in [1 .. n -> Slots], Shape(p, m, q, n),
         GcLink
  PROVE  Safe' /\ Shape(Joined(q, n, p, m), m + n, << >>, 0)' /\ m + n \in 0 .. POOL_CAPACITY
         /\ Joined(q, n, p, m) \in [1 .. m + n -> Slots]
<1> USE Distinct DEF GcLink, Past, Safe
<1>0. Pushing = {} /\ \A t \in Deleters : pc[t] \notin {"exchange", "link", "end", "decr"}
  BY NobodyPushes DEF InGc
<1>1. n > 0 /\ dfl.end = q[n] /\ dfl.next = Empty /\ FreeHead = list /\ DelayedHead = fl.next
  BY <1>0 DEF Shape, CountsTell, Ends, InGc, FreeHead, DelayedHead
<1>2. q[n] \in Slots /\ cell[q[n]] # Value /\ list \in Slots \cup {Empty}
  <2>1. q[n] \in Slots /\ On(q[n], q, n)
    BY <1>1 DEF On
  <2>2. Nexts[q[n]] = cell[q[n]]
    BY <1>0, <2>1, LinksRead DEF LinksAre
  <2> QED BY <1>1, <2>1, <2>2 DEF Shape, TwoLists, Shared, Path
<1>3. TypeOK'
  BY <1>2 DEF TypeOK, Links
<1>4. Hands'
  BY <1>0, <1>1, <1>2 DEF TypeOK, Hands, Pushing
<1>5. Protection'
  BY <1>0, <1>1, <1>2, ThreadAssumption DEF Protection, InGc, TypeOK, Deleters
<1>6. \A y \in Slots : Nexts'[y] = IF y = q[n] THEN list ELSE Nexts[y]
  BY <1>0, <1>1, <1>3, <1>4, LinksRead, LinksReadNext DEF LinksAre
<1> DEFINE p1 == Joined(q, n, p, m)
<1>7. TwoLists(Slots, Value, Empty, Nexts', fl.next, p1, m + n, Empty, << >>, 0)
  <2>1. PICK h, dh, a, b : h = list /\ dh = fl.next /\ a = Nexts /\ b = Nexts'
    OBVIOUS
  <2>2. TwoLists(Slots, Value, Empty, a, h, p, m, dh, q, n)
    BY <1>1, <2>1 DEF Shape
  <2>3. a \in [Slots -> Slots \cup {Empty, Value}]
    BY <2>1, LinksRead DEF LinksAre
  <2>4. \A y \in Slots : b[y] = IF y = q[n] THEN h ELSE a[y]
    BY <1>6, <2>1
  <2>5. m \in Nat /\ n \in Nat /\ n > 0
    BY <1>1
  <2>6. TwoLists(Slots, Value, Empty, b, dh, p1, m + n, Empty, << >>, 0)
    BY <2>2, <2>3, <2>4, <2>5, JoinLists, SMTT(30)
  <2> QED BY <2>1, <2>6
<1>8. p1 \in [1 .. m + n -> Slots] /\ p1[m + n] = IF m = 0 THEN q[n] ELSE p[m]
  BY <1>1 DEF Joined
<1>9. << >> \in [1 .. 0 -> Slots] /\ m + n \in 0 .. POOL_CAPACITY /\ 0 \in 0 .. POOL_CAPACITY
  BY Sizes
<1> HIDE DEF p1
<1>10. Pushing' = {} /\ FreeHead' = fl.next /\ DelayedHead' = Empty /\ at' = "unlock"
  BY <1>0, <1>1 DEF Pushing, FreeHead, DelayedHead
<1>11. CountsTell(m + n, 0)'
  BY <1>0, <1>10, FS_EmptySet DEF Shape, CountsTell, Flushing, Flushed, InGc, TypeOK, Lists
<1>12. Ends(p1, m + n, << >>, 0)'
  BY <1>0, <1>1, <1>8 DEF Shape, Ends
<1>13. Shape(p1, m + n, << >>, 0)'
  BY <1>7, <1>10, <1>11, <1>12 DEF Shape
<1> QED BY <1>3, <1>4, <1>5, <1>8, <1>9, <1>13 DEF p1

-----------------------------------------------------------------------------
(* The invariant.                                                          *)

LEMMA InitInv == Init => DInv
<1> SUFFICES ASSUME Init PROVE DInv
  OBVIOUS
<1> USE Distinct
<1>1. TypeOK
  <2>1. /\ 1 \in Slots /\ POOL_CAPACITY \in Slots /\ 0 \in -POOL_CAPACITY .. POOL_CAPACITY
        /\ \A s \in Slots : s # POOL_CAPACITY => s + 1 \in Slots
    BY DEF Slots
  <2> QED BY <2>1 DEF Init, TypeOK, Lists, Links
<1>2. Hands /\ Protection
  BY ThreadAssumption DEF Init, Hands, Protection, Pushing, InGc, Deleters
<1> DEFINE p == [i \in 1 .. POOL_CAPACITY |-> i]
<1>3. Nexts \in [Slots -> Slots \cup {Empty, Value}] /\ \A s \in Slots : Nexts[s] = cell[s]
  BY <1>1, <1>2, LinksRead DEF LinksAre, Init
<1>4. /\ p \in [1 .. POOL_CAPACITY -> Slots] /\ << >> \in [1 .. 0 -> Slots]
      /\ \A s \in Slots : On(s, p, POOL_CAPACITY) /\ ~ On(s, << >>, 0)
  BY DEF Slots, On
<1>5. Path(Nexts, Empty, 1, p, POOL_CAPACITY)
  <2>1. 1 \in 1 .. POOL_CAPACITY
    OBVIOUS
  <2>2. \A i \in 1 .. POOL_CAPACITY : Nexts[i] = IF i = POOL_CAPACITY THEN Empty ELSE i + 1
    BY <1>3 DEF Init, Slots
  <2> QED BY <2>1, <2>2 DEF Path
<1>6. Path(Nexts, Empty, Empty, << >>, 0)
  BY DEF Path
<1>7. Shared(Slots, Value, Nexts, p, POOL_CAPACITY, << >>, 0)
  <2>1. \A s \in Slots : cell[s] # Value
    BY DEF Init, Slots
  <2> HIDE DEF p
  <2> QED BY <1>3, <1>4, <2>1 DEF Shared
<1>8. FreeHead = 1 /\ DelayedHead = Empty /\ Pushing = {}
  BY DEF Init, FreeHead, DelayedHead, Pushing
<1>9. CountsTell(POOL_CAPACITY, 0)
  BY <1>8, FS_EmptySet DEF Init, CountsTell, Flushing, Flushed, InGc
<1>10. Ends(p, POOL_CAPACITY, << >>, 0)
  BY DEF Init, Ends
<1>11. Shape(p, POOL_CAPACITY, << >>, 0)
  <2> HIDE DEF p
  <2> QED BY <1>5, <1>6, <1>7, <1>8, <1>9, <1>10 DEF Shape, TwoLists, Init
<1>12. POOL_CAPACITY \in 0 .. POOL_CAPACITY /\ 0 \in 0 .. POOL_CAPACITY
  OBVIOUS
<1> HIDE DEF p
<1> QED BY <1>1, <1>2, <1>4, <1>11, <1>12 DEF DInv

\* Every step that leads to a quiet state keeps the invariant.
LEMMA NextInv ==
  ASSUME DInv, [Next]_vars, Quiet'
  PROVE  DInv'
<1>1. Safe
  BY DEF DInv, Safe
<1>2. PICK m \in 0 .. POOL_CAPACITY, n \in 0 .. POOL_CAPACITY :
        \E p \in [1 .. m -> Slots], q \in [1 .. n -> Slots] : Shape(p, m, q, n)
  BY DEF DInv
<1>3. PICK p \in [1 .. m -> Slots], q \in [1 .. n -> Slots] : Shape(p, m, q, n)
  BY <1>2
<1>4. ASSUME Safe' /\ Shape(p, m, q, n)' PROVE DInv'
  BY <1>4 DEF DInv, Safe
<1>5. CASE boxroot_create
  <2>1. /\ Safe' /\ Shape(Behind(p, m), m - 1, q, n)' /\ m - 1 \in 0 .. POOL_CAPACITY
        /\ Behind(p, m) \in [1 .. m - 1 -> Slots]
    BY <1>1, <1>3, <1>5, CreateKeeps
  <2> QED BY <2>1 DEF DInv, Safe
<1>6. ASSUME NEW s \in Slots, bxr_free_slot(s) PROVE DInv'
  <2>1. /\ Safe' /\ Shape(Ahead(s, p, m), m + 1, q, n)' /\ m + 1 \in 0 .. POOL_CAPACITY
        /\ Ahead(s, p, m) \in [1 .. m + 1 -> Slots]
    BY <1>1, <1>3, <1>6, FreeSlotKeeps
  <2> QED BY <2>1 DEF DInv, Safe
<1>7. ASSUME NEW t \in Deleters, NEW s \in Slots, bxr_delete_slow(t, s) PROVE DInv'
  BY <1>1, <1>3, <1>4, <1>7, DeleteKeeps
<1>8. ASSUME NEW t \in Deleters, DeleterStep(t) PROVE DInv'
  <2>1. CASE LockPool(t)
    BY <1>1, <1>3, <1>4, <2>1, LockPoolKeeps
  <2>2. CASE Exchange(t)
    <3>1. PICK x \in Slots : x = hand[t]
      BY <1>1, <2>2 DEF Safe, Hands, Exchange
    <3>2. /\ Safe' /\ Shape(p, m, Ahead(x, q, n), n + 1)' /\ n + 1 \in 0 .. POOL_CAPACITY
          /\ Ahead(x, q, n) \in [1 .. n + 1 -> Slots]
      BY <1>1, <1>3, <2>2, <3>1, ExchangeKeeps
    <3> QED BY <3>2 DEF DInv, Safe
  <2>3. CASE Link(t)
    BY <1>1, <1>3, <1>4, <2>3, LinkKeeps
  <2>4. CASE SetEnd(t)
    BY <1>1, <1>3, <1>4, <2>4, SetEndKeeps
  <2>5. CASE Decr(t)
    BY <1>1, <1>3, <1>4, <2>5, DecrKeeps
  <2>6. CASE UnlockPool(t)
    BY <1>1, <1>3, <1>4, <2>6, UnlockPoolKeeps
  <2> QED BY <1>8, <2>1, <2>2, <2>3, <2>4, <2>5, <2>6 DEF DeleterStep, free_slot_atomic
<1>9. CASE try_gc_and_reclassify_one_pool_no_stw
  BY <1>1, <1>3, <1>4, <1>9, EmptyPoolGcKeeps
<1>10. CASE domain_termination_callback
  BY <1>1, <1>3, <1>4, <1>10, TerminateKeeps
<1>11. CASE StopTheWorld
  BY <1>1, <1>3, <1>4, <1>11, StopTheWorldKeeps
<1>12. CASE OwnerStep
  <2>1. CASE GcRead
    BY <1>1, <1>3, <1>4, <2>1, GcReadKeeps
  <2>2. CASE GcLock
    BY <1>1, <1>3, <1>4, <2>2, GcLockKeeps
  <2>3. CASE GcEnd
    BY <1>1, <1>3, <1>4, <2>3, GcEndKeeps
  <2>4. CASE GcCount
    BY <1>1, <1>3, <1>4, <2>4, GcCountKeeps
  <2>5. CASE GcReset
    BY <1>1, <1>3, <1>4, <2>5, GcResetKeeps
  <2>6. CASE GcNext
    BY <1>1, <1>3, <1>4, <2>6, GcNextKeeps
  <2>7. CASE GcEmpty
    BY <1>1, <1>3, <1>4, <2>7, GcEmptyKeeps
  <2>8. CASE GcLink
    <3>1. /\ Safe' /\ Shape(Joined(q, n, p, m), m + n, << >>, 0)' /\ m + n \in 0 .. POOL_CAPACITY
        /\ Joined(q, n, p, m) \in [1 .. m + n -> Slots]
    BY <1>1, <1>3, <2>8, GcLinkKeeps
    <3>2. << >> \in [1 .. 0 -> Slots] /\ 0 \in 0 .. POOL_CAPACITY
      BY Distinct
    <3> QED BY <3>1, <3>2 DEF DInv, Safe
  <2>9. CASE GcUnlock
    BY <1>1, <1>3, <1>4, <2>9, GcUnlockKeeps
  <2>10. CASE ScanLock
    BY <1>1, <1>3, <1>4, <2>10, ScanLockKeeps
  <2>11. CASE ScanUnlock
    BY <1>1, <1>3, <1>4, <2>11, ScanUnlockKeeps
  <2>12. CASE ResumeTheWorld
    BY <1>1, <1>3, <1>4, <2>12, ResumeTheWorldKeeps
  <2> QED BY <1>12, <2>1, <2>2, <2>3, <2>4, <2>5, <2>6, <2>7, <2>8, <2>9, <2>10, <2>11, <2>12
        DEF OwnerStep, gc_pool
<1>13. CASE UNCHANGED vars
  <2>1. Safe'
    BY <1>1, <1>13 DEF vars, Safe, TypeOK, Hands, Protection, Pushing
  <2>2. Pushing' = Pushing
    BY <1>13 DEF vars, Pushing
  <2>3. Nexts' = Nexts
    BY <1>13 DEF vars, Nexts, NextOf
  <2>4. CountsTell(m, n)' /\ Ends(p, m, q, n)'
    BY <1>3, <1>13, <2>2 DEF vars, Shape, CountsTell, Ends, Flushing, Flushed
  <2> QED BY <1>3, <1>4, <1>13, <2>1, <2>2, <2>3, <2>4 DEF vars, Shape, FreeHead, DelayedHead
<1> QED BY <1>5, <1>6, <1>7, <1>8, <1>9, <1>10, <1>11, <1>12, <1>13
        DEF Next, AnyTime, RemoteDelete, Deleters

LEMMA ListsInvariance == Spec /\ []Quiet => []DInv
<1>1. DInv /\ [Next]_vars /\ Quiet' => DInv'
  BY NextInv
<1> QED BY <1>1, InitInv, PTL DEF Spec

\* What a run with QuietSpec checks is what the theorems are about: the steps
\* of QuietSpec are steps of the program, and all its states are quiet.
THEOREM QuietRuns == QuietSpec => Spec /\ []Quiet
<1>1. Init => Quiet
  BY DEF Init, Quiet
<1>2. ASSUME Quiet, AnyTime PROVE Quiet'
  <2> USE DEF Quiet
  <2>1. CASE boxroot_create \/ \E s \in Slots : bxr_free_slot(s)
    BY <1>2, <2>1 DEF boxroot_create, bxr_free_slot
  <2>2. ASSUME NEW t \in NoLocks, NEW s \in Slots, bxr_delete_slow(t, s) PROVE Quiet'
    BY <1>2, <2>2, ThreadAssumption DEF bxr_delete_slow, Goto
  <2>3. ASSUME NEW t \in Deleters, DeleterStep(t) PROVE Quiet'
    <3>1. /\ pc[t] # "idle" /\ UNCHANGED <<at, stw, orphaned>>
          /\ \E l : pc' = [pc EXCEPT ![t] = l]
      BY <2>3 DEF DeleterStep, free_slot_atomic, LockPool, Exchange, Link, SetEnd, Decr,
                  UnlockPool, Goto
    <3> QED BY <1>2, <3>1
  <2>4. CASE try_gc_and_reclassify_one_pool_no_stw \/ StopTheWorld
    BY <2>4 DEF try_gc_and_reclassify_one_pool_no_stw, StopTheWorld, OwnerIsFree
  <2>5. CASE OwnerStep
    <3>1. /\ at # "idle" /\ pc' = pc
          /\ at' # "idle" => stw' = stw /\ (orphaned' => orphaned)
      BY <2>5 DEF OwnerStep, gc_pool, GcRead, GcLock, GcEnd, GcCount, GcReset, GcNext,
         GcEmpty, GcLink, GcUnlock, ScanLock, ScanUnlock, ResumeTheWorld, AfterFlush, Past
    <3> QED BY <1>2, <3>1
  <2> QED BY <1>2, <2>1, <2>2, <2>3, <2>4, <2>5 DEF AnyTime
<1>3. Quiet /\ [QuietNext]_vars => Quiet' /\ [Next]_vars
  <2>1. CASE UNCHANGED vars
    BY <2>1 DEF vars, Quiet
  <2> QED BY <1>2, <2>1 DEF QuietNext, Next
<1> QED BY <1>1, <1>3, PTL DEF QuietSpec, Spec

-----------------------------------------------------------------------------
(* The lists as the properties read them.                                  *)

\* The addresses met along a path are its cells.
LEMMA PathIsList ==
  ASSUME NEW h, NEW n \in 0 .. POOL_CAPACITY, NEW p \in [1 .. n -> Slots],
         Path(Nexts, Empty, h, p, n)
  PROVE  Reach(h) = Cells(Slots, p, n) /\ IsList(h, n)
<1> DEFINE F(c) == [k \in 0 .. POOL_CAPACITY |->
                      IF k = 0 THEN h
                      ELSE IF c[k - 1] \in Slots THEN NextOf(c[k - 1]) ELSE c[k - 1]]
           g == [k \in 0 .. POOL_CAPACITY |-> IF k < n THEN p[k + 1] ELSE Empty]
<1>1. \A x : (IF x \in Slots THEN NextOf(x) ELSE x) = Step(Slots, Nexts, x)
  BY DEF Step, Nexts
<1>2. Walks(Slots, Nexts, h, POOL_CAPACITY, g)
  <2>1. PICK nx, f : nx = Nexts /\ f = g
    OBVIOUS
  <2>2. Path(nx, Empty, h, p, n) /\ n \in Nat /\ n <= POOL_CAPACITY
    BY <2>1
  <2>3. Follows(p, n, Empty, POOL_CAPACITY, f)
    BY <2>1 DEF Follows
  <2> HIDE DEF g
  <2>4. Walks(Slots, nx, h, POOL_CAPACITY, f)
    BY <2>2, <2>3, Distinct, WalkAlongPath
  <2> QED BY <2>1, <2>4
<1>3. g = F(g)
  BY <1>1, <1>2 DEF Walks
<1>4. Follow(h) = CHOOSE c : c = F(c)
  BY DEF Follow
<1>5. Follow(h) = F(Follow(h))
  <2> HIDE DEF F, g
  <2> QED BY <1>3, <1>4, Zenon
<1>6. \A k \in 0 .. POOL_CAPACITY : Follow(h)[k] = g[k]
  <2>1. PICK w, nx, f : w = Follow(h) /\ nx = Nexts /\ f = g
    OBVIOUS
  <2>2. Walks(Slots, nx, h, POOL_CAPACITY, w)
    <3>1. w = F(w)
      BY <1>5, <2>1
    <3> QED BY <1>1, <2>1, <3>1 DEF Walks
  <2>3. Walks(Slots, nx, h, POOL_CAPACITY, f)
    BY <1>2, <2>1
  <2> HIDE DEF g, F
  <2>4. \A k \in 0 .. POOL_CAPACITY : w[k] = f[k]
    BY <2>2, <2>3, Distinct, WalkIsUnique
  <2> QED BY <2>1, <2>4
<1>7. Reach(h) = Cells(Slots, p, n)
  <2>1. \A x \in Slots : x \in Reach(h) <=> \E k \in 0 .. POOL_CAPACITY : g[k] = x
    <3> HIDE DEF g
    <3> QED BY <1>6 DEF Reach
  <2>2. \A x \in Slots : (\E k \in 0 .. POOL_CAPACITY : g[k] = x) <=> On(x, p, n)
    <3> TAKE x \in Slots
    <3>1. ASSUME NEW k \in 0 .. POOL_CAPACITY, g[k] = x PROVE On(x, p, n)
      BY <3>1, Distinct DEF On
    <3>2. ASSUME NEW i \in 1 .. n, p[i] = x PROVE g[i - 1] = x /\ i - 1 \in 0 .. POOL_CAPACITY
      <4>1. i - 1 \in 0 .. POOL_CAPACITY /\ i - 1 < n /\ (i - 1) + 1 = i
        BY Distinct
      <4> QED BY <3>2, <4>1
    <3> HIDE DEF g
    <3> QED BY <3>1, <3>2 DEF On
  <2>3. \A x \in Reach(h) : x \in Slots
    BY DEF Reach
  <2> HIDE DEF g
  <2> QED BY <2>1, <2>2, <2>3 DEF Cells
<1>8. Cardinality(Cells(Slots, p, n)) = n
  <2>1. n \in Nat /\ \A i, j \in 1 .. n : p[i] = p[j] => i = j
    BY DEF Path
  <2> QED BY <2>1, RangeSize
<1>9. Follow(h)[n] = Empty
  BY <1>6
<1> QED BY <1>7, <1>8, <1>9 DEF IsList

-----------------------------------------------------------------------------
(* Safety.                                                                 *)

\* While the flush does not write, the heads and the counts are those of the
\* lists.
LEMMA QuietLists ==
  ASSUME DInv, ~ Flushing
  PROVE  \E m, n \in 0 .. POOL_CAPACITY :
           \E p \in [1 .. m -> Slots], q \in [1 .. n -> Slots] :
             /\ Shape(p, m, q, n)
             /\ Path(Nexts, Empty, fl.next, p, m) /\ Path(Nexts, Empty, dfl.next, q, n)
             /\ fl.count = POOL_CAPACITY - m /\ dfl.count = Cardinality(Pushing) - n
             /\ Cardinality(Pushing) \in Nat
             /\ Cardinality(InUse) = POOL_CAPACITY - m - n
<1>1. PICK m \in 0 .. POOL_CAPACITY, n \in 0 .. POOL_CAPACITY :
        \E p \in [1 .. m -> Slots], q \in [1 .. n -> Slots] : Shape(p, m, q, n)
  BY DEF DInv
<1>2. PICK p \in [1 .. m -> Slots], q \in [1 .. n -> Slots] : Shape(p, m, q, n)
  BY <1>1
<1>3. FreeHead = fl.next /\ DelayedHead = dfl.next /\ ~ Flushed
  BY DEF FreeHead, DelayedHead, Flushing, Flushed
<1>4. Path(Nexts, Empty, fl.next, p, m) /\ Path(Nexts, Empty, dfl.next, q, n)
  BY <1>2, <1>3 DEF Shape, TwoLists
<1>5. fl.count = POOL_CAPACITY - m /\ dfl.count = Cardinality(Pushing) - n
  BY <1>2, <1>3, Distinct DEF Shape, CountsTell
<1>6. Cardinality(Pushing) \in Nat /\ Cardinality(InUse) = POOL_CAPACITY - m - n
  BY <1>2, Sizes DEF DInv, Safe
<1> QED BY <1>2, <1>4, <1>5, <1>6

\* The state is well typed and, whatever the deletions under way, each cell is
\* in use or on exactly one of two well-formed lists, whose lengths the counts
\* tell (free_slot_atomic, gc_pool). Assumed, here and below: no other domain
\* deletes while a terminating one flushes (Quiet).
THEOREM CellsAccounted == Spec /\ []Quiet => []EveryCellAccounted
<1>1. DInv => EveryCellAccounted
  <2> SUFFICES ASSUME DInv, ~ Flushing
               PROVE  /\ IsList(fl.next, POOL_CAPACITY - fl.count)
                      /\ IsList(dfl.next, Cardinality(Pushing) - dfl.count)
                      /\ Cardinality(InUse) = anticipated_alloc_count - Cardinality(Pushing)
    BY DEF DInv, EveryCellAccounted
  <2>1. PICK m \in 0 .. POOL_CAPACITY, n \in 0 .. POOL_CAPACITY :
          \E p \in [1 .. m -> Slots], q \in [1 .. n -> Slots] :
             /\ Shape(p, m, q, n)
             /\ Path(Nexts, Empty, fl.next, p, m) /\ Path(Nexts, Empty, dfl.next, q, n)
             /\ fl.count = POOL_CAPACITY - m /\ dfl.count = Cardinality(Pushing) - n
             /\ Cardinality(Pushing) \in Nat
             /\ Cardinality(InUse) = POOL_CAPACITY - m - n
    BY QuietLists
  <2>2. POOL_CAPACITY - fl.count = m /\ Cardinality(Pushing) - dfl.count = n
    BY <2>1, Distinct
  <2>3. IsList(fl.next, m) /\ IsList(dfl.next, n)
    BY <2>1, PathIsList
  <2>4. Cardinality(InUse) = anticipated_alloc_count - Cardinality(Pushing)
    BY <2>1, Distinct DEF anticipated_alloc_count
  <2> QED BY <2>2, <2>3, <2>4
<1> QED BY <1>1, ListsInvariance, PTL

\* The `end` of each list, through which gc_pool writes, is its last cell, as
\* soon as whoever found the delayed list empty has set it, if the execution is
\* always Quiet.
THEOREM EndsAreLast == Spec /\ []Quiet => []EndIsLast
<1>1. DInv => EndIsLast
  <2> SUFFICES ASSUME DInv, ~ Flushing
               PROVE  /\ fl.next # Empty => fl.end \in Reach(fl.next) /\ cell[fl.end] = Empty
                      /\ dfl.next # Empty /\ (\A t \in Pushing : old_next[t] # Empty) =>
                           dfl.end \in Reach(dfl.next) /\ NextOf(dfl.end) = Empty
    BY DEF EndIsLast
  <2>1. PICK m \in 0 .. POOL_CAPACITY, n \in 0 .. POOL_CAPACITY :
          \E p \in [1 .. m -> Slots], q \in [1 .. n -> Slots] :
             /\ Shape(p, m, q, n)
             /\ Path(Nexts, Empty, fl.next, p, m) /\ Path(Nexts, Empty, dfl.next, q, n)
    BY QuietLists
  <2>2. PICK p \in [1 .. m -> Slots], q \in [1 .. n -> Slots] :
             /\ Shape(p, m, q, n)
             /\ Path(Nexts, Empty, fl.next, p, m) /\ Path(Nexts, Empty, dfl.next, q, n)
    BY <2>1
  <2>3. Reach(fl.next) = Cells(Slots, p, m) /\ Reach(dfl.next) = Cells(Slots, q, n)
    BY <2>2, PathIsList
  <2>4. ASSUME fl.next # Empty PROVE fl.end \in Reach(fl.next) /\ cell[fl.end] = Empty
    <3>1. m > 0
      BY <2>2, <2>4 DEF Path
    <3>2. fl.end = p[m] /\ m \in 1 .. m /\ p[m] \in Slots
      BY <2>2, <3>1 DEF Shape, Ends
    <3>3. On(p[m], p, m) /\ Nexts[p[m]] = Empty
      BY <2>2, <3>2 DEF On, Path
    <3>4. \A t \in Deleters : pc[t] = "link" => hand[t] # p[m]
      BY <2>2, <3>2, <3>3 DEF Shape, TwoLists, Shared, Pushing
    <3>5. LinksAre
      BY LinksRead DEF DInv
    <3>6. cell[p[m]] = Empty
      BY <3>2, <3>3, <3>4, <3>5 DEF LinksAre
    <3> QED BY <2>3, <3>2, <3>3, <3>6 DEF Cells
  <2>5. ASSUME dfl.next # Empty, \A t \in Pushing : old_next[t] # Empty
        PROVE  dfl.end \in Reach(dfl.next) /\ NextOf(dfl.end) = Empty
    <3>1. n > 0
      BY <2>2, <2>5 DEF Path
    <3>2. dfl.end = q[n] /\ n \in 1 .. n /\ q[n] \in Slots
      BY <2>2, <2>5, <3>1 DEF Shape, Ends, Pushing
    <3>3. On(q[n], q, n) /\ Nexts[q[n]] = Empty
      BY <2>2, <3>2 DEF On, Path
    <3> QED BY <2>3, <3>2, <3>3 DEF Cells, Nexts
  <2> QED BY <2>4, <2>5
<1> QED BY <1>1, ListsInvariance, PTL

\* A domain that flushes a pool outside of a stop-the-world section, because
\* its counts are zero, owns all of its cells ("nobody can mutate the delayed_fl
\* in parallel", try_gc_and_reclassify_one_pool_no_stw): none is in use, and no
\* thread is inside free_slot_atomic. Quiet says nothing of this flush, but only
\* of an earlier one by a terminating domain.
THEOREM EmptyPoolIsOurs == Spec /\ []Quiet => []WeOwnAllTheSlots
<1>1. DInv => WeOwnAllTheSlots
  <2> SUFFICES ASSUME DInv, at # "idle", ~ stw, ~ orphaned
               PROVE  InUse = {} /\ \A t \in Deleters : hand[t] = Null
    BY DEF WeOwnAllTheSlots
  <2>1. /\ \A t \in Deleters : pc[t] \in {"idle", "unlock"}
        /\ \A s \in Slots : cell[s] # Value
    BY DEF DInv, Protection
  <2>2. LinksAre
    BY LinksRead DEF DInv
  <2>3. \A s \in Slots : NextOf(s) # Value
    BY <2>1, <2>2 DEF LinksAre, Nexts
  <2>4. \A t \in Deleters : hand[t] = Null
    BY <2>1 DEF DInv, Hands
  <2> QED BY <2>3, <2>4 DEF InUse
<1> QED BY <1>1, ListsInvariance, PTL

\* The write of gc_pool through the `end` of the delayed list leaves the values
\* of all roots as they are, if no other domain deletes while a terminating one
\* flushes: `end` is then the last of the cells that are taken.
THEOREM RootsAreKept == Spec /\ []Quiet => FlushKeepsRoots
<1>1. ASSUME DInv, GcLink, NEW s \in Slots, cell[s] = Value
      PROVE  cell'[s] = Value
  <2>1. PICK m \in 0 .. POOL_CAPACITY, n \in 0 .. POOL_CAPACITY :
          \E p \in [1 .. m -> Slots], q \in [1 .. n -> Slots] : Shape(p, m, q, n)
    BY <1>1 DEF DInv
  <2>2. PICK p \in [1 .. m -> Slots], q \in [1 .. n -> Slots] : Shape(p, m, q, n)
    BY <2>1
  <2>3. at = "link" /\ \A t \in Deleters : pc[t] \notin {"link", "end"}
    BY <1>1, NobodyPushes DEF GcLink, InGc, DInv, Safe
  <2>4. n > 0 /\ dfl.end = q[n] /\ q[n] \in Slots
    BY <2>2, <2>3 DEF Shape, CountsTell, Ends, InGc
  <2>5. Nexts[q[n]] = Empty
    BY <2>2, <2>4 DEF Shape, TwoLists, Path
  <2>6. LinksAre
    BY <1>1, LinksRead DEF DInv
  <2>7. cell[dfl.end] = Empty
    BY <2>3, <2>4, <2>5, <2>6 DEF LinksAre
  <2>8. s # dfl.end
    BY <1>1, <2>7, Distinct
  <2> QED BY <1>1, <2>8 DEF GcLink
<1>2. DInv => (GcLink => \A s \in Slots : cell[s] = Value => cell'[s] = Value)
  BY <1>1
<1> QED BY <1>2, ListsInvariance, PTL DEF FlushKeepsRoots

\* The scan stops exactly at the last value: there are as many as the counts
\* tell, whoever was deleting when the world stopped, if the execution is
\* always Quiet.
THEOREM ScanIsExact == Spec /\ []Quiet => []ScanExact
<1>1. DInv => ScanExact
  <2> SUFFICES ASSUME DInv, at = "scan"
               PROVE  /\ Cardinality({s \in Slots : cell[s] = Value}) = anticipated_alloc_count
                      /\ IsList(fl.next, POOL_CAPACITY - fl.count)
    BY DEF ScanExact
  <2>1. ~ Flushing
    BY DEF Flushing
  <2>2. PICK m \in 0 .. POOL_CAPACITY, n \in 0 .. POOL_CAPACITY :
          \E p \in [1 .. m -> Slots], q \in [1 .. n -> Slots] :
             /\ Shape(p, m, q, n)
             /\ Path(Nexts, Empty, fl.next, p, m) /\ Path(Nexts, Empty, dfl.next, q, n)
             /\ fl.count = POOL_CAPACITY - m /\ dfl.count = Cardinality(Pushing) - n
             /\ Cardinality(InUse) = POOL_CAPACITY - m - n
    BY <2>1, QuietLists
  <2>3. Pushing = {}
    BY Distinct, ThreadAssumption DEF DInv, Protection, InGc, Pushing, Deleters
  <2>4. LinksAre
    BY LinksRead DEF DInv
  <2>5. \A s \in Slots : NextOf(s) = cell[s]
    BY <2>3, <2>4 DEF LinksAre, Pushing, Nexts
  <2>6. InUse = {s \in Slots : cell[s] = Value}
    BY <2>5 DEF InUse
  <2>7. Cardinality(InUse) = anticipated_alloc_count
    BY <2>2, <2>3, Distinct, FS_EmptySet DEF anticipated_alloc_count
  <2>8. POOL_CAPACITY - fl.count = m
    BY <2>2, Distinct
  <2>9. IsList(fl.next, m)
    BY <2>2, PathIsList
  <2> QED BY <2>6, <2>7, <2>8, <2>9
<1> QED BY <1>1, ListsInvariance, PTL

-----------------------------------------------------------------------------
(* Refinement.                                                             *)

\* The cells on the two lists of the ledger, in terms of the paths.
Views ==
  \A m, n \in 0 .. POOL_CAPACITY :
    \A p \in [1 .. m -> Slots], q \in [1 .. n -> Slots] : Shape(p, m, q, n) =>
      /\ \A s : s \in Free <=> s \in Slots /\ (On(s, p, m) \/ (Flushed /\ On(s, q, n)))
      /\ \A s : s \in Delayed <=> /\ s \in Slots /\ ~ Flushed /\ On(s, q, n)
                               /\ \A t \in Pushing : hand[t] # s

LEMMA ListsView == DInv => Views
<1> SUFFICES ASSUME DInv, NEW m \in 0 .. POOL_CAPACITY, NEW n \in 0 .. POOL_CAPACITY,
                    NEW p \in [1 .. m -> Slots], NEW q \in [1 .. n -> Slots], Shape(p, m, q, n),
                    NEW s
             PROVE  /\ s \in Free <=> s \in Slots /\ (On(s, p, m) \/ (Flushed /\ On(s, q, n)))
                    /\ s \in Delayed <=> /\ s \in Slots /\ ~ Flushed /\ On(s, q, n)
                                         /\ \A t \in Pushing : hand[t] # s
  BY DEF Views
<1>1. CASE Flushed
  <2>1. s \in Slots => (s \in InUse <=> ~ On(s, p, m) /\ ~ On(s, q, n))
    BY DEF InUse, Shape, TwoLists, Shared, Nexts
  <2> QED BY <1>1, <2>1 DEF Free, Delayed
<1>2. CASE ~ Flushed
  <2>1. FreeHead = fl.next /\ DelayedHead = dfl.next
    BY <1>2 DEF FreeHead, DelayedHead, Flushed
  <2>2. Reach(fl.next) = Cells(Slots, p, m) /\ Reach(dfl.next) = Cells(Slots, q, n)
    BY <2>1, PathIsList DEF Shape, TwoLists
  <2>3. s \in Free <=> s \in Slots /\ On(s, p, m)
    BY <1>2, <2>2 DEF Free, Cells
  <2>4. s \in Delayed <=> s \in Slots /\ On(s, q, n) /\ \A t \in Pushing : hand[t] # s
    BY <1>2, <2>2 DEF Delayed, Cells
  <2> QED BY <1>2, <2>3, <2>4
<1> QED BY <1>1, <1>2

LEMMA ListsViewNext == DInv' => Views'
BY ListsView, PTL

\* A step that leaves the lists, the cells being pushed and the counts alone
\* leaves the ledger alone.
LEMMA Stutters ==
  ASSUME Views, Views', NEW m \in 0 .. POOL_CAPACITY, NEW n \in 0 .. POOL_CAPACITY,
         NEW p \in [1 .. m -> Slots], NEW q \in [1 .. n -> Slots],
         Shape(p, m, q, n), Shape(p, m, q, n)',
         Flushed' = Flushed, Pushing' = Pushing, \A t \in Pushing : hand'[t] = hand[t],
         Counts' = Counts
  PROVE  UNCHANGED Ledger!ledgerVars
<1>1. \A s : s \in Free' <=> s \in Free
  BY DEF Views
<1>2. \A s : s \in Delayed' <=> s \in Delayed
  BY DEF Views
<1> QED BY <1>1, <1>2 DEF Ledger!ledgerVars

\* A creation takes a cell, a deletion by the owner returns one, a remote one
\* returns it later when it decrements the count, and a flush takes effect
\* when it resets it.
LEMMA CreateTakes ==
  ASSUME DInv, DInv', boxroot_create
  PROVE  \E c \in Slots : Ledger!Take(c)
<1> USE Distinct DEF boxroot_create, OwnerIsFree, is_full_pool
<1>1. PICK m \in 0 .. POOL_CAPACITY, n \in 0 .. POOL_CAPACITY :
        \E p \in [1 .. m -> Slots], q \in [1 .. n -> Slots] : Shape(p, m, q, n)
  BY DEF DInv
<1>2. PICK p \in [1 .. m -> Slots], q \in [1 .. n -> Slots] : Shape(p, m, q, n)
  BY <1>1
<1> DEFINE p1 == Behind(p, m)
<1>3. Shape(p1, m - 1, q, n)' /\ m - 1 \in 0 .. POOL_CAPACITY /\ p1 \in [1 .. m - 1 -> Slots]
  BY <1>2, CreateKeeps DEF DInv, Safe
<1>4. fl.next \in Slots /\ fl.next = p[1] /\ m > 0 /\ Path(Nexts, Empty, p[1], p, m)
  BY <1>2 DEF Shape, TwoLists, Path, FreeHead
<1>5. \A s \in Slots : On(s, p1, m - 1) <=> On(s, p, m) /\ s # fl.next
  <2>1. m \in Nat /\ \A i, j \in 1 .. m : p[i] = p[j] => i = j
    BY <1>4 DEF Path
  <2> QED BY <1>4, <2>1, BehindOn
<1>6. ~ Flushed /\ ~ Flushed' /\ Pushing' = Pushing /\ hand' = hand
  BY DEF Flushed, Pushing
<1>7. Views /\ Views'
  BY ListsView, ListsViewNext
<1> HIDE DEF p1
<1>8. \A s : s \in Free' <=> s \in Free /\ s # fl.next
  BY <1>2, <1>3, <1>5, <1>6, <1>7 DEF Views
<1>9. \A s : s \in Delayed' <=> s \in Delayed
  BY <1>2, <1>3, <1>6, <1>7 DEF Views
<1>10. fl.next \in Free
  <2>1. On(fl.next, p, m)
    BY <1>4 DEF On
  <2> QED BY <1>2, <1>4, <1>7, <2>1 DEF Views
<1>11. Counts = <<fl.count, dfl.count>> /\ Counts' = <<fl.count + 1, dfl.count>>
  BY DEF Counts, DInv, TypeOK, Lists
<1> QED BY <1>4, <1>8, <1>9, <1>10, <1>11 DEF Ledger!Take

LEMMA FreeSlotReturns ==
  ASSUME DInv, DInv', NEW x \in Slots, bxr_free_slot(x)
  PROVE  Ledger!Return(x)
<1> USE Distinct DEF bxr_free_slot, OwnerIsFree, is_full_pool, Deletable
<1>1. PICK m \in 0 .. POOL_CAPACITY, n \in 0 .. POOL_CAPACITY :
        \E p \in [1 .. m -> Slots], q \in [1 .. n -> Slots] : Shape(p, m, q, n)
  BY DEF DInv
<1>2. PICK p \in [1 .. m -> Slots], q \in [1 .. n -> Slots] : Shape(p, m, q, n)
  BY <1>1
<1> DEFINE p1 == Ahead(x, p, m)
<1>3. Shape(p1, m + 1, q, n)' /\ m + 1 \in 0 .. POOL_CAPACITY /\ p1 \in [1 .. m + 1 -> Slots]
  BY <1>2, FreeSlotKeeps DEF DInv, Safe
<1>4. \A s \in Slots : On(s, p1, m + 1) <=> s = x \/ On(s, p, m)
  <2>1. m \in Nat
    OBVIOUS
  <2> QED BY <2>1, AheadOn
<1>5. ~ On(x, p, m) /\ ~ On(x, q, n)
  <2>1. Nexts[x] = Value
    BY LinksRead DEF LinksAre, DInv
  <2> QED BY <1>2, <2>1 DEF Shape, TwoLists, Shared
<1>6. ~ Flushed /\ ~ Flushed' /\ Pushing' = Pushing /\ hand' = hand
  BY DEF Flushed, Pushing
<1>7. Views /\ Views'
  BY ListsView, ListsViewNext
<1> HIDE DEF p1
<1>8. \A s : s \in Free' <=> s \in Free \/ s = x
  BY <1>2, <1>3, <1>4, <1>6, <1>7 DEF Views
<1>9. \A s : s \in Delayed' <=> s \in Delayed
  <2>1. \A s : s \in Delayed <=> s \in Slots /\ On(s, q, n) /\ \A t \in Pushing : hand[t] # s
    BY <1>2, <1>6, <1>7 DEF Views
  <2>2. \A s : s \in Delayed' <=> s \in Slots /\ On(s, q, n) /\ \A t \in Pushing' : hand'[t] # s
    BY <1>3, <1>6, <1>7 DEF Views
  <2> QED BY <1>6, <2>1, <2>2
<1>10. x \notin Free \cup Delayed
  BY <1>2, <1>5, <1>7 DEF Views
<1>11. Counts = <<fl.count, dfl.count>> /\ Counts' = <<fl.count - 1, dfl.count>>
  BY DEF Counts
<1> QED BY <1>8, <1>9, <1>10, <1>11 DEF Ledger!Return

LEMMA DecrReturnsLater ==
  ASSUME DInv, DInv', NEW t \in Deleters, Decr(t)
  PROVE  \E c \in Slots : Ledger!ReturnLater(c)
<1> USE Distinct DEF Decr, Goto
<1>1. PICK m \in 0 .. POOL_CAPACITY, n \in 0 .. POOL_CAPACITY :
        \E p \in [1 .. m -> Slots], q \in [1 .. n -> Slots] : Shape(p, m, q, n)
  BY DEF DInv
<1>2. PICK p \in [1 .. m -> Slots], q \in [1 .. n -> Slots] : Shape(p, m, q, n)
  BY <1>1
<1>3. Shape(p, m, q, n)'
  BY <1>2, DecrKeeps DEF DInv, Safe
<1>4. PICK x \in Slots : x = hand[t]
  BY DEF DInv, Hands
<1>5. t \in Pushing /\ ~ Flushing /\ ~ Flushed /\ at' = at
  BY NobodyPushes DEF DInv, Safe, Pushing, InGc, Flushing, Flushed
<1>6. On(x, q, n) /\ ~ On(x, p, m)
  BY <1>2, <1>4, <1>5 DEF Shape, TwoLists, Shared
<1>7. Pushing' = Pushing \ {t} /\ \A u \in Pushing' : hand'[u] = hand[u] /\ hand[u] # x
  <2>1. Pushing' = Pushing \ {t}
    BY DEF Pushing, DInv, TypeOK
  <2>2. \A u \in Deleters : u # t => hand'[u] = hand[u] /\ hand[u] # x
    BY <1>4 DEF DInv, Hands, TypeOK
  <2> QED BY <2>1, <2>2 DEF Pushing
<1>8. Views /\ Views'
  BY ListsView, ListsViewNext
<1>9. \A s : s \in Free' <=> s \in Free
  BY <1>2, <1>3, <1>5, <1>8 DEF Views, Flushed
<1>10. \A s : s \in Delayed' <=> s \in Delayed \/ s = x
  <2>1. ~ Flushed'
    BY <1>5 DEF Flushed
  <2>2. \A s : (\A u \in Pushing' : hand'[u] # s) <=> (\A u \in Pushing : hand[u] # s) \/ s = x
    BY <1>4, <1>5, <1>7
  <2>3. \A s : s \in Delayed <=> s \in Slots /\ On(s, q, n) /\ \A u \in Pushing : hand[u] # s
    BY <1>2, <1>5, <1>8 DEF Views
  <2>4. \A s : s \in Delayed' <=> s \in Slots /\ On(s, q, n) /\ \A u \in Pushing' : hand'[u] # s
    BY <1>3, <1>8, <2>1 DEF Views
  <2> QED BY <1>6, <2>2, <2>3, <2>4
<1>11. x \notin Free \cup Delayed
  BY <1>2, <1>4, <1>5, <1>6, <1>8 DEF Views
<1>12. Counts = <<fl.count, dfl.count>> /\ Counts' = <<fl.count, dfl.count - 1>>
  BY <1>5 DEF Counts, Flushing, DInv, TypeOK, Lists
<1>13. x \in Slots \ (Free \cup Delayed)
  BY <1>11
<1>14. Delayed' = Delayed \cup {x} /\ Free' = Free
  BY <1>9, <1>10
<1> QED BY <1>12, <1>13, <1>14 DEF Ledger!ReturnLater

LEMMA ResetFlushes ==
  ASSUME DInv, DInv', GcReset
  PROVE  Ledger!Flush
<1> USE Distinct DEF GcReset, Past
<1>1. PICK m \in 0 .. POOL_CAPACITY, n \in 0 .. POOL_CAPACITY :
        \E p \in [1 .. m -> Slots], q \in [1 .. n -> Slots] : Shape(p, m, q, n)
  BY DEF DInv
<1>2. PICK p \in [1 .. m -> Slots], q \in [1 .. n -> Slots] : Shape(p, m, q, n)
  BY <1>1
<1>3. Shape(p, m, q, n)'
  BY <1>2, GcResetKeeps DEF DInv, Safe
<1>4. ~ Flushed /\ Flushed' /\ Pushing = {} /\ n > 0
  BY <1>2, NobodyPushes DEF DInv, Safe, InGc, Flushed, Shape, CountsTell
<1>5. Views /\ Views'
  BY ListsView, ListsViewNext
<1>6. \A s : s \in Free' <=> s \in Free \/ s \in Delayed
  BY <1>2, <1>3, <1>4, <1>5 DEF Views
<1>7. \A s : s \notin Delayed'
  BY <1>2, <1>3, <1>4, <1>5 DEF Views
<1>8. q[n] \in Delayed
  <2>1. q[n] \in Slots /\ On(q[n], q, n)
    BY <1>4 DEF On
  <2> QED BY <1>2, <1>4, <1>5, <2>1 DEF Views
<1>9. Counts = <<fl.count - dfl.count, dfl.count>> /\ Counts' = <<fl.count, 0>>
  BY DEF Counts, DInv, TypeOK, Lists
<1>10. (fl.count - dfl.count) + dfl.count = fl.count
  BY DEF DInv, TypeOK, Lists
<1> QED BY <1>6, <1>7, <1>8, <1>9, <1>10 DEF Ledger!Flush

\* The other steps do not show.  First those that move cells between paths.
LEMMA ExchangeStutters ==
  ASSUME DInv, DInv', NEW t \in Deleters, Exchange(t)
  PROVE  UNCHANGED Ledger!ledgerVars
<1> USE Distinct DEF Exchange, Goto
<1>1. PICK m \in 0 .. POOL_CAPACITY, n \in 0 .. POOL_CAPACITY :
        \E p \in [1 .. m -> Slots], q \in [1 .. n -> Slots] : Shape(p, m, q, n)
  BY DEF DInv
<1>2. PICK p \in [1 .. m -> Slots], q \in [1 .. n -> Slots] : Shape(p, m, q, n)
  BY <1>1
<1>3. PICK x \in Slots : x = hand[t]
  BY DEF DInv, Hands
<1> DEFINE q1 == Ahead(x, q, n)
<1>4. Shape(p, m, q1, n + 1)' /\ n + 1 \in 0 .. POOL_CAPACITY /\ q1 \in [1 .. n + 1 -> Slots]
  BY <1>2, <1>3, ExchangeKeeps DEF DInv, Safe
<1>5. \A s \in Slots : On(s, q1, n + 1) <=> s = x \/ On(s, q, n)
  <2>1. n \in Nat
    OBVIOUS
  <2> QED BY <2>1, AheadOn
<1>6. t \notin Pushing /\ ~ Flushing /\ ~ Flushed /\ ~ Flushed'
  BY NobodyPushes DEF DInv, Safe, Pushing, InGc, Flushing, Flushed
<1>7. Pushing' = Pushing \cup {t} /\ hand' = hand
  BY DEF Pushing, DInv, TypeOK
<1>8. ~ On(x, q, n)
  <2>1. x # Null /\ \A u \in Deleters : pc[u] = "link" => hand[u] # x
    BY <1>3 DEF DInv, Hands
  <2>2. cell[x] = Value
    BY <1>3 DEF DInv, Hands
  <2>3. Nexts[x] = Value
    BY <2>1, <2>2, LinksRead DEF LinksAre, DInv
  <2> QED BY <1>2, <2>3 DEF Shape, TwoLists, Shared
<1>9. Views /\ Views'
  BY ListsView, ListsViewNext
<1> HIDE DEF q1
<1>10. \A s : s \in Free' <=> s \in Free
  BY <1>2, <1>4, <1>6, <1>9 DEF Views
<1>11. \A s : s \in Delayed' <=> s \in Delayed
  <2>1. \A s : s \in Delayed <=> s \in Slots /\ On(s, q, n) /\ \A u \in Pushing : hand[u] # s
    BY <1>2, <1>6, <1>9 DEF Views
  <2>2. \A s : s \in Delayed' <=> s \in Slots /\ On(s, q1, n + 1) /\ \A u \in Pushing' : hand'[u] # s
    BY <1>4, <1>6, <1>9 DEF Views
  <2>3. \A s : (\A u \in Pushing' : hand'[u] # s) <=> (\A u \in Pushing : hand[u] # s) /\ s # x
    BY <1>3, <1>7
  <2>4. ASSUME NEW s, s \in Delayed' PROVE s \in Delayed
    <3>1. s \in Slots /\ On(s, q1, n + 1) /\ \A u \in Pushing' : hand'[u] # s
      BY <2>2, <2>4
    <3>2. s # x /\ \A u \in Pushing : hand[u] # s
      BY <2>3, <3>1
    <3> QED BY <1>5, <2>1, <3>1, <3>2
  <2>5. ASSUME NEW s, s \in Delayed PROVE s \in Delayed'
    <3>1. s \in Slots /\ On(s, q, n) /\ \A u \in Pushing : hand[u] # s
      BY <2>1, <2>5
    <3>2. s # x /\ On(s, q1, n + 1)
      BY <1>5, <1>8, <3>1
    <3>3. \A u \in Pushing' : hand'[u] # s
      BY <2>3, <3>1, <3>2
    <3> QED BY <2>2, <3>1, <3>2, <3>3
  <2> QED BY <2>4, <2>5
<1>12. Counts' = Counts
  BY <1>6 DEF Counts, Flushing, DInv, TypeOK, Lists
<1> QED BY <1>10, <1>11, <1>12 DEF Ledger!ledgerVars

LEMMA GcLinkStutters ==
  ASSUME DInv, DInv', GcLink
  PROVE  UNCHANGED Ledger!ledgerVars
<1> USE Distinct DEF GcLink, Past
<1>1. PICK m \in 0 .. POOL_CAPACITY, n \in 0 .. POOL_CAPACITY :
        \E p \in [1 .. m -> Slots], q \in [1 .. n -> Slots] : Shape(p, m, q, n)
  BY DEF DInv
<1>2. PICK p \in [1 .. m -> Slots], q \in [1 .. n -> Slots] : Shape(p, m, q, n)
  BY <1>1
<1> DEFINE p1 == Joined(q, n, p, m)
<1>3. /\ Shape(p1, m + n, << >>, 0)' /\ m + n \in 0 .. POOL_CAPACITY
      /\ p1 \in [1 .. m + n -> Slots]
      /\ << >> \in [1 .. 0 -> Slots] /\ 0 \in 0 .. POOL_CAPACITY
  <2>1. Shape(p1, m + n, << >>, 0)' /\ m + n \in 0 .. POOL_CAPACITY /\ p1 \in [1 .. m + n -> Slots]
    BY <1>2, GcLinkKeeps DEF DInv, Safe
  <2>2. << >> \in [1 .. 0 -> Slots] /\ 0 \in 0 .. POOL_CAPACITY
    BY Distinct
  <2> QED BY <2>1, <2>2
<1>4. \A s \in Slots : On(s, p1, m + n) <=> On(s, q, n) \/ On(s, p, m)
  <2>1. m \in Nat /\ n \in Nat
    OBVIOUS
  <2> QED BY <2>1, JoinedOn
<1>5. Flushed /\ ~ Flushed' /\ Pushing = {} /\ Pushing' = {}
  BY NobodyPushes DEF DInv, Safe, Pushing, InGc, Flushed
<1>6. Views /\ Views'
  BY ListsView, ListsViewNext
<1>7. \A s : ~ On(s, << >>, 0)
  BY DEF On
<1> HIDE DEF p1
<1>8. \A s : s \in Free' <=> s \in Free
  BY <1>2, <1>3, <1>4, <1>5, <1>6 DEF Views
<1>9. \A s : s \notin Delayed' /\ s \notin Delayed
  BY <1>2, <1>3, <1>5, <1>6, <1>7 DEF Views
<1>10. Counts' = Counts
  BY DEF Counts
<1> QED BY <1>8, <1>9, <1>10 DEF Ledger!ledgerVars

LEMMA LockPoolStutters ==
  ASSUME DInv, DInv', NEW t \in Deleters, LockPool(t)
  PROVE  UNCHANGED Ledger!ledgerVars
<1> USE DEF LockPool, Goto
<1>1. PICK m \in 0 .. POOL_CAPACITY, n \in 0 .. POOL_CAPACITY :
        \E p \in [1 .. m -> Slots], q \in [1 .. n -> Slots] : Shape(p, m, q, n)
  BY DEF DInv
<1>2. PICK p \in [1 .. m -> Slots], q \in [1 .. n -> Slots] : Shape(p, m, q, n)
  BY <1>1
<1>3. Shape(p, m, q, n)'
  BY <1>2, LockPoolKeeps DEF DInv, Safe
<1>4. Flushed' = Flushed /\ Counts' = Counts
  BY DEF Flushed, Counts
<1>5. Pushing' = Pushing /\ \A u \in Pushing : hand'[u] = hand[u]
  BY DEF Pushing, DInv, TypeOK
<1> QED BY <1>2, <1>3, <1>4, <1>5, ListsView, ListsViewNext, Stutters

LEMMA UnlockPoolStutters ==
  ASSUME DInv, DInv', NEW t \in Deleters, UnlockPool(t)
  PROVE  UNCHANGED Ledger!ledgerVars
<1> USE DEF UnlockPool, Goto
<1>1. PICK m \in 0 .. POOL_CAPACITY, n \in 0 .. POOL_CAPACITY :
        \E p \in [1 .. m -> Slots], q \in [1 .. n -> Slots] : Shape(p, m, q, n)
  BY DEF DInv
<1>2. PICK p \in [1 .. m -> Slots], q \in [1 .. n -> Slots] : Shape(p, m, q, n)
  BY <1>1
<1>3. Shape(p, m, q, n)'
  BY <1>2, UnlockPoolKeeps DEF DInv, Safe
<1>4. Flushed' = Flushed /\ Counts' = Counts
  BY DEF Flushed, Counts
<1>5. Pushing' = Pushing /\ \A u \in Pushing : hand'[u] = hand[u]
  BY DEF Pushing, DInv, TypeOK
<1> QED BY <1>2, <1>3, <1>4, <1>5, ListsView, ListsViewNext, Stutters

LEMMA LinkStutters ==
  ASSUME DInv, DInv', NEW t \in Deleters, Link(t)
  PROVE  UNCHANGED Ledger!ledgerVars
<1> USE DEF Link, Goto
<1>1. PICK m \in 0 .. POOL_CAPACITY, n \in 0 .. POOL_CAPACITY :
        \E p \in [1 .. m -> Slots], q \in [1 .. n -> Slots] : Shape(p, m, q, n)
  BY DEF DInv
<1>2. PICK p \in [1 .. m -> Slots], q \in [1 .. n -> Slots] : Shape(p, m, q, n)
  BY <1>1
<1>3. Shape(p, m, q, n)'
  BY <1>2, LinkKeeps DEF DInv, Safe
<1>4. Flushed' = Flushed /\ Counts' = Counts
  BY DEF Flushed, Counts
<1>5. Pushing' = Pushing /\ \A u \in Pushing : hand'[u] = hand[u]
  BY DEF Pushing, DInv, TypeOK
<1> QED BY <1>2, <1>3, <1>4, <1>5, ListsView, ListsViewNext, Stutters

LEMMA SetEndStutters ==
  ASSUME DInv, DInv', NEW t \in Deleters, SetEnd(t)
  PROVE  UNCHANGED Ledger!ledgerVars
<1> USE DEF SetEnd, Goto
<1>1. PICK m \in 0 .. POOL_CAPACITY, n \in 0 .. POOL_CAPACITY :
        \E p \in [1 .. m -> Slots], q \in [1 .. n -> Slots] : Shape(p, m, q, n)
  BY DEF DInv
<1>2. PICK p \in [1 .. m -> Slots], q \in [1 .. n -> Slots] : Shape(p, m, q, n)
  BY <1>1
<1>3. Shape(p, m, q, n)'
  BY <1>2, SetEndKeeps DEF DInv, Safe
<1>4. Flushed' = Flushed /\ Counts' = Counts
  BY DEF Flushed, Counts, DInv, TypeOK, Lists
<1>5. Pushing' = Pushing /\ \A u \in Pushing : hand'[u] = hand[u]
  BY DEF Pushing, DInv, TypeOK
<1> QED BY <1>2, <1>3, <1>4, <1>5, ListsView, ListsViewNext, Stutters

LEMMA DeleteStutters ==
  ASSUME DInv, DInv', NEW t \in Deleters, NEW x \in Slots, bxr_delete_slow(t, x), Quiet'
  PROVE  UNCHANGED Ledger!ledgerVars
<1> USE DEF bxr_delete_slow, Goto
<1>1. PICK m \in 0 .. POOL_CAPACITY, n \in 0 .. POOL_CAPACITY :
        \E p \in [1 .. m -> Slots], q \in [1 .. n -> Slots] : Shape(p, m, q, n)
  BY DEF DInv
<1>2. PICK p \in [1 .. m -> Slots], q \in [1 .. n -> Slots] : Shape(p, m, q, n)
  BY <1>1
<1>3. Shape(p, m, q, n)'
  BY <1>2, DeleteKeeps DEF DInv, Safe
<1>4. Flushed' = Flushed /\ Counts' = Counts
  BY DEF Flushed, Counts
<1>5. Pushing' = Pushing /\ \A u \in Pushing : hand'[u] = hand[u]
  BY DEF Pushing, DInv, TypeOK
<1> QED BY <1>2, <1>3, <1>4, <1>5, ListsView, ListsViewNext, Stutters

LEMMA GcReadStutters ==
  ASSUME DInv, DInv', GcRead
  PROVE  UNCHANGED Ledger!ledgerVars
<1> USE DEF GcRead, AfterFlush, Past
<1>1. PICK m \in 0 .. POOL_CAPACITY, n \in 0 .. POOL_CAPACITY :
        \E p \in [1 .. m -> Slots], q \in [1 .. n -> Slots] : Shape(p, m, q, n)
  BY DEF DInv
<1>2. PICK p \in [1 .. m -> Slots], q \in [1 .. n -> Slots] : Shape(p, m, q, n)
  BY <1>1
<1>3. Shape(p, m, q, n)'
  BY <1>2, GcReadKeeps DEF DInv, Safe
<1>4. Flushed' = Flushed /\ Counts' = Counts
  BY DEF Flushed, Counts
<1>5. Pushing' = Pushing /\ \A u \in Pushing : hand'[u] = hand[u]
  BY DEF Pushing, DInv, TypeOK
<1> QED BY <1>2, <1>3, <1>4, <1>5, ListsView, ListsViewNext, Stutters

LEMMA GcLockStutters ==
  ASSUME DInv, DInv', GcLock
  PROVE  UNCHANGED Ledger!ledgerVars
<1> USE DEF GcLock, Past
<1>1. PICK m \in 0 .. POOL_CAPACITY, n \in 0 .. POOL_CAPACITY :
        \E p \in [1 .. m -> Slots], q \in [1 .. n -> Slots] : Shape(p, m, q, n)
  BY DEF DInv
<1>2. PICK p \in [1 .. m -> Slots], q \in [1 .. n -> Slots] : Shape(p, m, q, n)
  BY <1>1
<1>3. Shape(p, m, q, n)'
  BY <1>2, GcLockKeeps DEF DInv, Safe
<1>4. Flushed' = Flushed /\ Counts' = Counts
  BY DEF Flushed, Counts
<1>5. Pushing' = Pushing /\ \A u \in Pushing : hand'[u] = hand[u]
  BY DEF Pushing, DInv, TypeOK
<1> QED BY <1>2, <1>3, <1>4, <1>5, ListsView, ListsViewNext, Stutters

LEMMA GcEndStutters ==
  ASSUME DInv, DInv', GcEnd
  PROVE  UNCHANGED Ledger!ledgerVars
<1> USE DEF GcEnd, Past
<1>1. PICK m \in 0 .. POOL_CAPACITY, n \in 0 .. POOL_CAPACITY :
        \E p \in [1 .. m -> Slots], q \in [1 .. n -> Slots] : Shape(p, m, q, n)
  BY DEF DInv
<1>2. PICK p \in [1 .. m -> Slots], q \in [1 .. n -> Slots] : Shape(p, m, q, n)
  BY <1>1
<1>3. Shape(p, m, q, n)'
  BY <1>2, GcEndKeeps DEF DInv, Safe
<1>4. Flushed' = Flushed /\ Counts' = Counts
  BY DEF Flushed, Counts, DInv, TypeOK, Lists
<1>5. Pushing' = Pushing /\ \A u \in Pushing : hand'[u] = hand[u]
  BY DEF Pushing, DInv, TypeOK
<1> QED BY <1>2, <1>3, <1>4, <1>5, ListsView, ListsViewNext, Stutters

LEMMA GcCountStutters ==
  ASSUME DInv, DInv', GcCount
  PROVE  UNCHANGED Ledger!ledgerVars
<1> USE DEF GcCount, Past, anticipated_alloc_count
<1>1. PICK m \in 0 .. POOL_CAPACITY, n \in 0 .. POOL_CAPACITY :
        \E p \in [1 .. m -> Slots], q \in [1 .. n -> Slots] : Shape(p, m, q, n)
  BY DEF DInv
<1>2. PICK p \in [1 .. m -> Slots], q \in [1 .. n -> Slots] : Shape(p, m, q, n)
  BY <1>1
<1>3. Shape(p, m, q, n)'
  BY <1>2, GcCountKeeps DEF DInv, Safe
<1>4. Flushed' = Flushed /\ Counts' = Counts
  BY DEF Flushed, Counts, DInv, TypeOK, Lists
<1>5. Pushing' = Pushing /\ \A u \in Pushing : hand'[u] = hand[u]
  BY DEF Pushing, DInv, TypeOK
<1> QED BY <1>2, <1>3, <1>4, <1>5, ListsView, ListsViewNext, Stutters

LEMMA GcNextStutters ==
  ASSUME DInv, DInv', GcNext
  PROVE  UNCHANGED Ledger!ledgerVars
<1> USE DEF GcNext, Past
<1>1. PICK m \in 0 .. POOL_CAPACITY, n \in 0 .. POOL_CAPACITY :
        \E p \in [1 .. m -> Slots], q \in [1 .. n -> Slots] : Shape(p, m, q, n)
  BY DEF DInv
<1>2. PICK p \in [1 .. m -> Slots], q \in [1 .. n -> Slots] : Shape(p, m, q, n)
  BY <1>1
<1>3. Shape(p, m, q, n)'
  BY <1>2, GcNextKeeps DEF DInv, Safe
<1>4. Flushed' = Flushed /\ Counts' = Counts
  BY DEF Flushed, Counts, DInv, TypeOK, Lists
<1>5. Pushing' = Pushing /\ \A u \in Pushing : hand'[u] = hand[u]
  BY DEF Pushing, DInv, TypeOK
<1> QED BY <1>2, <1>3, <1>4, <1>5, ListsView, ListsViewNext, Stutters

LEMMA GcEmptyStutters ==
  ASSUME DInv, DInv', GcEmpty
  PROVE  UNCHANGED Ledger!ledgerVars
<1> USE DEF GcEmpty, Past
<1>1. PICK m \in 0 .. POOL_CAPACITY, n \in 0 .. POOL_CAPACITY :
        \E p \in [1 .. m -> Slots], q \in [1 .. n -> Slots] : Shape(p, m, q, n)
  BY DEF DInv
<1>2. PICK p \in [1 .. m -> Slots], q \in [1 .. n -> Slots] : Shape(p, m, q, n)
  BY <1>1
<1>3. Shape(p, m, q, n)'
  BY <1>2, GcEmptyKeeps DEF DInv, Safe
<1>4. Flushed' = Flushed /\ Counts' = Counts
  BY DEF Flushed, Counts, DInv, TypeOK, Lists
<1>5. Pushing' = Pushing /\ \A u \in Pushing : hand'[u] = hand[u]
  BY DEF Pushing, DInv, TypeOK
<1> QED BY <1>2, <1>3, <1>4, <1>5, ListsView, ListsViewNext, Stutters

LEMMA GcUnlockStutters ==
  ASSUME DInv, DInv', GcUnlock
  PROVE  UNCHANGED Ledger!ledgerVars
<1> USE DEF GcUnlock, AfterFlush, Past
<1>1. PICK m \in 0 .. POOL_CAPACITY, n \in 0 .. POOL_CAPACITY :
        \E p \in [1 .. m -> Slots], q \in [1 .. n -> Slots] : Shape(p, m, q, n)
  BY DEF DInv
<1>2. PICK p \in [1 .. m -> Slots], q \in [1 .. n -> Slots] : Shape(p, m, q, n)
  BY <1>1
<1>3. Shape(p, m, q, n)'
  BY <1>2, GcUnlockKeeps DEF DInv, Safe
<1>4. Flushed' = Flushed /\ Counts' = Counts
  BY DEF Flushed, Counts
<1>5. Pushing' = Pushing /\ \A u \in Pushing : hand'[u] = hand[u]
  BY DEF Pushing, DInv, TypeOK
<1> QED BY <1>2, <1>3, <1>4, <1>5, ListsView, ListsViewNext, Stutters

LEMMA StopTheWorldStutters ==
  ASSUME DInv, DInv', StopTheWorld
  PROVE  UNCHANGED Ledger!ledgerVars
<1> USE DEF StopTheWorld, Past
<1>1. PICK m \in 0 .. POOL_CAPACITY, n \in 0 .. POOL_CAPACITY :
        \E p \in [1 .. m -> Slots], q \in [1 .. n -> Slots] : Shape(p, m, q, n)
  BY DEF DInv
<1>2. PICK p \in [1 .. m -> Slots], q \in [1 .. n -> Slots] : Shape(p, m, q, n)
  BY <1>1
<1>3. Shape(p, m, q, n)'
  BY <1>2, StopTheWorldKeeps DEF DInv, Safe
<1>4. Flushed' = Flushed /\ Counts' = Counts
  BY DEF Flushed, Counts
<1>5. Pushing' = Pushing /\ \A u \in Pushing : hand'[u] = hand[u]
  BY DEF Pushing, DInv, TypeOK
<1> QED BY <1>2, <1>3, <1>4, <1>5, ListsView, ListsViewNext, Stutters

LEMMA ScanLockStutters ==
  ASSUME DInv, DInv', ScanLock
  PROVE  UNCHANGED Ledger!ledgerVars
<1> USE DEF ScanLock, Past
<1>1. PICK m \in 0 .. POOL_CAPACITY, n \in 0 .. POOL_CAPACITY :
        \E p \in [1 .. m -> Slots], q \in [1 .. n -> Slots] : Shape(p, m, q, n)
  BY DEF DInv
<1>2. PICK p \in [1 .. m -> Slots], q \in [1 .. n -> Slots] : Shape(p, m, q, n)
  BY <1>1
<1>3. Shape(p, m, q, n)'
  BY <1>2, ScanLockKeeps DEF DInv, Safe
<1>4. Flushed' = Flushed /\ Counts' = Counts
  BY DEF Flushed, Counts
<1>5. Pushing' = Pushing /\ \A u \in Pushing : hand'[u] = hand[u]
  BY DEF Pushing, DInv, TypeOK
<1> QED BY <1>2, <1>3, <1>4, <1>5, ListsView, ListsViewNext, Stutters

LEMMA ScanUnlockStutters ==
  ASSUME DInv, DInv', ScanUnlock
  PROVE  UNCHANGED Ledger!ledgerVars
<1> USE DEF ScanUnlock, Past
<1>1. PICK m \in 0 .. POOL_CAPACITY, n \in 0 .. POOL_CAPACITY :
        \E p \in [1 .. m -> Slots], q \in [1 .. n -> Slots] : Shape(p, m, q, n)
  BY DEF DInv
<1>2. PICK p \in [1 .. m -> Slots], q \in [1 .. n -> Slots] : Shape(p, m, q, n)
  BY <1>1
<1>3. Shape(p, m, q, n)'
  BY <1>2, ScanUnlockKeeps DEF DInv, Safe
<1>4. Flushed' = Flushed /\ Counts' = Counts
  BY DEF Flushed, Counts
<1>5. Pushing' = Pushing /\ \A u \in Pushing : hand'[u] = hand[u]
  BY DEF Pushing, DInv, TypeOK
<1> QED BY <1>2, <1>3, <1>4, <1>5, ListsView, ListsViewNext, Stutters

LEMMA ResumeTheWorldStutters ==
  ASSUME DInv, DInv', ResumeTheWorld
  PROVE  UNCHANGED Ledger!ledgerVars
<1> USE DEF ResumeTheWorld, Past
<1>1. PICK m \in 0 .. POOL_CAPACITY, n \in 0 .. POOL_CAPACITY :
        \E p \in [1 .. m -> Slots], q \in [1 .. n -> Slots] : Shape(p, m, q, n)
  BY DEF DInv
<1>2. PICK p \in [1 .. m -> Slots], q \in [1 .. n -> Slots] : Shape(p, m, q, n)
  BY <1>1
<1>3. Shape(p, m, q, n)'
  BY <1>2, ResumeTheWorldKeeps DEF DInv, Safe
<1>4. Flushed' = Flushed /\ Counts' = Counts
  BY DEF Flushed, Counts
<1>5. Pushing' = Pushing /\ \A u \in Pushing : hand'[u] = hand[u]
  BY DEF Pushing, DInv, TypeOK
<1> QED BY <1>2, <1>3, <1>4, <1>5, ListsView, ListsViewNext, Stutters

LEMMA EmptyPoolGcStutters ==
  ASSUME DInv, DInv', try_gc_and_reclassify_one_pool_no_stw
  PROVE  UNCHANGED Ledger!ledgerVars
<1> USE DEF try_gc_and_reclassify_one_pool_no_stw, OwnerIsFree, Past
<1>1. PICK m \in 0 .. POOL_CAPACITY, n \in 0 .. POOL_CAPACITY :
        \E p \in [1 .. m -> Slots], q \in [1 .. n -> Slots] : Shape(p, m, q, n)
  BY DEF DInv
<1>2. PICK p \in [1 .. m -> Slots], q \in [1 .. n -> Slots] : Shape(p, m, q, n)
  BY <1>1
<1>3. Shape(p, m, q, n)'
  BY <1>2, EmptyPoolGcKeeps DEF DInv, Safe
<1>4. Flushed' = Flushed /\ Counts' = Counts
  BY DEF Flushed, Counts
<1>5. Pushing' = Pushing /\ \A u \in Pushing : hand'[u] = hand[u]
  BY DEF Pushing, DInv, TypeOK
<1> QED BY <1>2, <1>3, <1>4, <1>5, ListsView, ListsViewNext, Stutters

LEMMA TerminateStutters ==
  ASSUME DInv, DInv', domain_termination_callback, Quiet'
  PROVE  UNCHANGED Ledger!ledgerVars
<1> USE DEF domain_termination_callback, OwnerIsFree, Past
<1>1. PICK m \in 0 .. POOL_CAPACITY, n \in 0 .. POOL_CAPACITY :
        \E p \in [1 .. m -> Slots], q \in [1 .. n -> Slots] : Shape(p, m, q, n)
  BY DEF DInv
<1>2. PICK p \in [1 .. m -> Slots], q \in [1 .. n -> Slots] : Shape(p, m, q, n)
  BY <1>1
<1>3. Shape(p, m, q, n)'
  BY <1>2, TerminateKeeps DEF DInv, Safe
<1>4. Flushed' = Flushed /\ Counts' = Counts
  BY DEF Flushed, Counts
<1>5. Pushing' = Pushing /\ \A u \in Pushing : hand'[u] = hand[u]
  BY DEF Pushing, DInv, TypeOK
<1> QED BY <1>2, <1>3, <1>4, <1>5, ListsView, ListsViewNext, Stutters

LEMMA LedgerStep ==
  ASSUME DInv, DInv', [Next]_vars, Quiet'
  PROVE  [Ledger!LedgerNext]_(Ledger!ledgerVars)
<1> USE DEF Ledger!LedgerNext
<1>1. CASE boxroot_create
  BY <1>1, CreateTakes
<1>2. ASSUME NEW s \in Slots, bxr_free_slot(s) PROVE Ledger!LedgerNext
  BY <1>2, FreeSlotReturns
<1>3. ASSUME NEW t \in Deleters, NEW s \in Slots, bxr_delete_slow(t, s)
      PROVE  UNCHANGED Ledger!ledgerVars
  BY <1>3, DeleteStutters
<1>4. ASSUME NEW t \in Deleters, DeleterStep(t)
      PROVE  [Ledger!LedgerNext]_(Ledger!ledgerVars)
  <2>1. CASE Decr(t)
    BY <2>1, DecrReturnsLater
  <2>2. CASE LockPool(t) \/ Exchange(t) \/ Link(t) \/ SetEnd(t) \/ UnlockPool(t)
    BY <2>2, LockPoolStutters, ExchangeStutters, LinkStutters, SetEndStutters, UnlockPoolStutters
  <2> QED BY <1>4, <2>1, <2>2 DEF DeleterStep, free_slot_atomic
<1>5. CASE OwnerStep
  <2>1. CASE GcReset
    BY <2>1, ResetFlushes
  <2>2. CASE GcLink
    BY <2>2, GcLinkStutters
  <2>3. CASE GcRead \/ GcLock \/ GcEnd \/ GcCount \/ GcNext \/ GcEmpty \/ GcUnlock
    BY <2>3, GcReadStutters, GcLockStutters, GcEndStutters, GcCountStutters, GcNextStutters,
       GcEmptyStutters, GcUnlockStutters
  <2>4. CASE ScanLock \/ ScanUnlock \/ ResumeTheWorld
    BY <2>4, ScanLockStutters, ScanUnlockStutters, ResumeTheWorldStutters
  <2> QED BY <1>5, <2>1, <2>2, <2>3, <2>4 DEF OwnerStep, gc_pool
<1>6. CASE try_gc_and_reclassify_one_pool_no_stw \/ domain_termination_callback \/ StopTheWorld
  BY <1>6, EmptyPoolGcStutters, TerminateStutters, StopTheWorldStutters
<1>7. CASE UNCHANGED vars
  <2>1. UNCHANGED <<Free, Delayed, Counts>>
    BY <1>7 DEF vars, Free, Delayed, Counts, Flushed, InUse, NextOf, Reach, Follow, Pushing
  <2> QED BY <2>1 DEF Ledger!ledgerVars
<1> QED BY <1>1, <1>2, <1>3, <1>4, <1>5, <1>6, <1>7 DEF Next, AnyTime, RemoteDelete, Deleters

\* The memory accesses of concurrent deletions and flushes add up to the atomic
\* operations of PoolLedger, which are those module Boxroot is made of, if the
\* execution is always Quiet.
THEOREM ImplementsPoolLedger == Spec /\ []Quiet => ImplementsLedger
<1>1. Init => Ledger!LedgerInit
  <2> SUFFICES ASSUME Init PROVE Ledger!LedgerInit
    OBVIOUS
  <2>1. DInv /\ Views
    BY InitInv, ListsView
  <2>2. ~ Flushing /\ ~ Flushed /\ Pushing = {} /\ fl.count = 0 /\ dfl.count = 0
    BY DEF Init, Flushing, Flushed, Pushing
  <2>3. PICK m \in 0 .. POOL_CAPACITY, n \in 0 .. POOL_CAPACITY :
          \E p \in [1 .. m -> Slots], q \in [1 .. n -> Slots] :
             /\ Shape(p, m, q, n)
             /\ Path(Nexts, Empty, fl.next, p, m) /\ Path(Nexts, Empty, dfl.next, q, n)
             /\ fl.count = POOL_CAPACITY - m /\ dfl.count = Cardinality(Pushing) - n
             /\ Cardinality(Pushing) \in Nat
             /\ Cardinality(InUse) = POOL_CAPACITY - m - n
    BY <2>1, <2>2, QuietLists
  <2>4. PICK p \in [1 .. m -> Slots], q \in [1 .. n -> Slots] :
             /\ Shape(p, m, q, n)
             /\ dfl.count = Cardinality(Pushing) - n
             /\ Cardinality(InUse) = POOL_CAPACITY - m - n
             /\ fl.count = POOL_CAPACITY - m
    BY <2>3
  <2>5. n = 0
    BY <2>2, <2>4, FS_EmptySet
  <2>6. \A s \in Slots : cell[s] # Value /\ Nexts[s] = cell[s]
    <3>1. LinksAre
      BY <2>1, LinksRead DEF DInv
    <3>2. \A s \in Slots : Nexts[s] = cell[s]
      BY <2>2, <3>1 DEF LinksAre, Pushing
    <3> QED BY <3>2, Distinct DEF Init, Slots
  <2>7. \A s \in Slots : ~ On(s, q, n) /\ On(s, p, m)
    <3>1. \A s \in Slots : ~ On(s, q, n)
      BY <2>5 DEF On
    <3> QED BY <2>4, <2>6, <3>1 DEF Shape, TwoLists, Shared
  <2>8. \A s : (s \in Free <=> s \in Slots) /\ s \notin Delayed
    BY <2>1, <2>2, <2>4, <2>7 DEF Views
  <2>9. Counts = <<0, 0>>
    BY DEF Init, Counts
  <2> QED BY <2>8, <2>9 DEF Ledger!LedgerInit
<1>2. DInv /\ DInv' /\ [Next]_vars /\ Quiet' => [Ledger!LedgerNext]_(Ledger!ledgerVars)
  BY LedgerStep
<1> QED
  BY <1>1, <1>2, ListsInvariance, PTL DEF Spec, Ledger!LedgerSpec, ImplementsLedger
=============================================================================
