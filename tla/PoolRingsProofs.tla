---------------------------- MODULE PoolRingsProofs ----------------------------
(***************************************************************************)
(* The rings of boxroot/boxroot.c in memory: for every set of domains and  *)
(* pools, they stay circular and disjoint, in sync with the headers of the *)
(* pools, and walks over them meet every pool and come to an end.          *)
(*                                                                         *)
(* A layout R gives the set of pools of each ring; an operation takes a    *)
(* memory with a layout to one with another.  The lemmas come in this      *)
(* order: heads and links, moving a pool, flushing it, what a walk has     *)
(* before it, current pools, deletions, whole rings, orphans; then the     *)
(* invariant, a lemma per action, and the theorems.                        *)
(***************************************************************************)
EXTENDS PoolRings, ListLemmas

Heads == Rings \cup Locals

\* What the operations on rings are about.
Links(m) == [head |-> m.head, next |-> m.next, prev |-> m.prev]

SameCounts(m, n) ==
  /\ n.alloc_count = m.alloc_count /\ n.delayed_count = m.delayed_count
  /\ n.mapped = m.mapped
SamePools(m, n) == SameCounts(m, n) /\ n.class = m.class /\ n.domain_id = m.domain_id

-----------------------------------------------------------------------------
(* The operations of module Rings on the memory of the pools.              *)

\* The heads and links of a memory are those of ListLemmas.
LEMMA LinksTyped ==
  ASSUME NEW m \in Memory
  PROVE  Links(m) \in RingMemory(Heads, Pools)
BY DEF Memory, Links, RingMemory, Heads

SetHead(m, l, x) == [m EXCEPT !.head[l] = x]

\* Setting a head leaves the pools as they are.
LEMMA HeadSet ==
  ASSUME NEW m \in Memory, NEW l \in Heads, NEW x \in Pools \cup {NULL}
  PROVE  /\ SetHead(m, l, x) \in Memory
         /\ Links(SetHead(m, l, x)) = SetHead(Links(m), l, x)
         /\ SamePools(m, SetHead(m, l, x))
         /\ SetHead(m, l, x).next = m.next /\ SetHead(m, l, x).prev = m.prev
         /\ SetHead(m, l, x).head = [m.head EXCEPT ![l] = x]
<1> DEFINE n == SetHead(m, l, x)
<1>1. n \in Memory
  BY DEF Memory, Heads, SetHead
<1>2. n.next = m.next /\ n.prev = m.prev /\ n.head = [m.head EXCEPT ![l] = x]
  BY DEF Memory, SetHead
<1>3. SamePools(m, n)
  BY DEF Memory, SetHead, SamePools, SameCounts
<1>4. SetHead(Links(m), l, x) = [head |-> [m.head EXCEPT ![l] = x], next |-> m.next, prev |-> m.prev]
  BY DEF SetHead, Links
<1> HIDE DEF n
<1>5. Links(n) = SetHead(Links(m), l, x)
  BY <1>2, <1>4 DEF Links
<1> QED BY <1>1, <1>2, <1>3, <1>5 DEF n

\* ring_link writes two links and nothing else.
LEMMA LinkSet ==
  ASSUME NEW m \in Memory, NEW x \in Pools, NEW y \in Pools
  PROVE  /\ ring_link(m, x, y) \in Memory
         /\ Links(ring_link(m, x, y)) = ring_link(Links(m), x, y)
         /\ SamePools(m, ring_link(m, x, y))
<1> DEFINE n == ring_link(m, x, y)
<1>1. n \in Memory
  BY DEF Memory, ring_link
<1>2. /\ n.next = [m.next EXCEPT ![x] = y] /\ n.prev = [m.prev EXCEPT ![y] = x]
      /\ n.head = m.head
  BY DEF Memory, ring_link
<1>3. SamePools(m, n)
  BY DEF Memory, ring_link, SamePools, SameCounts
<1>4. ring_link(Links(m), x, y) =
        [head |-> m.head, next |-> [m.next EXCEPT ![x] = y], prev |-> [m.prev EXCEPT ![y] = x]]
  <2>1. PICK k : k = Links(m)
    OBVIOUS
  <2>2. k \in RingMemory(Heads, Pools)
    BY <2>1, LinksTyped
  <2>3. /\ ring_link(k, x, y) \in RingMemory(Heads, Pools)
        /\ ring_link(k, x, y).head = k.head
        /\ ring_link(k, x, y).next = [k.next EXCEPT ![x] = y]
        /\ ring_link(k, x, y).prev = [k.prev EXCEPT ![y] = x]
    BY <2>2 DEF ring_link, RingMemory
  <2>4. k.head = m.head /\ k.next = m.next /\ k.prev = m.prev
    BY <2>1 DEF Links
  <2> QED BY <2>1, <2>3, <2>4 DEF RingMemory
<1> HIDE DEF n
<1>5. Links(n) = ring_link(Links(m), x, y)
  BY <1>2, <1>4 DEF Links
<1> QED BY <1>1, <1>3, <1>5 DEF n

\* ring_pop writes links and one head.
LEMMA PopSet ==
  ASSUME NEW m \in Memory, NEW l \in Heads, m.head[l] \in Pools,
         NEW n, n = ring_pop(m, l)
  PROVE  /\ n \in Memory /\ Links(n) = ring_pop(Links(m), l)
         /\ SamePools(m, n)
<1> DEFINE x == m.head[l]
<1>0. m.next[x] \in Pools /\ m.prev[x] \in Pools
  BY DEF Memory
<1>1. Links(m).head = m.head /\ Links(m).next = m.next /\ Links(m).prev = m.prev
  BY DEF Links
<1>2. CASE m.next[x] = x
  <2>1. PICK a : a = SetHead(m, l, NULL)
    OBVIOUS
  <2>2. /\ a \in Memory /\ Links(a) = SetHead(Links(m), l, NULL)
        /\ SamePools(m, a)
    BY <2>1, HeadSet
  <2>3. n = ring_link(a, x, x)
    BY <1>2, <2>1 DEF ring_pop, SetHead
  <2>4. n \in Memory /\ Links(n) = ring_link(Links(a), x, x) /\ SamePools(a, n)
    BY <2>2, <2>3, LinkSet
  <2>5. Links(n) = ring_pop(Links(m), l)
    BY <1>1, <1>2, <2>2, <2>4 DEF ring_pop, SetHead
  <2> QED BY <2>2, <2>4, <2>5 DEF SamePools, SameCounts
<1>3. CASE m.next[x] # x
  <2>1. PICK a : a = SetHead(m, l, m.next[x])
    OBVIOUS
  <2>2. /\ a \in Memory /\ Links(a) = SetHead(Links(m), l, m.next[x])
        /\ SamePools(m, a)
    <3>1. PICK y \in Pools \cup {NULL} : y = m.next[x]
      BY <1>0
    <3>2. /\ SetHead(m, l, y) \in Memory /\ SamePools(m, SetHead(m, l, y))
          /\ Links(SetHead(m, l, y)) = SetHead(Links(m), l, y)
      BY HeadSet
    <3> QED BY <2>1, <3>1, <3>2
  <2>3. PICK b : b = ring_link(a, m.prev[x], m.next[x])
    OBVIOUS
  <2>4. /\ b \in Memory /\ Links(b) = ring_link(Links(a), m.prev[x], m.next[x])
        /\ SamePools(a, b)
    BY <1>0, <2>2, <2>3, LinkSet
  <2>5. n = ring_link(b, x, x)
    BY <1>3, <2>1, <2>3 DEF ring_pop, SetHead
  <2>6. n \in Memory /\ Links(n) = ring_link(Links(b), x, x) /\ SamePools(b, n)
    BY <2>4, <2>5, LinkSet
  <2>7. Links(n) = ring_pop(Links(m), l)
    BY <1>1, <1>3, <2>2, <2>4, <2>6 DEF ring_pop, SetHead
  <2> QED BY <2>2, <2>4, <2>6, <2>7 DEF SamePools, SameCounts
<1> QED BY <1>2, <1>3

\* Splice writes links and one head.
LEMMA SpliceSet ==
  ASSUME NEW m \in Memory, NEW y \in Pools, NEW z \in Pools, NEW l \in Heads,
         NEW n, n = Splice(m, y, z, l)
  PROVE  n \in Memory /\ Links(n) = Splice(Links(m), y, z, l) /\ SamePools(m, n)
<1> DEFINE x == m.head[l]
<1>1. Links(m).head = m.head /\ Links(m).next = m.next /\ Links(m).prev = m.prev
  BY DEF Links
<1>2. CASE x = NULL
  <2>1. n = SetHead(m, l, y)
    BY <1>2 DEF Splice, SetHead
  <2>2. y \in Pools \cup {NULL}
    OBVIOUS
  <2>3. n \in Memory /\ Links(n) = SetHead(Links(m), l, y) /\ SamePools(m, n)
    <3>1. /\ SetHead(m, l, y) \in Memory /\ SamePools(m, SetHead(m, l, y))
          /\ Links(SetHead(m, l, y)) = SetHead(Links(m), l, y)
      BY <2>2, HeadSet
    <3> QED BY <2>1, <3>1
  <2> QED BY <1>1, <1>2, <2>3 DEF Splice, SetHead
<1>3. CASE x # NULL
  <2>1. x \in Pools /\ m.prev[x] \in Pools
    BY <1>3 DEF Memory, Heads
  <2>2. PICK a : a = ring_link(m, m.prev[x], y)
    OBVIOUS
  <2>3. a \in Memory /\ Links(a) = ring_link(Links(m), m.prev[x], y) /\ SamePools(m, a)
    BY <2>1, <2>2, LinkSet
  <2>4. n = ring_link(a, z, x)
    BY <1>3, <2>2 DEF Splice, SetHead
  <2>5. n \in Memory /\ Links(n) = ring_link(Links(a), z, x) /\ SamePools(a, n)
    BY <2>1, <2>3, <2>4, LinkSet
  <2>6. Links(n) = Splice(Links(m), y, z, l)
    BY <1>1, <1>3, <2>3, <2>5 DEF Splice, SetHead
  <2> QED BY <2>3, <2>5, <2>6 DEF SamePools, SameCounts
<1> QED BY <1>2, <1>3

-----------------------------------------------------------------------------
(* Layouts: the set of pools of each ring.                                 *)

Laid(m, R) ==
  /\ m \in Memory /\ R \in [Rings -> SUBSET Pools]
  /\ \A l \in Rings : OnRing(m, l, R[l])
  /\ \A l, k \in Rings : l # k => R[l] \cap R[k] = {}

Removed(R, q) == [k \in Rings |-> R[k] \ {q}]
Added(R, t, q) == [k \in Rings |-> IF k = t THEN R[k] \cup {q} ELSE R[k]]

Loose(m, R, q) ==
  /\ q \in Pools /\ Cycle(m.next, m.prev, {q})
  /\ \A k \in Rings : q \notin R[k]

\* Local variables are not rings.
LEMMA HeadsApart ==
  /\ Rings \cap Locals = {} /\ Rings \subseteq Heads /\ Locals \subseteq Heads
  /\ NULL \notin Pools
<1>1. "p" \notin Kinds
  BY DEF Kinds
<1>2. Rings \cap Locals = {}
  BY <1>1 DEF Rings, Locals
<1> QED BY <1>2, PoolAssumption DEF Heads

\* What can be said of a ring depends on heads and links only.
LEMMA LinksFields ==
  ASSUME NEW m
  PROVE  /\ Links(m).head = m.head /\ Links(m).next = m.next /\ Links(m).prev = m.prev
         /\ \A l, A : OnRing(Links(m), l, A) <=> OnRing(m, l, A)
BY DEF Links, OnRing

\* Two memories with the same links have the same rings.
LEMMA LaidSame ==
  ASSUME NEW m, NEW R, Laid(m, R), NEW n \in Memory, Links(n) = Links(m)
  PROVE  Laid(n, R)
<1>1. n.head = m.head /\ n.next = m.next /\ n.prev = m.prev
  BY LinksFields
<1> QED BY <1>1 DEF Laid, OnRing

\* The heads of the rings that stay, and the links of the nodes on them.
LEMMA LaidHead ==
  ASSUME NEW m, NEW R, Laid(m, R), NEW l \in Heads, NEW x \in Pools \cup {NULL},
         l \in Rings => x \in R[l]
  PROVE  Laid(SetHead(m, l, x), R)
<1>1. PICK n : n = SetHead(m, l, x)
  OBVIOUS
<1>2. m \in Memory
  BY DEF Laid
<1>3. /\ n \in Memory
      /\ n.next = m.next /\ n.prev = m.prev /\ n.head = [m.head EXCEPT ![l] = x]
  <2>1. /\ SetHead(m, l, x) \in Memory
        /\ SetHead(m, l, x).next = m.next /\ SetHead(m, l, x).prev = m.prev
        /\ SetHead(m, l, x).head = [m.head EXCEPT ![l] = x]
    BY <1>2, HeadSet
  <2> QED BY <1>1, <2>1
<1>4. \A k \in Rings : OnRing(n, k, R[k])
  <2> TAKE k \in Rings
  <2>1. n.head[k] = IF k = l THEN x ELSE m.head[k]
    BY <1>2, <1>3, HeadsApart DEF Memory, Heads
  <2>2. OnRing(m, k, R[k])
    BY DEF Laid
  <2>3. CASE k = l
    <3>1. R[k] # {} /\ m.head[k] \in R[k] /\ Cycle(m.next, m.prev, R[k])
      BY <2>2, <2>3 DEF OnRing
    <3> QED BY <1>3, <2>1, <2>3, <3>1 DEF OnRing
  <2>4. CASE k # l
    BY <1>3, <2>1, <2>2, <2>4 DEF OnRing
  <2> QED BY <2>3, <2>4
<1> QED BY <1>1, <1>3, <1>4 DEF Laid

\* Where the pool at *l comes from: the ring at *l, the middle of another ring,
\* or none.
Source(m, R, l, A) ==
  /\ l \in Heads /\ m.head[l] # NULL /\ A \in SUBSET Pools /\ OnRing(m, l, A)
  /\ \/ l \in Rings /\ A = R[l]
     \/ l \in Locals /\ \E h \in Rings : A = R[h] /\ m.head[h] # m.head[l]
     \/ l \in Locals /\ \A h \in Rings : A \cap R[h] = {}

\* ring_pop takes the first pool of the ring out of the layout, as a ring of
\* its own.
LEMMA PopLaid ==
  ASSUME NEW m, NEW R, Laid(m, R), NEW l, NEW A, Source(m, R, l, A)
  PROVE  /\ Laid(ring_pop(m, l), Removed(R, m.head[l]))
         /\ Loose(ring_pop(m, l), Removed(R, m.head[l]), m.head[l])
         /\ SamePools(m, ring_pop(m, l))
         /\ Apart(Heads, Pools, m, l, A, ring_pop(m, l))
         /\ HeadPopped(Heads, m, l, ring_pop(m, l))
         /\ Skipped(m, m.head[l], A, ring_pop(m, l))
<1>1. PICK q : q = m.head[l]
  OBVIOUS
<1>2. PICK n : n = ring_pop(m, l)
  OBVIOUS
<1>3. PICK k : k = Links(m)
  OBVIOUS
<1>4. PICK j : j = Links(n)
  OBVIOUS
<1>5. /\ m \in Memory /\ l \in Heads /\ A \in SUBSET Pools /\ q \in A /\ q # NULL
      /\ Cycle(m.next, m.prev, A) /\ OnRing(k, l, A) /\ k.head[l] = q
      /\ k \in RingMemory(Heads, Pools)
  BY <1>1, <1>3, LinksTyped, LinksFields DEF Laid, Source, OnRing
<1>6. n \in Memory /\ j = ring_pop(k, l) /\ SamePools(m, n)
  BY <1>1, <1>2, <1>3, <1>4, <1>5, PopSet
<1>7. /\ OnRing(j, l, A \ {q}) /\ Cycle(j.next, j.prev, {q})
      /\ Apart(Heads, Pools, k, l, A, j) /\ HeadPopped(Heads, k, l, j) /\ Skipped(k, q, A, j)
  <2>1. NULL \notin Pools
    BY HeadsApart
  <2>2. k.head[l] # NULL
    BY <1>5
  <2>3. /\ OnRing(ring_pop(k, l), l, A \ {k.head[l]})
        /\ Cycle(ring_pop(k, l).next, ring_pop(k, l).prev, {k.head[l]})
        /\ Apart(Heads, Pools, k, l, A, ring_pop(k, l))
        /\ HeadPopped(Heads, k, l, ring_pop(k, l))
        /\ Skipped(k, k.head[l], A, ring_pop(k, l))
    BY <1>5, <2>1, <2>2, PopRing
  <2> QED BY <1>5, <1>6, <2>3
<1>8. /\ j.head = n.head /\ j.next = n.next /\ j.prev = n.prev
      /\ k.head = m.head /\ k.next = m.next /\ k.prev = m.prev
  BY <1>3, <1>4, LinksFields
<1>9. /\ OnRing(n, l, A \ {q}) /\ Cycle(n.next, n.prev, {q})
      /\ Apart(Heads, Pools, m, l, A, n) /\ HeadPopped(Heads, m, l, n) /\ Skipped(m, q, A, n)
  BY <1>7, <1>8 DEF OnRing, Apart, HeadPopped, Skipped
<1>10. A = {q} \/ Cycle(n.next, n.prev, A \ {q})
  BY <1>5, <1>9 DEF OnRing
<1>11. \A h \in Rings : OnRing(n, h, R[h] \ {q})
  <2> TAKE h \in Rings
  <2>1. OnRing(m, h, R[h]) /\ R[h] \in SUBSET Pools /\ h \in Heads
    BY HeadsApart DEF Laid
  <2>2. CASE h = l
    BY <1>9, <2>2, HeadsApart DEF Source
  <2>3. CASE h # l /\ A \cap R[h] = {}
    <3>1. n.head[h] = m.head[h]
      BY <1>9, <2>1, <2>3 DEF Apart
    <3>2. \A s \in R[h] : n.next[s] = m.next[s] /\ n.prev[s] = m.prev[s]
      BY <1>9, <2>1, <2>3 DEF Apart
    <3>3. OnRing(n, h, R[h])
      BY <2>1, <3>1, <3>2, OnRingFrame
    <3> QED BY <1>5, <2>3, <3>3
  <2>4. CASE h # l /\ A \cap R[h] # {}
    <3>1. A = R[h] /\ m.head[h] # q
      BY <1>1, <2>4 DEF Source, Laid
    <3>2. n.head[h] = m.head[h]
      BY <1>9, <2>1, <2>4 DEF Apart
    <3>3. m.head[h] \in A \ {q}
      BY <1>5, <2>1, <3>1 DEF OnRing
    <3> QED BY <1>10, <3>1, <3>2, <3>3 DEF OnRing
  <2> QED BY <2>2, <2>3, <2>4
<1>12. Laid(n, Removed(R, q))
  BY <1>6, <1>11 DEF Laid, Removed
<1>13. Loose(n, Removed(R, q), q)
  BY <1>5, <1>9 DEF Loose, Removed
<1> QED BY <1>1, <1>2, <1>6, <1>9, <1>12, <1>13

\* A loose pool is put at the back of the ring t.
LEMMA PushLaid ==
  ASSUME NEW m, NEW R, Laid(m, R), NEW q, Loose(m, R, q), NEW t \in Rings
  PROVE  /\ Laid(Splice(m, q, q, t), Added(R, t, q))
         /\ SamePools(m, Splice(m, q, q, t))
         /\ Apart(Heads, Pools, m, t, R[t] \cup {q}, Splice(m, q, q, t))
         /\ Pushed(Pools, m, q, t, Splice(m, q, q, t))
<1>1. PICK n : n = Splice(m, q, q, t)
  OBVIOUS
<1>2. PICK k : k = Links(m)
  OBVIOUS
<1>3. PICK j : j = Links(n)
  OBVIOUS
<1>4. PICK A \in SUBSET Pools : A = R[t]
  BY DEF Laid
<1>5. PICK B : B = {q}
  OBVIOUS
<1>6. /\ m \in Memory /\ t \in Heads /\ q \in B /\ B \in SUBSET Pools /\ A \cap B = {}
      /\ m.prev[q] = q /\ Cycle(m.next, m.prev, B) /\ OnRing(m, t, A)
      /\ q \in Pools /\ q # NULL
  BY <1>4, <1>5, HeadsApart DEF Laid, Loose, Cycle
<1>7. /\ k.head = m.head /\ k.next = m.next /\ k.prev = m.prev
      /\ j.head = n.head /\ j.next = n.next /\ j.prev = n.prev
  BY <1>2, <1>3, LinksFields
<1>8. /\ k \in RingMemory(Heads, Pools) /\ OnRing(k, t, A) /\ Cycle(k.next, k.prev, B)
      /\ k.prev[q] = q
  BY <1>2, <1>6, <1>7, LinksTyped DEF OnRing
<1>9. n \in Memory /\ j = Splice(k, q, q, t) /\ SamePools(m, n)
  <2>1. /\ Splice(m, q, q, t) \in Memory /\ SamePools(m, Splice(m, q, q, t))
        /\ Links(Splice(m, q, q, t)) = Splice(Links(m), q, q, t)
    BY <1>6, SpliceSet
  <2> QED BY <1>1, <1>2, <1>3, <2>1
<1>10. j = ring_push_back(k, q, t)
  BY <1>6, <1>8, <1>9 DEF ring_push_back
<1>11. /\ OnRing(j, t, A \cup B) /\ Apart(Heads, Pools, k, t, A \cup B, j)
       /\ Pushed(Pools, k, q, t, j)
  <2>1. NULL \notin Pools
    BY HeadsApart
  <2>2. /\ OnRing(ring_push_back(k, q, t), t, A \cup B)
        /\ Apart(Heads, Pools, k, t, A \cup B, ring_push_back(k, q, t))
        /\ Pushed(Pools, k, q, t, ring_push_back(k, q, t))
    BY <1>6, <1>8, <2>1, PushRing
  <2> QED BY <1>10, <2>2
<1>12. /\ OnRing(n, t, A \cup B) /\ Apart(Heads, Pools, m, t, A \cup B, n)
       /\ Pushed(Pools, m, q, t, n)
  BY <1>7, <1>11 DEF OnRing, Apart, Pushed
<1>13. \A h \in Rings : OnRing(n, h, Added(R, t, q)[h])
  <2> TAKE h \in Rings
  <2>1. OnRing(m, h, R[h]) /\ R[h] \in SUBSET Pools /\ h \in Heads
    BY HeadsApart DEF Laid
  <2>2. CASE h = t
    BY <1>4, <1>5, <1>12, <2>2 DEF Added
  <2>3. CASE h # t
    <3>1. n.head[h] = m.head[h]
      BY <1>12, <2>1, <2>3 DEF Apart
    <3>2. R[h] \cap (A \cup B) = {}
      BY <1>4, <1>5, <2>3 DEF Laid, Loose
    <3>3. \A s \in R[h] : n.next[s] = m.next[s] /\ n.prev[s] = m.prev[s]
      BY <1>12, <2>1, <3>2 DEF Apart
    <3>4. OnRing(n, h, R[h])
      BY <2>1, <3>1, <3>3, OnRingFrame
    <3> QED BY <2>3, <3>4 DEF Added
  <2> QED BY <2>2, <2>3
<1>14. Laid(n, Added(R, t, q))
  <2>1. Added(R, t, q) \in [Rings -> SUBSET Pools]
    BY <1>6 DEF Laid, Added
  <2>2. \A g, h \in Rings : g # h => Added(R, t, q)[g] \cap Added(R, t, q)[h] = {}
    BY DEF Laid, Added, Loose
  <2> QED BY <1>9, <1>13, <2>1, <2>2 DEF Laid
<1> QED BY <1>1, <1>4, <1>5, <1>9, <1>12, <1>14

-----------------------------------------------------------------------------
(* reclassify_pool.                                                        *)

Classes == {"YOUNG", "OLD", "UNTRACKED"}
RingOf(d, cl) ==
  <<d, CASE cl = "OLD" -> "old" [] cl = "YOUNG" -> "young" [] cl = "UNTRACKED" -> "free">>
MoveTo(R, q, t) == [k \in Rings |-> IF k = t THEN R[k] \cup {q} ELSE R[k] \ {q}]

\* The head of the ring h once q is popped.
HeadAfter(m, h, q) == IF m.head[h] = q THEN m.next[q] ELSE m.head[h]

\* What reclassify_pool makes of m, when the pool q at *l comes from A.
Reclassified(m, R, l, A, d, cl, n) ==
  LET q == m.head[l]  t == RingOf(d, cl)
  IN /\ Laid(n, MoveTo(R, q, t))
     /\ SameCounts(m, n)
     /\ n.class = [m.class EXCEPT ![q] = cl]
     /\ n.domain_id = [m.domain_id EXCEPT ![q] = d]
     /\ \A k \in Heads \ {l, t} : n.head[k] = m.head[k]
     /\ \A s \in Pools \ (A \cup R[t]) : n.next[s] = m.next[s] /\ n.prev[s] = m.prev[s]
     /\ \A s \in A \ {q} : NextWithout(n, s, q) = NextWithout(m, s, q)
     /\ l # t => n.head[l] = IF m.next[q] = q THEN NULL ELSE m.next[q]
     /\ is_not_too_full(m, q) => n.head[t] = q
     /\ A = R[t] /\ A # {q} /\ is_not_too_full(m, q) => n.next[q] = HeadAfter(m, t, q)

\* The ring that reclassify_pool moves a pool to.
LEMMA RingOfIsRing ==
  ASSUME NEW d \in Domains, NEW cl \in Classes
  PROVE  RingOf(d, cl) \in Rings /\ RingOf(d, cl) \in Heads
BY HeadsApart DEF RingOf, Classes, Rings, Kinds

Tagged(m, q, d, cl) == [m EXCEPT !.domain_id[q] = d, !.class[q] = cl]

\* Writing the domain and the class of a pool leaves its links and counts.
LEMMA TagSet ==
  ASSUME NEW m \in Memory, NEW q \in Pools, NEW d \in Domains, NEW cl \in Classes
  PROVE  /\ Tagged(m, q, d, cl) \in Memory /\ Links(Tagged(m, q, d, cl)) = Links(m)
         /\ SameCounts(m, Tagged(m, q, d, cl))
         /\ Tagged(m, q, d, cl).class = [m.class EXCEPT ![q] = cl]
         /\ Tagged(m, q, d, cl).domain_id = [m.domain_id EXCEPT ![q] = d]
<1> DEFINE n == Tagged(m, q, d, cl)
<1>1. n \in Memory
  BY DEF Memory, Classes, Tagged
<1>2. n.head = m.head /\ n.next = m.next /\ n.prev = m.prev
  BY DEF Memory, Tagged
<1>3. SameCounts(m, n)
  BY DEF Memory, SameCounts, Tagged
<1>4. n.class = [m.class EXCEPT ![q] = cl] /\ n.domain_id = [m.domain_id EXCEPT ![q] = d]
  BY DEF Memory, Tagged
<1> QED BY <1>1, <1>2, <1>3, <1>4 DEF Links

\* reclassify_pool moves the first pool of *l to the ring of the class, and no
\* other.
LEMMA ReclassifyIs ==
  ASSUME NEW m, NEW R, Laid(m, R), NEW l, NEW A, Source(m, R, l, A),
         NEW d \in Domains, NEW cl \in Classes
  PROVE  Reclassified(m, R, l, A, d, cl, reclassify_pool(m, l, d, cl))
<1>1. PICK q : q = m.head[l]
  OBVIOUS
<1>2. PICK t : t = RingOf(d, cl)
  OBVIOUS
<1>3. PICK a : a = ring_pop(m, l)
  OBVIOUS
<1>4. PICK b : b = Tagged(a, q, d, cl)
  OBVIOUS
<1>5. PICK c : c = Splice(b, q, q, t)
  OBVIOUS
<1>6. PICK n : n = reclassify_pool(m, l, d, cl)
  OBVIOUS
<1>7. n = IF is_not_too_full(c, q) THEN SetHead(c, t, q) ELSE c
  BY <1>1, <1>2, <1>3, <1>4, <1>5, <1>6 DEF reclassify_pool, SetHead, Tagged, RingOf
<1>8. PICK Q : Q = Removed(R, q)
  OBVIOUS
<1>9. /\ Laid(a, Q) /\ Loose(a, Q, q) /\ SamePools(m, a)
      /\ Apart(Heads, Pools, m, l, A, a) /\ HeadPopped(Heads, m, l, a)
      /\ Skipped(m, q, A, a)
  BY <1>1, <1>3, <1>8, PopLaid
<1>10. /\ q \in Pools /\ q \in A /\ A \in SUBSET Pools /\ t \in Rings /\ t \in Heads
       /\ a \in Memory /\ m \in Memory /\ l \in Heads /\ Cycle(m.next, m.prev, A)
  BY <1>1, <1>2, <1>9, RingOfIsRing DEF Laid, Loose, Source, OnRing
<1>11. /\ b \in Memory /\ Links(b) = Links(a) /\ SameCounts(a, b)
       /\ b.class = [a.class EXCEPT ![q] = cl]
       /\ b.domain_id = [a.domain_id EXCEPT ![q] = d]
  <2>1. /\ Tagged(a, q, d, cl) \in Memory /\ Links(Tagged(a, q, d, cl)) = Links(a)
        /\ SameCounts(a, Tagged(a, q, d, cl))
        /\ Tagged(a, q, d, cl).class = [a.class EXCEPT ![q] = cl]
        /\ Tagged(a, q, d, cl).domain_id = [a.domain_id EXCEPT ![q] = d]
    BY <1>10, TagSet
  <2> QED BY <1>4, <2>1
<1>12. b.head = a.head /\ b.next = a.next /\ b.prev = a.prev
  BY <1>11, LinksFields
<1>13. Laid(b, Q) /\ Loose(b, Q, q)
  BY <1>9, <1>11, <1>12, LaidSame DEF Loose
<1>14. /\ Laid(c, Added(Q, t, q)) /\ SamePools(b, c)
       /\ Apart(Heads, Pools, b, t, Q[t] \cup {q}, c) /\ Pushed(Pools, b, q, t, c)
  BY <1>5, <1>10, <1>13, PushLaid
<1>15. c \in Memory /\ Added(Q, t, q) = MoveTo(R, q, t)
  BY <1>8, <1>14 DEF Laid, Added, Removed, MoveTo
<1>16. SetHead(c, t, q) \in Memory /\ Laid(SetHead(c, t, q), Added(Q, t, q))
  <2>1. q \in Pools \cup {NULL} /\ q \in Added(Q, t, q)[t]
    BY <1>10 DEF Added
  <2>2. Laid(SetHead(c, t, q), Added(Q, t, q))
    BY <1>10, <1>14, <2>1, LaidHead
  <2> QED BY <2>2 DEF Laid
<1>17. /\ SamePools(c, SetHead(c, t, q))
       /\ SetHead(c, t, q).next = c.next /\ SetHead(c, t, q).prev = c.prev
       /\ SetHead(c, t, q).head = [c.head EXCEPT ![t] = q]
  <2>1. q \in Pools \cup {NULL}
    BY <1>10
  <2> QED BY <1>10, <1>15, <2>1, HeadSet
<1>18. n \in Memory /\ Laid(n, MoveTo(R, q, t)) /\ SamePools(c, n)
       /\ n.next = c.next /\ n.prev = c.prev
       /\ \A k \in Heads \ {t} : n.head[k] = c.head[k]
  BY <1>7, <1>14, <1>15, <1>16, <1>17 DEF SamePools, SameCounts, Memory, Heads
<1>19. is_not_too_full(c, q) <=> is_not_too_full(m, q)
  BY <1>9, <1>11, <1>14 DEF is_not_too_full, SamePools, SameCounts
<1>20. is_not_too_full(m, q) => n.head[t] = q
  BY <1>7, <1>10, <1>15, <1>17, <1>19 DEF Memory, Heads
<1>21. \A k \in Heads \ {l, t} : n.head[k] = m.head[k]
  BY <1>9, <1>12, <1>14, <1>18 DEF Apart
<1>22. \A s \in Pools \ (A \cup R[t]) : n.next[s] = m.next[s] /\ n.prev[s] = m.prev[s]
  <2>1. Q[t] \subseteq R[t]
    BY <1>8, <1>10 DEF Removed
  <2> QED BY <1>9, <1>10, <1>12, <1>14, <1>18, <2>1 DEF Apart
<1>23. /\ \A s \in Q[t] : a.next[s] \in Q[t] /\ a.prev[s] \in Q[t]
                          /\ a.next[a.prev[s]] = s /\ a.prev[a.next[s]] = s
       /\ Q[t] # {} => a.head[t] \in Q[t]
       /\ a.head[t] # NULL => Q[t] # {}
       /\ q \notin Q[t] /\ a.prev[q] = q /\ a.next[q] = q
  BY <1>9, <1>10 DEF Laid, OnRing, Cycle, Loose
<1>29. \A s \in Pools : n.next[s] =
         IF a.head[t] # NULL /\ s = a.prev[a.head[t]] THEN q
         ELSE IF a.head[t] # NULL /\ s = a.prev[q] THEN a.head[t]
         ELSE a.next[s]
  BY <1>12, <1>14, <1>18 DEF Pushed
<1>24. \A s \in A \ {q} : NextWithout(n, s, q) = NextWithout(m, s, q)
  <2> TAKE s \in A \ {q}
  <2>1. a.next[s] = NextWithout(m, s, q)
    BY <1>9 DEF Skipped, NextWithout
  <2>2. a.next[s] # q
    <3>1. m.next[s] = q => m.next[q] # q
      BY <1>10 DEF Cycle
    <3> QED BY <1>9, <3>1 DEF Skipped
  <2>3. n.next[s] = IF a.head[t] # NULL /\ s = a.prev[a.head[t]] THEN q ELSE a.next[s]
    <3>1. a.head[t] # NULL => s # a.prev[q]
      BY <1>23
    <3> QED BY <1>10, <1>29, <3>1
  <2>4. a.head[t] # NULL => n.next[q] = a.head[t]
    <3>1. a.head[t] # NULL => a.head[t] \in Q[t] /\ a.prev[a.head[t]] # q
      BY <1>23
    <3>2. q \in Pools /\ a.prev[q] = q
      BY <1>10, <1>23
    <3> QED BY <1>29, <3>1, <3>2
  <2>5. a.head[t] # NULL /\ s = a.prev[a.head[t]] => a.next[s] = a.head[t]
    BY <1>23
  <2> QED BY <2>1, <2>2, <2>3, <2>4, <2>5 DEF NextWithout
<1>25. A = R[t] /\ A # {q} /\ is_not_too_full(m, q) => n.next[q] = HeadAfter(m, t, q)
  <2> SUFFICES ASSUME A = R[t], A # {q} PROVE n.next[q] = HeadAfter(m, t, q)
    OBVIOUS
  <2>1. Q[t] = A \ {q} /\ Q[t] # {}
    BY <1>8, <1>10 DEF Removed
  <2>2. a.head[t] \in Q[t] /\ a.head[t] # NULL
    BY <2>1, <1>23, <1>9, <1>10, HeadsApart DEF Laid, OnRing
  <2>3. n.next[q] = a.head[t]
    <3>1. q \in Pools /\ a.prev[q] = q /\ a.prev[a.head[t]] # q
      BY <1>10, <1>23, <2>2
    <3> QED BY <1>29, <2>2, <3>1
  <2>4. a.head[t] = HeadAfter(m, t, q)
    <3>1. CASE t = l
      <4>1. m.next[q] # q
        <5>1. PICK nx, pv : nx = m.next /\ pv = m.prev
          OBVIOUS
        <5> QED BY <1>10, <5>1, CycleOfOne
      <4> QED BY <1>1, <1>9, <1>10, <3>1, <4>1 DEF HeadPopped, HeadAfter
    <3>2. CASE t # l
      <4>1. a.head[t] = m.head[t]
        BY <1>9, <1>10, <3>2 DEF Apart
      <4> QED BY <4>1, <2>1, <2>2 DEF HeadAfter
    <3> QED BY <3>1, <3>2
  <2> QED BY <2>3, <2>4
<1>26. /\ SameCounts(m, n)
       /\ n.class = [m.class EXCEPT ![q] = cl]
       /\ n.domain_id = [m.domain_id EXCEPT ![q] = d]
  BY <1>9, <1>11, <1>14, <1>18 DEF SamePools, SameCounts
<1>28. l # t => n.head[l] = IF m.next[q] = q THEN NULL ELSE m.next[q]
  <2> SUFFICES ASSUME l # t PROVE n.head[l] = IF m.next[q] = q THEN NULL ELSE m.next[q]
    OBVIOUS
  <2>1. a.head[l] = IF m.next[q] = q THEN NULL ELSE m.next[q]
    BY <1>1, <1>9, <1>10 DEF HeadPopped
  <2> QED BY <2>1, <1>10, <1>12, <1>14, <1>18 DEF Apart
<1>27. Reclassified(m, R, l, A, d, cl, n)
  BY <1>1, <1>2, <1>18, <1>20, <1>21, <1>22, <1>24, <1>25, <1>26, <1>28 DEF Reclassified
<1> QED BY <1>6, <1>27

-----------------------------------------------------------------------------
(* What holds of the memory between two steps; X is the set of the pools    *)
(* that are mapped and on no ring, in the middle of an operation.           *)

Cur(R) == UNION {R[<<d, "current">>] : d \in Domains}
Held(R, q) == IF q \in Cur(R) THEN 1 ELSE 0

Sync(m, R) ==
  \A l \in Rings : \A q \in R[l] :
    /\ m.class[q] = CASE l[2] = "old" -> "OLD" [] l[2] = "free" -> "UNTRACKED" [] OTHER -> "YOUNG"
    /\ l[1] # Orphan => m.domain_id[q] = l[1]

OneCurrent(R) == \A d \in Domains : \A x, y \in R[<<d, "current">>] : x = y

Counted(m, R, q) ==
  /\ m.alloc_count[q] - Held(R, q) \in 0 .. POOL_CAPACITY
  /\ m.alloc_count[q] + m.delayed_count[q] - Held(R, q) >= 0
  /\ q \notin m.mapped => m.alloc_count[q] = 0 /\ m.delayed_count[q] = 0
  /\ \A d \in Domains : q \in R[<<d, "free">>] => m.alloc_count[q] + m.delayed_count[q] = 0

Good(m, R, X) ==
  /\ Laid(m, R)
  /\ m.mapped = X \cup UNION {R[l] : l \in Rings}
  /\ \A l \in Rings : X \cap R[l] = {}
  /\ Sync(m, R) /\ OneCurrent(R)
  /\ \A q \in Pools : Counted(m, R, q)
  /\ \A q \in Pools \ m.mapped : m.next[q] = q /\ m.prev[q] = q

\* What the rings of the other domains see of an operation of d.
Changes(m, R, n, R1, d) ==
  \A l \in Rings : l[1] \notin {d, Orphan} =>
    /\ R1[l] = R[l] /\ n.head[l] = m.head[l]
    /\ \A s \in R[l] : n.next[s] = m.next[s]

\* No pool is orphaned.
NoOrphan(m, R, n, R1) ==
  \A l \in Rings : l[1] = Orphan =>
    R1[l] \subseteq R[l] /\ \A q \in R1[l] : n.domain_id[q] = m.domain_id[q]

\* Pools have room.
LEMMA Capacity == POOL_CAPACITY \in Nat /\ POOL_CAPACITY > 0
<1>1. POOL_CAPACITY \in Int
  BY SizeAssumption DEF POOL_CAPACITY
<1> QED BY <1>1, SizeAssumption

\* The rings of a domain, by kind.
LEMMA RingNames ==
  ASSUME NEW d \in Domains
  PROVE  /\ \A k \in Kinds : <<d, k>> \in Rings
         /\ <<d, "old">> \in Rings /\ <<d, "young">> \in Rings
         /\ <<d, "current">> \in Rings /\ <<d, "free">> \in Rings
         /\ <<Orphan, "old">> \in Rings /\ <<Orphan, "young">> \in Rings
         /\ <<d, "p">> \in Locals /\ <<d, "p">> \in Heads /\ d # Orphan
BY DomainAssumption DEF Rings, Kinds, Locals, Heads

\* The pool of a current ring is current.
LEMMA InCur ==
  ASSUME NEW R, NEW q
  PROVE  q \in Cur(R) <=> \E d \in Domains : q \in R[<<d, "current">>]
BY DEF Cur

\* The count of a pool is one too many as long as it is at the head of a
\* current ring.
LEMMA HeldIsBias ==
  ASSUME NEW m, NEW R, Laid(m, R), OneCurrent(R), NEW q \in Pools
  PROVE  Bias(m, q) = Held(R, q) /\ (IsCurrent(m, q) <=> q \in Cur(R))
<1>1. ASSUME NEW d \in Domains
      PROVE  m.head[<<d, "current">>] = q <=> q \in R[<<d, "current">>]
  <2>1. OnRing(m, <<d, "current">>, R[<<d, "current">>])
    BY RingNames DEF Laid
  <2> QED BY <2>1, HeadsApart DEF OnRing, OneCurrent
<1> QED BY <1>1 DEF Bias, Held, IsCurrent, Cur

\* Moving a pool that is not current to a ring of d.
LEMMA MoveGood ==
  ASSUME NEW m, NEW R, NEW X, Good(m, R, X), NEW l, NEW A, Source(m, R, l, A),
         NEW d \in Domains, NEW cl \in Classes, NEW n, Reclassified(m, R, l, A, d, cl, n),
         NEW q, q = m.head[l], q \notin Cur(R), A \subseteq m.mapped,
         cl = "UNTRACKED" => m.alloc_count[q] + m.delayed_count[q] = 0
  PROVE  Good(n, MoveTo(R, q, RingOf(d, cl)), X \ {q})
<1>1. PICK t \in Rings : t = RingOf(d, cl) /\ t[2] # "current"
  BY RingOfIsRing DEF RingOf, Classes
<1>2. PICK Q : Q = MoveTo(R, q, t)
  OBVIOUS
<1>3. /\ Laid(n, Q) /\ SameCounts(m, n)
      /\ n.class = [m.class EXCEPT ![q] = cl]
      /\ n.domain_id = [m.domain_id EXCEPT ![q] = d]
      /\ \A s \in Pools \ (A \cup R[t]) : n.next[s] = m.next[s] /\ n.prev[s] = m.prev[s]
  BY <1>1, <1>2 DEF Reclassified
<1>4. /\ m \in Memory /\ q \in A /\ q \in Pools /\ R \in [Rings -> SUBSET Pools]
      /\ Q \in [Rings -> SUBSET Pools]
      /\ \A k \in Rings : Q[k] = IF k = t THEN R[k] \cup {q} ELSE R[k] \ {q}
  BY <1>2, <1>3 DEF Good, Laid, Source, OnRing, MoveTo
<1>5. q \in m.mapped /\ n.mapped = m.mapped
  BY <1>3, <1>4 DEF SameCounts
<1>6. n.mapped = (X \ {q}) \cup UNION {Q[k] : k \in Rings}
  <2>1. m.mapped = X \cup UNION {R[k] : k \in Rings}
    BY DEF Good
  <2> QED BY <1>4, <1>5, <2>1
<1>7. \A k \in Rings : (X \ {q}) \cap Q[k] = {}
  BY <1>4 DEF Good
<1>8. \A e \in Domains : Q[<<e, "current">>] = R[<<e, "current">>]
  <2> TAKE e \in Domains
  <2>1. PICK k \in Rings : k = <<e, "current">>
    BY RingNames
  <2>2. k # t
    BY <1>1, <2>1
  <2>3. q \notin R[k]
    BY <2>1 DEF Cur
  <2>4. Q[k] = R[k]
    <3>1. Q[k] = R[k] \ {q}
      BY <1>4, <2>2
    <3>2. R[k] \ {q} = R[k]
      BY <2>3
    <3> QED BY <3>1, <3>2
  <2> QED BY <2>1, <2>4
<1>9. OneCurrent(Q) /\ \A s : Held(Q, s) = Held(R, s)
  <2>1. OneCurrent(R)
    BY DEF Good
  <2>2. OneCurrent(Q)
    BY <1>8, <2>1 DEF OneCurrent
  <2>3. Cur(Q) = Cur(R)
    BY <1>8 DEF Cur
  <2> QED BY <2>2, <2>3 DEF Held
<1>10. Sync(n, Q)
  <2> SUFFICES ASSUME NEW k \in Rings, NEW s \in Q[k]
               PROVE /\ n.class[s] = CASE k[2] = "old" -> "OLD" [] k[2] = "free" -> "UNTRACKED"
                                       [] OTHER -> "YOUNG"
                     /\ k[1] # Orphan => n.domain_id[s] = k[1]
    BY DEF Sync
  <2>1. CASE s = q
    <3>1. k = t
      BY <1>4, <2>1
    <3>2. n.class[q] = cl /\ n.domain_id[q] = d
      BY <1>3, <1>4 DEF Memory
    <3> QED BY <1>1, <2>1, <3>1, <3>2 DEF RingOf, Classes
  <2>2. CASE s # q
    <3>1. s \in R[k] /\ s \in Pools
      BY <1>4, <2>2
    <3>2. n.class[s] = m.class[s] /\ n.domain_id[s] = m.domain_id[s]
      BY <1>3, <1>4, <2>2, <3>1 DEF Memory
    <3> QED BY <3>1, <3>2 DEF Good, Sync
  <2> QED BY <2>1, <2>2
<1>11. \A s \in Pools : Counted(n, Q, s)
  <2> TAKE s \in Pools
  <2>1. Counted(m, R, s)
    BY DEF Good
  <2>2. ASSUME NEW e \in Domains, s \in Q[<<e, "free">>]
        PROVE  m.alloc_count[s] + m.delayed_count[s] = 0
    <3>1. <<e, "free">> \in Rings
      BY RingNames
    <3>2. CASE s = q
      <4>1. <<e, "free">> = t
        BY <1>4, <2>2, <3>1, <3>2
      <4>2. cl = "UNTRACKED"
        BY <1>1, <4>1 DEF RingOf, Classes
      <4> QED BY <3>2, <4>2
    <3>3. CASE s # q
      <4>1. s \in R[<<e, "free">>]
        BY <1>4, <2>2, <3>1, <3>3
      <4> QED BY <2>1, <4>1 DEF Counted
    <3> QED BY <3>2, <3>3
  <2> QED BY <1>3, <1>9, <2>1, <2>2 DEF Counted, SameCounts
<1>12. \A s \in Pools \ n.mapped : n.next[s] = s /\ n.prev[s] = s
  <2>1. R[t] \subseteq m.mapped
    BY DEF Good
  <2> QED BY <1>3, <1>5, <2>1 DEF Good
<1> QED BY <1>1, <1>2, <1>3, <1>6, <1>7, <1>9, <1>10, <1>11, <1>12 DEF Good

\* The rings of the other domains stay, and no pool is orphaned.
LEMMA MoveChanges ==
  ASSUME NEW m, NEW R, Laid(m, R), NEW l, NEW A, Source(m, R, l, A),
         NEW d \in Domains, NEW cl \in Classes, NEW n, Reclassified(m, R, l, A, d, cl, n),
         NEW q, q = m.head[l], l[1] \in {d, Orphan},
         \A h \in Rings : h[1] \notin {d, Orphan} => A \cap R[h] = {}
  PROVE  /\ Changes(m, R, n, MoveTo(R, q, RingOf(d, cl)), d)
         /\ NoOrphan(m, R, n, MoveTo(R, q, RingOf(d, cl)))
<1>1. PICK t \in Rings : t = RingOf(d, cl) /\ t[1] = d
  BY RingOfIsRing DEF RingOf
<1>2. PICK Q : Q = MoveTo(R, q, t)
  OBVIOUS
<1>3. /\ n.domain_id = [m.domain_id EXCEPT ![q] = d]
      /\ \A k \in Heads \ {l, t} : n.head[k] = m.head[k]
      /\ \A s \in Pools \ (A \cup R[t]) : n.next[s] = m.next[s]
  BY <1>1, <1>2 DEF Reclassified
<1>4. /\ m \in Memory /\ q \in A /\ q \in Pools /\ R \in [Rings -> SUBSET Pools]
      /\ \A k \in Rings : Q[k] = IF k = t THEN R[k] \cup {q} ELSE R[k] \ {q}
      /\ \A h, k \in Rings : h # k => R[h] \cap R[k] = {}
  BY <1>2 DEF Laid, Source, OnRing, MoveTo
<1>5. Changes(m, R, n, Q, d)
  <2> SUFFICES ASSUME NEW k \in Rings, k[1] \notin {d, Orphan}
               PROVE  /\ Q[k] = R[k] /\ n.head[k] = m.head[k]
                      /\ \A s \in R[k] : n.next[s] = m.next[s]
    BY DEF Changes
  <2>1. k # t /\ k # l /\ k \in Heads /\ A \cap R[k] = {} /\ R[k] \cap R[t] = {}
    BY <1>1, <1>4, HeadsApart
  <2>2. Q[k] = R[k] \ {q} /\ R[k] \in SUBSET Pools
    BY <1>4, <2>1
  <2>3. R[k] \ {q} = R[k]
    BY <1>4, <2>1
  <2>4. n.head[k] = m.head[k]
    BY <1>3, <2>1
  <2>5. \A s \in R[k] : n.next[s] = m.next[s]
    BY <1>3, <2>1, <2>2
  <2> QED BY <2>2, <2>3, <2>4, <2>5
<1>6. NoOrphan(m, R, n, Q)
  <2> SUFFICES ASSUME NEW k \in Rings, k[1] = Orphan
               PROVE  Q[k] \subseteq R[k] /\ \A s \in Q[k] : n.domain_id[s] = m.domain_id[s]
    BY DEF NoOrphan
  <2>1. k # t
    BY <1>1, RingNames
  <2>2. Q[k] = R[k] \ {q} /\ R[k] \in SUBSET Pools
    BY <1>4, <2>1
  <2>3. \A s \in Pools \ {q} : n.domain_id[s] = m.domain_id[s]
    BY <1>3, <1>4 DEF Memory
  <2> QED BY <2>2, <2>3
<1> QED BY <1>1, <1>2, <1>5, <1>6

-----------------------------------------------------------------------------
(* Operations that leave the rings as they are.                            *)

SameButCounts(m, n) ==
  Links(n) = Links(m) /\ n.class = m.class /\ n.domain_id = m.domain_id /\ n.mapped = m.mapped

\* A change of the counts of a pool leaves the rings.
LEMMA CountGood ==
  ASSUME NEW m, NEW R, NEW X, Good(m, R, X), NEW n \in Memory, SameButCounts(m, n),
         NEW q \in Pools, Counted(n, R, q),
         \A s \in Pools \ {q} : n.alloc_count[s] = m.alloc_count[s]
                                /\ n.delayed_count[s] = m.delayed_count[s]
  PROVE  Good(n, R, X) /\ n.head = m.head /\ n.next = m.next
<1>1. n.head = m.head /\ n.next = m.next /\ n.prev = m.prev
  BY LinksFields DEF SameButCounts
<1>2. Laid(n, R)
  BY LaidSame DEF Good, SameButCounts
<1>3. Sync(n, R)
  BY DEF Good, Sync, SameButCounts
<1>4. \A s \in Pools : Counted(n, R, s)
  <2> TAKE s \in Pools
  <2>1. CASE s = q
    BY <2>1
  <2>2. CASE s # q
    <3>1. Counted(m, R, s)
      BY DEF Good
    <3> QED BY <2>2, <3>1 DEF Counted, SameButCounts
  <2> QED BY <2>1, <2>2
<1> QED BY <1>1, <1>2, <1>3, <1>4 DEF Good, SameButCounts

\* What a local variable leaves as it is.
KeptBut(m, l, x, n) ==
  /\ SamePools(m, n) /\ n.next = m.next /\ n.prev = m.prev
  /\ \A k \in Heads \ {l} : n.head[k] = m.head[k]
  /\ n.head[l] = x

\* A local variable is no ring.
LEMMA LocalGood ==
  ASSUME NEW m, NEW R, NEW X, Good(m, R, X), NEW l \in Locals, NEW x, x \in Pools \/ x = NULL,
         NEW n, n = SetHead(m, l, x)
  PROVE  Good(n, R, X) /\ KeptBut(m, l, x, n)
<1>1. m \in Memory /\ l \in Heads /\ l \notin Rings /\ x \in Pools \cup {NULL}
  BY HeadsApart DEF Good, Laid
<1>2. /\ SetHead(m, l, x) \in Memory
      /\ SamePools(m, SetHead(m, l, x))
      /\ SetHead(m, l, x).next = m.next /\ SetHead(m, l, x).prev = m.prev
      /\ SetHead(m, l, x).head = [m.head EXCEPT ![l] = x]
  BY <1>1, HeadSet
<1>3. Laid(SetHead(m, l, x), R)
  BY <1>1, LaidHead DEF Good
<1>4. /\ Laid(n, R) /\ SamePools(m, n) /\ n.next = m.next /\ n.prev = m.prev
      /\ n.head = [m.head EXCEPT ![l] = x]
  BY <1>2, <1>3
<1>5. Sync(n, R)
  BY <1>4 DEF Good, Sync, SamePools, SameCounts
<1>6. \A s \in Pools : Counted(n, R, s)
  <2> TAKE s \in Pools
  <2>1. Counted(m, R, s)
    BY DEF Good
  <2> QED BY <1>4, <2>1 DEF Counted, SamePools, SameCounts
<1>7. Good(n, R, X)
  BY <1>4, <1>5, <1>6 DEF Good, SamePools, SameCounts
<1>8. KeptBut(m, l, x, n)
  BY <1>1, <1>4 DEF Memory, Heads, KeptBut
<1> QED BY <1>7, <1>8

-----------------------------------------------------------------------------
(* The deletions of a pool are carried out.                                *)

\* gc_pool carries out the deletions of a pool and writes no link.
LEMMA GcPoolGood ==
  ASSUME NEW m, NEW R, NEW X, Good(m, R, X), NEW q \in Pools
  PROVE  /\ Good(gc_pool(m, q), R, X) /\ SameButCounts(m, gc_pool(m, q))
         /\ gc_pool(m, q).head = m.head /\ gc_pool(m, q).next = m.next
         /\ gc_pool(m, q).alloc_count[q] = m.alloc_count[q] + m.delayed_count[q]
         /\ gc_pool(m, q).delayed_count[q] = 0
<1>1. PICK n : n = gc_pool(m, q)
  OBVIOUS
<1>2. PICK a : a = m.alloc_count[q] + m.delayed_count[q]
  OBVIOUS
<1>3. Counted(m, R, q) /\ m \in Memory
  BY DEF Good, Laid
<1>4. POOL_CAPACITY \in Nat /\ Held(R, q) \in {0, 1}
  BY Capacity DEF Held
<1>5. m.delayed_count[q] \in -POOL_CAPACITY .. 0 /\ m.alloc_count[q] \in 0 .. POOL_CAPACITY + 1
  BY <1>3 DEF Memory
<1>6. a \in 0 .. POOL_CAPACITY + 1 /\ a - Held(R, q) \in 0 .. POOL_CAPACITY
  BY <1>2, <1>3, <1>4, <1>5 DEF Counted
<1>7. n = [m EXCEPT !.alloc_count[q] = a, !.delayed_count[q] = 0]
  BY <1>1, <1>2 DEF gc_pool, anticipated_alloc_count
<1>8. 0 \in -POOL_CAPACITY .. 0
  BY <1>4
<1>9. /\ n \in Memory
      /\ n.head = m.head /\ n.next = m.next /\ n.prev = m.prev /\ n.class = m.class
      /\ n.domain_id = m.domain_id /\ n.mapped = m.mapped
      /\ n.alloc_count = [m.alloc_count EXCEPT ![q] = a]
      /\ n.delayed_count = [m.delayed_count EXCEPT ![q] = 0]
  BY <1>3, <1>6, <1>7, <1>8 DEF Memory
<1>10. n.alloc_count[q] = a /\ n.delayed_count[q] = 0
  BY <1>3, <1>9 DEF Memory
<1>11. \A s \in Pools \ {q} : n.alloc_count[s] = m.alloc_count[s]
                              /\ n.delayed_count[s] = m.delayed_count[s]
  BY <1>3, <1>9 DEF Memory
<1>12. SameButCounts(m, n)
  BY <1>9 DEF SameButCounts, Links
<1>13. Counted(n, R, q)
  <2>1. q \notin n.mapped => n.alloc_count[q] = 0 /\ n.delayed_count[q] = 0
    BY <1>2, <1>3, <1>9, <1>10 DEF Counted
  <2>2. \A d \in Domains : q \in R[<<d, "free">>] => n.alloc_count[q] + n.delayed_count[q] = 0
    BY <1>2, <1>3, <1>10 DEF Counted
  <2> QED BY <1>4, <1>6, <1>10, <2>1, <2>2 DEF Counted
<1>14. Good(n, R, X)
  BY <1>9, <1>11, <1>12, <1>13, CountGood
<1> QED BY <1>1, <1>2, <1>9, <1>10, <1>12, <1>14

\* What a walk over the ring l of d makes of the pool q of the ring.
Flushed(m, R, l, q, n, R1) ==
  /\ n.delayed_count[q] = 0
  /\ \/ R1[l] = R[l] /\ n.head[l] = m.head[l] /\ n.next = m.next
     \/ /\ m.delayed_count[q] # 0
        /\ \A s \in R[l] \ {q} : NextWithout(n, s, q) = NextWithout(m, s, q)
        /\ \/ /\ R1[l] = R[l] \ {q}
              /\ n.head[l] = IF m.head[l] # q THEN m.head[l]
                             ELSE IF m.next[q] = q THEN NULL ELSE m.next[q]
           \/ /\ R1[l] = R[l] /\ n.head[l] = q
              /\ R[l] # {q} => n.next[q] = HeadAfter(m, l, q)

\* The memory after an operation of d, the rings of which are R1.
Operation(m, R, d, n, R1) ==
  /\ Good(n, R1, {}) /\ Changes(m, R, n, R1, d) /\ NoOrphan(m, R, n, R1)
  /\ R1[<<d, "current">>] \subseteq R[<<d, "current">>]

\* A memory with the same heads, links and domains is one operation away.
LEMMA OperationSame ==
  ASSUME NEW m, NEW R, NEW d, NEW n, Good(n, R, {}), n.head = m.head, n.next = m.next,
         n.domain_id = m.domain_id
  PROVE  Operation(m, R, d, n, R)
BY DEF Operation, Changes, NoOrphan

\* A pool of a ring of d, that is not current, is moved to a ring of d.
LEMMA MoveOperation ==
  ASSUME NEW m, NEW R, Good(m, R, {}), NEW d \in Domains, NEW l, NEW q, NEW A,
         Source(m, R, l, A), q = m.head[l], q \notin Cur(R),
         l[1] = d, NEW h \in Rings, A = R[h], h[1] = d, NEW cl \in Classes,
         cl = "UNTRACKED" => m.alloc_count[q] + m.delayed_count[q] = 0,
         NEW n, n = reclassify_pool(m, l, d, cl),
         NEW R1, R1 = MoveTo(R, q, RingOf(d, cl))
  PROVE  Operation(m, R, d, n, R1) /\ Reclassified(m, R, l, A, d, cl, n)
<1>1. Laid(m, R) /\ A \subseteq m.mapped
  BY DEF Good
<1>2. Reclassified(m, R, l, A, d, cl, n)
  BY <1>1, ReclassifyIs
<1>3. Good(n, R1, {} \ {q})
  BY <1>1, <1>2, MoveGood
<1>4. \A k \in Rings : k[1] \notin {d, Orphan} => A \cap R[k] = {}
  BY <1>1 DEF Laid
<1>5. Changes(m, R, n, R1, d) /\ NoOrphan(m, R, n, R1)
  BY <1>1, <1>2, <1>4, MoveChanges
<1>6. R1[<<d, "current">>] \subseteq R[<<d, "current">>]
  <2>1. RingOf(d, cl) # <<d, "current">>
    BY DEF RingOf, Classes
  <2> QED BY <2>1, RingNames DEF MoveTo
<1>7. {} \ {q} = {}
  OBVIOUS
<1> QED BY <1>2, <1>3, <1>5, <1>6, <1>7 DEF Operation

\* The class of a pool names its ring.
LEMMA ClassOf ==
  ASSUME NEW m, NEW R, NEW X, Good(m, R, X), NEW d \in Domains, NEW k \in {"old", "young", "free"},
         NEW l, l = <<d, k>>, NEW q \in R[l]
  PROVE  /\ q \in Pools /\ q \in m.mapped /\ m.class[q] \in Classes
         /\ RingOf(d, m.class[q]) = l /\ m.domain_id[q] = d
         /\ q \notin Cur(R) /\ Held(R, q) = 0
         /\ MoveTo(R, q, l) = R
<1>1. PICK h \in Rings : h = l
  BY RingNames
<1>2. /\ q \in R[h] /\ R \in [Rings -> SUBSET Pools] /\ h[1] # Orphan
      /\ \A j \in Rings : j # h => R[j] \cap R[h] = {}
  BY <1>1, RingNames DEF Good, Laid
<1>3. q \in Pools /\ q \in m.mapped
  BY <1>2 DEF Good
<1>4. /\ m.class[q] = CASE h[2] = "old" -> "OLD" [] h[2] = "free" -> "UNTRACKED" [] OTHER -> "YOUNG"
      /\ m.domain_id[q] = h[1]
  BY <1>2 DEF Good, Sync
<1>5. m.class[q] \in Classes /\ RingOf(d, m.class[q]) = l /\ m.domain_id[q] = d
  BY <1>1, <1>4 DEF Classes, RingOf
<1>6. q \notin Cur(R)
  <2> SUFFICES ASSUME NEW e \in Domains, q \in R[<<e, "current">>] PROVE FALSE
    BY DEF Cur
  <2>1. <<e, "current">> \in Rings /\ <<e, "current">> # h
    BY <1>1, RingNames
  <2> QED BY <1>2, <2>1
<1>7. MoveTo(R, q, h) = R
  <2>1. \A j \in Rings : R[j] = IF j = h THEN R[j] \cup {q} ELSE R[j] \ {q}
    <3> TAKE j \in Rings
    <3>1. CASE j = h
      <4>1. R[j] = R[j] \cup {q}
        BY <1>2, <3>1
      <4> QED BY <3>1, <4>1
    <3>2. CASE j # h
      <4>1. R[j] = R[j] \ {q}
        BY <1>2, <3>2
      <4> QED BY <3>2, <4>1
    <3> QED BY <3>1, <3>2
  <2> QED BY <1>2, <2>1 DEF MoveTo
<1> QED BY <1>1, <1>3, <1>5, <1>6, <1>7 DEF Held

\* Where the pool q is found: at the head of its ring, or in a local variable.
Found(m, l, q, d, l0) ==
  /\ m.head[l0] = q
  /\ l0 = l \/ (l0 = <<d, "p">> /\ m.head[l] # q)

\* The pool of a walk can be popped through its head or the local variable.
LEMMA FoundSource ==
  ASSUME NEW m, NEW R, Laid(m, R), NEW d \in Domains, NEW l \in Rings, l[1] = d, NEW q \in R[l],
         NEW l0, Found(m, l, q, d, l0)
  PROVE  Source(m, R, l0, R[l]) /\ l0[1] = d
<1>1. l0 \in Heads /\ (l0 = l \/ l0 \in Locals)
  BY HeadsApart, RingNames DEF Found
<1>2. OnRing(m, l, R[l]) /\ R[l] \in SUBSET Pools /\ q \in Pools
  BY DEF Laid
<1>3. m.head[l0] # NULL
  BY <1>2, HeadsApart DEF Found
<1>4. Cycle(m.next, m.prev, R[l])
  BY <1>2 DEF OnRing
<1>5. OnRing(m, l0, R[l])
  BY <1>4 DEF OnRing, Found
<1>6. \/ l0 \in Rings /\ R[l] = R[l0]
      \/ l0 \in Locals /\ \E h \in Rings : R[l] = R[h] /\ m.head[h] # m.head[l0]
  BY <1>1 DEF Found
<1>7. l0[1] = d
  BY DEF Found
<1> QED BY <1>1, <1>2, <1>3, <1>5, <1>6, <1>7 DEF Source

\* try_gc_and_reclassify_pool leaves the pool, takes it out of the ring, or
\* puts it in front.
LEMMA TryGcIs ==
  ASSUME NEW m, NEW R, Good(m, R, {}), NEW d \in Domains, NEW k \in {"old", "young"},
         NEW l, l = <<d, k>>, NEW q \in R[l], NEW l0, Found(m, l, q, d, l0),
         NEW n, n = try_gc_and_reclassify_pool(m, l0, d)
  PROVE  \E R1 : Operation(m, R, d, n, R1) /\ Flushed(m, R, l, q, n, R1)
<1>1. l \in Rings /\ l[1] = d /\ l \in Heads
  BY RingNames, HeadsApart
<1>2. q \in Pools /\ q \in m.mapped /\ q \notin Cur(R)
  BY ClassOf
<1>3. PICK g : g = gc_pool(m, q)
  OBVIOUS
<1>4. /\ Good(g, R, {}) /\ SameButCounts(m, g) /\ g.head = m.head /\ g.next = m.next
      /\ g.alloc_count[q] = m.alloc_count[q] + m.delayed_count[q]
      /\ g.delayed_count[q] = 0
  BY <1>2, <1>3, GcPoolGood
<1>5. Found(g, l, q, d, l0) /\ g.domain_id = m.domain_id /\ g.class = m.class
  BY <1>4 DEF Found, SameButCounts
<1>6. Source(g, R, l0, R[l]) /\ l0[1] = d
  BY <1>1, <1>4, <1>5, FoundSource DEF Good
<1>7. n = IF m.delayed_count[q] = 0 THEN m
          ELSE IF g.alloc_count[q] = 0 THEN reclassify_pool(g, l0, d, "UNTRACKED")
          ELSE IF is_not_too_full(g, q) THEN reclassify_pool(g, l0, d, g.class[q])
          ELSE g
  BY <1>3 DEF try_gc_and_reclassify_pool, Found
<1>8. CASE (n = m /\ m.delayed_count[q] = 0) \/ n = g
  <2>1. /\ Good(n, R, {}) /\ n.head = m.head /\ n.next = m.next /\ n.domain_id = m.domain_id
        /\ n.delayed_count[q] = 0
    BY <1>4, <1>5, <1>8
  <2>2. Operation(m, R, d, n, R)
    BY <2>1, OperationSame
  <2>3. Flushed(m, R, l, q, n, R)
    BY <2>1 DEF Flushed
  <2> QED BY <2>2, <2>3
<1>9. ASSUME NEW cl \in Classes, n = reclassify_pool(g, l0, d, cl), m.delayed_count[q] # 0,
             \/ cl = "UNTRACKED" /\ g.alloc_count[q] = 0
             \/ cl = g.class[q] /\ is_not_too_full(g, q)
      PROVE  \E R1 : Operation(m, R, d, n, R1) /\ Flushed(m, R, l, q, n, R1)
  <2>1. PICK R1 : R1 = MoveTo(R, q, RingOf(d, cl))
    OBVIOUS
  <2>2. cl = "UNTRACKED" => g.alloc_count[q] + g.delayed_count[q] = 0
    <3>1. g.class[q] # "UNTRACKED"
      <4>1. g.class[q] = CASE l[2] = "old" -> "OLD" [] l[2] = "free" -> "UNTRACKED" [] OTHER -> "YOUNG"
        BY <1>1, <1>4 DEF Good, Sync
      <4> QED BY <4>1
    <3> QED BY <1>4, <1>9, <3>1
  <2>3. q = g.head[l0] /\ R[l] = R[l]
    BY <1>5 DEF Found
  <2>4. Operation(g, R, d, n, R1) /\ Reclassified(g, R, l0, R[l], d, cl, n)
    BY <1>1, <1>2, <1>4, <1>6, <1>9, <2>1, <2>2, <2>3, MoveOperation
  <2>5. Operation(m, R, d, n, R1)
    BY <1>4, <1>5, <2>4 DEF Operation, Changes, NoOrphan
  <2>6. \A s \in R[l] \ {q} : NextWithout(n, s, q) = NextWithout(m, s, q)
    BY <1>4, <2>3, <2>4 DEF Reclassified, NextWithout
  <2>9. n.delayed_count[q] = 0
    BY <1>4, <2>4 DEF Reclassified, SameCounts
  <2>7. CASE cl = "UNTRACKED" /\ g.alloc_count[q] = 0
    <3>1. RingOf(d, cl) = <<d, "free">> /\ RingOf(d, cl) # l
      BY <2>7 DEF RingOf
    <3>2. R1[l] = R[l] \ {q}
      BY <1>1, <2>1, <3>1 DEF MoveTo
    <3>3. n.head[l] = IF m.head[l] # q THEN m.head[l]
                      ELSE IF m.next[q] = q THEN NULL ELSE m.next[q]
      <4>1. CASE l0 = l
        BY <1>4, <1>5, <2>3, <2>4, <3>1, <4>1 DEF Reclassified
      <4>2. CASE l0 # l
        <5>1. m.head[l] # q
          BY <1>4, <1>5, <4>2 DEF Found
        <5>2. n.head[l] = g.head[l]
          BY <1>1, <2>4, <3>1, <4>2 DEF Reclassified
        <5> QED BY <1>4, <5>1, <5>2
      <4> QED BY <4>1, <4>2
    <3>4. Flushed(m, R, l, q, n, R1)
      BY <1>9, <2>6, <2>9, <3>2, <3>3 DEF Flushed
    <3> QED BY <2>5, <3>4
  <2>8. CASE cl = g.class[q] /\ is_not_too_full(g, q)
    <3>1. RingOf(d, cl) = l /\ R1 = R
      <4>1. k \in {"old", "young", "free"}
        OBVIOUS
      <4>2. RingOf(d, g.class[q]) = l /\ MoveTo(R, q, l) = R
        BY <1>4, <4>1, ClassOf
      <4> QED BY <2>1, <2>8, <4>2
    <3>2. n.head[l] = q /\ (R[l] # {q} => n.next[q] = HeadAfter(g, l, q))
      BY <2>3, <2>4, <2>8, <3>1 DEF Reclassified
    <3>3. HeadAfter(g, l, q) = HeadAfter(m, l, q)
      BY <1>4 DEF HeadAfter
    <3>4. Flushed(m, R, l, q, n, R1)
      BY <1>9, <2>6, <2>9, <3>1, <3>2, <3>3 DEF Flushed
    <3> QED BY <2>5, <3>4
  <2> QED BY <1>9, <2>7, <2>8
<1>10. "UNTRACKED" \in Classes /\ g.class[q] \in Classes
  BY <1>4, ClassOf DEF Classes
<1> QED BY <1>7, <1>8, <1>9, <1>10

\* The same of a step of gc_ring, whichever way it comes to the pool.
LEMMA GcOneIs ==
  ASSUME NEW m, NEW R, Good(m, R, {}), NEW d \in Domains, NEW k \in {"old", "young"},
         NEW l, l = <<d, k>>, NEW q \in R[l], NEW n, n = GcOne(m, l, q, d)
  PROVE  \E R1 : Operation(m, R, d, n, R1) /\ Flushed(m, R, l, q, n, R1)
<1>1. CASE q = m.head[l]
  <2>1. n = try_gc_and_reclassify_pool(m, l, d) /\ Found(m, l, q, d, l)
    <3>1. n = try_gc_and_reclassify_pool(m, l, d)
      BY <1>1 DEF GcOne
    <3> QED BY <1>1, <3>1 DEF Found
  <2> QED BY <2>1, TryGcIs
<1>2. CASE q # m.head[l]
  <2>1. PICK lp \in Locals : lp = <<d, "p">>
    BY RingNames
  <2>2. PICK a : a = SetHead(m, lp, q)
    OBVIOUS
  <2>3. PICK b : b = try_gc_and_reclassify_pool(a, lp, d)
    OBVIOUS
  <2>4. n = SetHead(b, lp, NULL)
    BY <1>2, <2>1, <2>2, <2>3 DEF GcOne, SetHead, WithLocal, Forget
  <2>5. q \in Pools /\ l \in Rings /\ l \in Heads \ {lp}
    <3>1. k \in {"old", "young", "free"}
      OBVIOUS
    <3>2. q \in Pools
      BY <3>1, ClassOf
    <3>3. l \in Rings
      BY RingNames
    <3> QED BY <3>2, <3>3, HeadsApart
  <2>6. /\ Good(a, R, {}) /\ SamePools(m, a) /\ a.next = m.next
        /\ \A h \in Heads \ {lp} : a.head[h] = m.head[h]
        /\ a.head[lp] = q
    <3>1. Good(a, R, {}) /\ KeptBut(m, lp, q, a)
      BY <2>2, <2>5, LocalGood
    <3> QED BY <3>1 DEF KeptBut
  <2>7. Found(a, l, q, d, lp)
    BY <1>2, <2>1, <2>5, <2>6 DEF Found
  <2>8. PICK R1 : Operation(a, R, d, b, R1) /\ Flushed(a, R, l, q, b, R1)
    BY <2>3, <2>6, <2>7, TryGcIs
  <2>9. /\ Good(n, R1, {}) /\ SamePools(b, n) /\ n.next = b.next
        /\ \A h \in Heads \ {lp} : n.head[h] = b.head[h]
    <3>1. Good(b, R1, {})
      BY <2>8 DEF Operation
    <3>2. Good(n, R1, {}) /\ KeptBut(b, lp, NULL, n)
      BY <2>4, <3>1, LocalGood
    <3> QED BY <3>2 DEF KeptBut
  <2>10. \A h \in Rings : h \in Heads \ {lp}
    BY HeadsApart
  <2>11. Operation(m, R, d, n, R1)
    <3>1. Changes(m, R, n, R1, d)
      BY <2>6, <2>8, <2>9, <2>10 DEF Operation, Changes
    <3>2. NoOrphan(m, R, n, R1)
      BY <2>6, <2>8, <2>9 DEF Operation, NoOrphan, SamePools
    <3> QED BY <2>8, <2>9, <3>1, <3>2 DEF Operation
  <2>12. Flushed(m, R, l, q, n, R1)
    BY <2>5, <2>6, <2>8, <2>9 DEF Flushed, NextWithout, HeadAfter, SamePools, SameCounts
  <2> QED BY <2>11, <2>12
<1> QED BY <1>1, <1>2

-----------------------------------------------------------------------------
(* The walks.  The pools of L are those a walk over the ring l, at the pool *)
(* x, has yet to meet: they are in every set that x is in and that `next`  *)
(* does not leave but for the head.                                        *)

Covers(nx, A, h, x, L) ==
  \A B \in SUBSET A : x \in B /\ (\A s \in B : nx[s] = h \/ nx[s] \in B) => L \subseteq B

Walking(m, R, l, x, L) ==
  x \in R[l] /\ L \subseteq R[l] /\ Covers(m.next, R[l], m.head[l], x, L)

\* The walk is at the last pool of the ring.
AtEnd(m, l, q, n) ==
  IF q = m.head[l] THEN m.next[q] = q ELSE m.next[q] = n.head[l]

\* From the head, `next` meets the whole ring.
LEMMA CoversFromHead ==
  ASSUME NEW A, NEW nx, NEW pv, Cycle(nx, pv, A), NEW h \in A, NEW L, L \subseteq A
  PROVE  Covers(nx, A, h, h, L)
<1> SUFFICES ASSUME NEW B \in SUBSET A, h \in B, \A s \in B : nx[s] = h \/ nx[s] \in B
             PROVE  L \subseteq B
  BY DEF Covers
<1>1. Closed(nx, B) /\ B # {}
  BY DEF Closed
<1>2. B = A
  BY <1>1 DEF Cycle
<1> QED BY <1>2

\* A walk that starts at the head has the whole ring before it.
LEMMA WalkStarts ==
  ASSUME NEW m, NEW R, Laid(m, R), NEW l \in Rings, m.head[l] # NULL
  PROVE  Walking(m, R, l, m.head[l], R[l])
<1>1. OnRing(m, l, R[l])
  BY DEF Laid
<1>2. m.head[l] \in R[l] /\ Cycle(m.next, m.prev, R[l])
  BY <1>1 DEF OnRing
<1>3. R[l] \subseteq R[l]
  OBVIOUS
<1>4. Covers(m.next, R[l], m.head[l], m.head[l], R[l])
  BY <1>2, <1>3, CoversFromHead
<1> QED BY <1>2, <1>4 DEF Walking

\* The walk goes on along a ring as it was.
LEMMA CoversNext ==
  ASSUME NEW A, NEW nx, NEW h, NEW x \in A, NEW L, Covers(nx, A, h, x, L)
  PROVE  /\ nx[x] = h => L \subseteq {x}
         /\ nx[x] # h => Covers(nx, A, h, nx[x], L \ {x})
<1>1. ASSUME nx[x] = h PROVE L \subseteq {x}
  <2>1. {x} \in SUBSET A /\ x \in {x} /\ \A s \in {x} : nx[s] = h \/ nx[s] \in {x}
    BY <1>1
  <2> QED BY <2>1 DEF Covers
<1>2. ASSUME NEW B \in SUBSET A, nx[x] \in B, \A s \in B : nx[s] = h \/ nx[s] \in B
      PROVE  L \ {x} \subseteq B
  <2>1. /\ B \cup {x} \in SUBSET A /\ x \in B \cup {x}
        /\ \A s \in B \cup {x} : nx[s] = h \/ nx[s] \in B \cup {x}
    BY <1>2
  <2>2. L \subseteq B \cup {x}
    BY <2>1 DEF Covers
  <2> QED BY <2>2
<1>3. Covers(nx, A, h, nx[x], L \ {x})
  BY <1>2 DEF Covers
<1> QED BY <1>1, <1>3

\* A step of a walk over a ring of d, that may move the pool it meets.
LEMMA WalkFlushes ==
  ASSUME NEW m, NEW R, Laid(m, R), NEW l \in Rings, NEW q, NEW L, Walking(m, R, l, q, L),
         NEW n, NEW R1, Laid(n, R1), Flushed(m, R, l, q, n, R1)
  PROVE  /\ AtEnd(m, l, q, n) => L \ {q} = {}
         /\ ~ AtEnd(m, l, q, n) => Walking(n, R1, l, m.next[q], L \ {q})
<1>1. PICK A : A = R[l]
  OBVIOUS
<1>2. PICK h : h = m.head[l]
  OBVIOUS
<1>3. PICK x : x = m.next[q]
  OBVIOUS
<1>4. /\ q \in A /\ L \subseteq A /\ Covers(m.next, A, h, q, L)
      /\ h \in A /\ Cycle(m.next, m.prev, A) /\ x \in A
  <2>1. OnRing(m, l, R[l])
    BY DEF Laid
  <2> QED BY <1>1, <1>2, <1>3, <2>1 DEF Walking, OnRing, Cycle
<1>5. OnRing(n, l, R1[l])
  BY DEF Laid
<1>6. x = h => L \subseteq {q}
  <2>1. PICK nx : nx = m.next
    OBVIOUS
  <2>2. Covers(nx, A, h, q, L)
    BY <1>4, <2>1
  <2>3. nx[q] = h => L \subseteq {q}
    BY <1>4, <2>2, CoversNext
  <2> QED BY <1>3, <2>1, <2>3
<1>7. CASE R1[l] = R[l] /\ n.head[l] = m.head[l] /\ n.next = m.next
  <2>1. AtEnd(m, l, q, n) <=> x = h
    BY <1>2, <1>3, <1>7 DEF AtEnd
  <2>2. x # h => Covers(n.next, A, h, x, L \ {q})
    BY <1>3, <1>4, <1>7, CoversNext
  <2>3. x # h => Walking(n, R1, l, x, L \ {q})
    BY <1>1, <1>2, <1>4, <1>7, <2>2 DEF Walking
  <2> QED BY <1>3, <1>6, <2>1, <2>3
<1>8. CASE /\ \A s \in R[l] \ {q} : NextWithout(n, s, q) = NextWithout(m, s, q)
           /\ R1[l] = R[l] \ {q}
           /\ n.head[l] = IF m.head[l] # q THEN m.head[l]
                          ELSE IF m.next[q] = q THEN NULL ELSE m.next[q]
  <2>1. \A s \in A \ {q} : n.next[s] \in A \ {q}
    BY <1>1, <1>5, <1>8 DEF OnRing, Cycle
  <2>2. \A s \in A \ {q} : n.next[s] = IF m.next[s] = q THEN x ELSE m.next[s]
    BY <1>1, <1>3, <1>8, <2>1 DEF NextWithout
  <2>3. ASSUME x = q PROVE L \ {q} = {}
    <3>1. A = {q}
      BY <1>3, <1>4, <2>3, CycleOfOne
    <3> QED BY <1>4, <3>1
  <2>4. CASE q = h
    <3>1. AtEnd(m, l, q, n) <=> x = q
      BY <1>2, <1>3, <2>4 DEF AtEnd
    <3>2. ASSUME x # q PROVE Walking(n, R1, l, x, L \ {q})
      <4>1. n.head[l] = x /\ x \in A \ {q} /\ x # NULL
        BY <1>2, <1>3, <1>4, <1>8, <1>1, <2>4, <3>2, HeadsApart DEF Laid
      <4>2. Cycle(n.next, n.prev, A \ {q})
        BY <1>1, <1>5, <1>8, <4>1 DEF OnRing
      <4>3. L \ {q} \subseteq A \ {q}
        BY <1>4
      <4>4. Covers(n.next, A \ {q}, x, x, L \ {q})
        BY <4>1, <4>2, <4>3, CoversFromHead
      <4> QED BY <1>1, <1>8, <4>1, <4>3, <4>4 DEF Walking
    <3> QED BY <1>3, <2>3, <3>1, <3>2
  <2>5. CASE q # h
    <3>1. n.head[l] = h /\ (AtEnd(m, l, q, n) <=> x = h)
      BY <1>2, <1>3, <1>8, <2>5 DEF AtEnd
    <3>2. ASSUME x # h PROVE Walking(n, R1, l, x, L \ {q})
      <4>1. x # q
        <5>1. x = q => A = {q}
          BY <1>3, <1>4, CycleOfOne
        <5> QED BY <1>4, <2>5, <5>1
      <4>2. ASSUME NEW B \in SUBSET (A \ {q}), x \in B, \A s \in B : n.next[s] = h \/ n.next[s] \in B
            PROVE  L \ {q} \subseteq B
        <5>1. \A s \in B \cup {q} : m.next[s] = h \/ m.next[s] \in B \cup {q}
          BY <1>3, <2>2, <4>2
        <5>2. B \cup {q} \in SUBSET A /\ q \in B \cup {q}
          BY <1>4
        <5>3. L \subseteq B \cup {q}
          BY <1>4, <5>1, <5>2 DEF Covers
        <5> QED BY <5>3
      <4>3. Covers(n.next, A \ {q}, h, x, L \ {q})
        BY <4>2 DEF Covers
      <4> QED BY <1>1, <1>4, <1>8, <3>1, <4>1, <4>3 DEF Walking
    <3> QED BY <1>3, <1>6, <3>1, <3>2
  <2> QED BY <2>4, <2>5
<1>9. CASE /\ \A s \in R[l] \ {q} : NextWithout(n, s, q) = NextWithout(m, s, q)
           /\ R1[l] = R[l] /\ n.head[l] = q
           /\ R[l] # {q} => n.next[q] = HeadAfter(m, l, q)
  <2>1. ASSUME A = {q} PROVE AtEnd(m, l, q, n) /\ L \ {q} = {}
    BY <1>2, <1>3, <1>4, <2>1 DEF AtEnd
  <2>2. ASSUME A # {q} PROVE ~ AtEnd(m, l, q, n) /\ Walking(n, R1, l, x, L \ {q})
    <3>1. x # q
      BY <1>3, <1>4, <2>2, CycleOfOne
    <3>2. ~ AtEnd(m, l, q, n)
      BY <1>3, <1>9, <3>1 DEF AtEnd
    <3>3. n.next[q] = IF q = h THEN x ELSE h
      BY <1>1, <1>2, <1>3, <1>9, <2>2 DEF HeadAfter
    <3>4. \A s \in A \ {q} : NextWithout(n, s, q) = NextWithout(m, s, q)
      BY <1>1, <1>9
    <3>5. ASSUME NEW B \in SUBSET A, x \in B, \A s \in B : n.next[s] = q \/ n.next[s] \in B
          PROVE  L \ {q} \subseteq B
      <4>1. \A s \in (B \cup {q}) \ {q} : m.next[s] = h \/ m.next[s] \in B \cup {q}
        <5> SUFFICES ASSUME NEW s \in B, s # q, m.next[s] # q, m.next[s] # h
                     PROVE m.next[s] \in B
          OBVIOUS
        <5>1. m.next[s] = NextWithout(n, s, q)
          BY <3>4 DEF NextWithout
        <5>2. CASE n.next[s] = q
          <6>1. m.next[s] = n.next[q]
            BY <5>1, <5>2 DEF NextWithout
          <6> QED BY <3>3, <3>5, <6>1
        <5>3. CASE n.next[s] # q
          BY <3>5, <5>1, <5>3 DEF NextWithout
        <5> QED BY <5>2, <5>3
      <4>2. \A s \in B \cup {q} : m.next[s] = h \/ m.next[s] \in B \cup {q}
        BY <1>3, <3>5, <4>1
      <4>3. B \cup {q} \in SUBSET A /\ q \in B \cup {q}
        BY <1>4
      <4>4. L \subseteq B \cup {q}
        BY <1>4, <4>2, <4>3 DEF Covers
      <4> QED BY <4>4
    <3>6. Covers(n.next, A, q, x, L \ {q})
      BY <3>5 DEF Covers
    <3> QED BY <1>1, <1>4, <1>9, <3>2, <3>6 DEF Walking
  <2> QED BY <1>3, <2>1, <2>2
<1> QED BY <1>7, <1>8, <1>9 DEF Flushed

-----------------------------------------------------------------------------
(* A pool leaves the rings, or becomes current.                            *)

AllocSet(m, q, a) == [m EXCEPT !.alloc_count[q] = a]

\* Writing the allocation count of a pool.
LEMMA AllocIs ==
  ASSUME NEW m \in Memory, NEW q \in Pools, NEW a \in 0 .. POOL_CAPACITY + 1,
         NEW n, n = AllocSet(m, q, a)
  PROVE  /\ n \in Memory /\ SameButCounts(m, n)
         /\ n.head = m.head /\ n.next = m.next /\ n.prev = m.prev
         /\ n.alloc_count[q] = a /\ n.delayed_count = m.delayed_count
         /\ \A s \in Pools \ {q} : n.alloc_count[s] = m.alloc_count[s]
<1>1. /\ n \in Memory
      /\ n.head = m.head /\ n.next = m.next /\ n.prev = m.prev
      /\ n.alloc_count = [m.alloc_count EXCEPT ![q] = a] /\ n.delayed_count = m.delayed_count
      /\ n.class = m.class /\ n.domain_id = m.domain_id /\ n.mapped = m.mapped
  BY DEF Memory, AllocSet
<1>2. SameButCounts(m, n)
  BY <1>1 DEF SameButCounts, Links
<1>3. n.alloc_count[q] = a /\ \A s \in Pools \ {q} : n.alloc_count[s] = m.alloc_count[s]
  BY <1>1 DEF Memory
<1> QED BY <1>1, <1>2, <1>3

\* What the operations of d leave of the rings of others.
Outside(m, R, n, R1, d) == Changes(m, R, n, R1, d) /\ NoOrphan(m, R, n, R1)

\* What two operations of a domain do is outside of the rings of others.
LEMMA OutsideTrans ==
  ASSUME NEW m, NEW R, NEW n, NEW R1, NEW o, NEW R2, NEW d,
         Outside(m, R, n, R1, d), Outside(n, R1, o, R2, d)
  PROVE  Outside(m, R, o, R2, d)
<1>1. Changes(m, R, o, R2, d)
  <2> SUFFICES ASSUME NEW l \in Rings, l[1] \notin {d, Orphan}
               PROVE  /\ R2[l] = R[l] /\ o.head[l] = m.head[l]
                      /\ \A s \in R[l] : o.next[s] = m.next[s]
    BY DEF Changes
  <2>1. R1[l] = R[l] /\ n.head[l] = m.head[l] /\ \A s \in R[l] : n.next[s] = m.next[s]
    BY DEF Outside, Changes
  <2>2. R2[l] = R1[l] /\ o.head[l] = n.head[l] /\ \A s \in R1[l] : o.next[s] = n.next[s]
    BY DEF Outside, Changes
  <2> QED BY <2>1, <2>2
<1>2. NoOrphan(m, R, o, R2)
  BY DEF Outside, NoOrphan
<1> QED BY <1>1, <1>2 DEF Outside

\* The same rings, heads and domains.
LEMMA OutsideSame ==
  ASSUME NEW m, NEW R, NEW n, NEW d, n.next = m.next, n.domain_id = m.domain_id,
         \A l \in Rings : n.head[l] = m.head[l]
  PROVE  Outside(m, R, n, R, d)
BY DEF Outside, Changes, NoOrphan

\* Popping a ring of d writes no link of the rings of other domains.
LEMMA PopOutside ==
  ASSUME NEW m, NEW R, Laid(m, R), NEW l \in Rings, m.head[l] # NULL, NEW d, l[1] \in {d, Orphan},
         NEW n, n = ring_pop(m, l), NEW q, q = m.head[l]
  PROVE  /\ Laid(n, Removed(R, q)) /\ Loose(n, Removed(R, q), q) /\ SamePools(m, n)
         /\ q \in R[l] /\ q \in Pools
         /\ Outside(m, R, n, Removed(R, q), d)
         /\ \A s \in Pools \ R[l] : n.next[s] = m.next[s] /\ n.prev[s] = m.prev[s]
         /\ \A k \in Heads \ {l} : n.head[k] = m.head[k]
<1>1. OnRing(m, l, R[l]) /\ R[l] \in SUBSET Pools /\ l \in Heads
  BY HeadsApart DEF Laid
<1>2. Source(m, R, l, R[l])
  BY <1>1 DEF Source
<1>3. /\ Laid(n, Removed(R, q)) /\ Loose(n, Removed(R, q), q) /\ SamePools(m, n)
      /\ Apart(Heads, Pools, m, l, R[l], n)
  BY <1>2, PopLaid
<1>4. q \in R[l] /\ q \in Pools
  BY <1>1 DEF OnRing
<1>5. Changes(m, R, n, Removed(R, q), d)
  <2> SUFFICES ASSUME NEW k \in Rings, k[1] \notin {d, Orphan}
               PROVE  /\ Removed(R, q)[k] = R[k] /\ n.head[k] = m.head[k]
                      /\ \A s \in R[k] : n.next[s] = m.next[s]
    BY DEF Changes
  <2>1. k # l /\ k \in Heads /\ R[k] \cap R[l] = {} /\ R[k] \in SUBSET Pools
    BY HeadsApart DEF Laid
  <2>2. R[k] \ {q} = R[k]
    BY <1>4, <2>1
  <2> QED BY <1>3, <2>1, <2>2 DEF Apart, Removed
<1>6. NoOrphan(m, R, n, Removed(R, q))
  BY <1>3 DEF NoOrphan, Removed, SamePools
<1> QED BY <1>3, <1>4, <1>5, <1>6 DEF Outside, Apart

\* A pool is taken out of its ring, and is on none, or not mapped any more.
LEMMA RemoveGood ==
  ASSUME NEW m, NEW R, Good(m, R, {}), NEW l \in Rings, NEW q \in R[l],
         NEW Q, Q = Removed(R, q), NEW n, Laid(n, Q),
         NEW X, X \subseteq {q}, n.mapped = (m.mapped \ {q}) \cup X,
         \A s \in Pools \ {q} : /\ n.alloc_count[s] = m.alloc_count[s]
                                /\ n.delayed_count[s] = m.delayed_count[s]
                                /\ n.class[s] = m.class[s] /\ n.domain_id[s] = m.domain_id[s],
         Counted(n, Q, q), \A s \in Pools \ n.mapped : n.next[s] = s /\ n.prev[s] = s
  PROVE  Good(n, Q, X)
<1>1. /\ R \in [Rings -> SUBSET Pools] /\ q \in Pools
      /\ \A k \in Rings : Q[k] = R[k] \ {q} /\ Q[k] \subseteq Pools \ {q} /\ Q[k] \subseteq R[k]
  BY DEF Good, Laid, Removed
<1>2. n.mapped = X \cup UNION {Q[k] : k \in Rings}
  <2>1. m.mapped = UNION {R[k] : k \in Rings}
    BY DEF Good
  <2>2. UNION {Q[k] : k \in Rings} = (UNION {R[k] : k \in Rings}) \ {q}
    BY <1>1
  <2> QED BY <2>1, <2>2
<1>3. \A k \in Rings : X \cap Q[k] = {}
  BY <1>1
<1>4. Sync(n, Q)
  <2> SUFFICES ASSUME NEW k \in Rings, NEW s \in Q[k]
               PROVE /\ n.class[s] = CASE k[2] = "old" -> "OLD" [] k[2] = "free" -> "UNTRACKED"
                                       [] OTHER -> "YOUNG"
                     /\ k[1] # Orphan => n.domain_id[s] = k[1]
    BY DEF Sync
  <2>1. s \in R[k] /\ n.class[s] = m.class[s] /\ n.domain_id[s] = m.domain_id[s]
    BY <1>1
  <2> QED BY <2>1 DEF Good, Sync
<1>5. OneCurrent(Q)
  <2>1. OneCurrent(R)
    BY DEF Good
  <2>2. \A d \in Domains : Q[<<d, "current">>] \subseteq R[<<d, "current">>]
    BY <1>1, RingNames
  <2> QED BY <2>1, <2>2 DEF OneCurrent
<1>6. \A s \in Pools : Counted(n, Q, s)
  <2> TAKE s \in Pools
  <2>1. CASE s = q
    BY <2>1
  <2>2. CASE s # q
    <3>1. Counted(m, R, s)
      BY DEF Good
    <3>2. \A d \in Domains, k \in Kinds : s \in Q[<<d, k>>] <=> s \in R[<<d, k>>]
      BY <1>1, <2>2, RingNames
    <3>3. Held(Q, s) = Held(R, s)
      <4>1. \A e \in Domains : s \in Q[<<e, "current">>] <=> s \in R[<<e, "current">>]
        BY <3>2 DEF Kinds
      <4>2. s \in Cur(Q) <=> s \in Cur(R)
        BY <4>1, InCur
      <4> QED BY <4>2 DEF Held
    <3>4. \A d \in Domains : s \in Q[<<d, "free">>] => s \in R[<<d, "free">>]
      BY <3>2 DEF Kinds
    <3>5. s \notin n.mapped <=> s \notin m.mapped
      BY <2>2
    <3>6. n.alloc_count[s] = m.alloc_count[s] /\ n.delayed_count[s] = m.delayed_count[s]
      BY <2>2
    <3> QED BY <3>1, <3>3, <3>4, <3>5, <3>6 DEF Counted
  <2> QED BY <2>1, <2>2
<1> QED BY <1>2, <1>3, <1>4, <1>5, <1>6 DEF Good

\* What set_current_pool does, but for the count.
MadeCurrent(m, d, q, n) ==
  /\ n \in Memory /\ n.head = [m.head EXCEPT ![<<d, "current">>] = q]
  /\ n.next = m.next /\ n.prev = m.prev
  /\ n.class = [m.class EXCEPT ![q] = "YOUNG"]
  /\ n.domain_id = [m.domain_id EXCEPT ![q] = d]
  /\ n.delayed_count = m.delayed_count
  /\ \A s \in Pools \ {q} : n.alloc_count[s] = m.alloc_count[s]

\* A pool on no ring becomes the current pool of a domain that has none.
LEMMA CurrentGood ==
  ASSUME NEW m, NEW R, NEW q, NEW X, Good(m, R, X), X \subseteq {q}, Loose(m, R, q),
         NEW d \in Domains, NEW c, c = <<d, "current">>, R[c] = {},
         NEW n, MadeCurrent(m, d, q, n), n.mapped = m.mapped \cup {q},
         n.alloc_count[q] - 1 \in 0 .. POOL_CAPACITY,
         n.alloc_count[q] + n.delayed_count[q] - 1 >= 0,
         NEW Q, Q = Added(R, c, q)
  PROVE  Good(n, Q, {}) /\ Outside(m, R, n, Q, d)
<1>0. /\ n \in Memory /\ n.head = [m.head EXCEPT ![c] = q] /\ n.next = m.next /\ n.prev = m.prev
      /\ n.class = [m.class EXCEPT ![q] = "YOUNG"]
      /\ n.domain_id = [m.domain_id EXCEPT ![q] = d]
      /\ \A s \in Pools \ {q} : n.alloc_count[s] = m.alloc_count[s]
                                /\ n.delayed_count[s] = m.delayed_count[s]
  BY DEF MadeCurrent
<1>1. /\ R \in [Rings -> SUBSET Pools] /\ q \in Pools /\ m \in Memory
      /\ Cycle(m.next, m.prev, {q}) /\ \A k \in Rings : q \notin R[k]
  BY DEF Good, Laid, Loose
<1>2. PICK t \in Rings : t = c /\ t[1] = d /\ t[2] = "current"
  BY RingNames
<1>3. /\ \A k \in Rings : Q[k] = IF k = t THEN {q} ELSE R[k]
      /\ \A k \in Rings : n.head[k] = IF k = t THEN q ELSE m.head[k]
      /\ Q \in [Rings -> SUBSET Pools]
  <2>1. R[t] = {} /\ Q = Added(R, t, q)
    BY <1>2
  <2>2. \A k \in Rings : Q[k] = IF k = t THEN {q} ELSE R[k]
    BY <2>1 DEF Added
  <2>3. m.head \in [Heads -> Pools \cup {NULL}] /\ n.head = [m.head EXCEPT ![t] = q]
    BY <1>0, <1>1, <1>2 DEF Memory, Heads
  <2>4. \A k \in Rings : n.head[k] = IF k = t THEN q ELSE m.head[k]
    BY <2>3, HeadsApart
  <2>5. Q \in [Rings -> SUBSET Pools]
    BY <1>1, <2>1 DEF Added
  <2> QED BY <2>2, <2>4, <2>5
<1>4. Laid(n, Q)
  <2>1. \A k \in Rings : OnRing(n, k, Q[k])
    <3> TAKE k \in Rings
    <3>1. CASE k = t
      BY <1>0, <1>1, <1>3, <3>1 DEF OnRing
    <3>2. CASE k # t
      <4>1. OnRing(m, k, R[k])
        BY DEF Good, Laid
      <4> QED BY <1>0, <1>3, <3>2, <4>1 DEF OnRing
    <3> QED BY <3>1, <3>2
  <2>2. \A k, j \in Rings : k # j => Q[k] \cap Q[j] = {}
    BY <1>1, <1>3 DEF Good, Laid
  <2> QED BY <1>0, <1>3, <2>1, <2>2 DEF Laid
<1>5. n.mapped = {} \cup UNION {Q[k] : k \in Rings}
  <2>1. m.mapped = X \cup UNION {R[k] : k \in Rings}
    BY DEF Good
  <2>2. UNION {Q[k] : k \in Rings} = (UNION {R[k] : k \in Rings}) \cup {q}
    <3>1. R[t] = {}
      BY <1>2
    <3> QED BY <1>2, <1>3, <3>1
  <2> QED BY <2>1, <2>2
<1>6. Sync(n, Q)
  <2> SUFFICES ASSUME NEW k \in Rings, NEW s \in Q[k]
               PROVE /\ n.class[s] = CASE k[2] = "old" -> "OLD" [] k[2] = "free" -> "UNTRACKED"
                                       [] OTHER -> "YOUNG"
                     /\ k[1] # Orphan => n.domain_id[s] = k[1]
    BY DEF Sync
  <2>1. CASE k = t
    <3>1. s = q
      BY <1>3, <2>1
    <3>2. n.class[q] = "YOUNG" /\ n.domain_id[q] = d
      BY <1>0, <1>1 DEF Memory
    <3> QED BY <1>2, <2>1, <3>1, <3>2
  <2>2. CASE k # t
    <3>1. s \in R[k] /\ s # q /\ s \in Pools
      BY <1>1, <1>3, <2>2
    <3>2. n.class[s] = m.class[s] /\ n.domain_id[s] = m.domain_id[s]
      BY <1>0, <1>1, <3>1 DEF Memory
    <3> QED BY <3>1, <3>2 DEF Good, Sync
  <2> QED BY <2>1, <2>2
<1>7. OneCurrent(Q)
  <2> SUFFICES ASSUME NEW e \in Domains, NEW x \in Q[<<e, "current">>], NEW y \in Q[<<e, "current">>]
               PROVE x = y
    BY DEF OneCurrent
  <2>1. <<e, "current">> \in Rings
    BY RingNames
  <2> QED BY <1>3, <2>1 DEF Good, OneCurrent
<1>8. \A s \in Pools : Counted(n, Q, s)
  <2> TAKE s \in Pools
  <2>1. CASE s = q
    <3>1. q \in Q[<<d, "current">>]
      BY <1>2, <1>3
    <3>2. Held(Q, q) = 1
      BY <3>1 DEF Held, Cur
    <3>3. \A e \in Domains : q \notin Q[<<e, "free">>]
      BY <1>1, <1>2, <1>3, RingNames
    <3> QED BY <2>1, <3>2, <3>3 DEF Counted
  <2>2. CASE s # q
    <3>1. Counted(m, R, s)
      BY DEF Good
    <3>2. \A e \in Domains, k \in Kinds : s \in Q[<<e, k>>] <=> s \in R[<<e, k>>]
      <4> TAKE e \in Domains, k \in Kinds
      <4>1. PICK j \in Rings : j = <<e, k>>
        BY RingNames
      <4>2. R[t] = {}
        BY <1>2
      <4>3. s \in Q[j] <=> s \in R[j]
        BY <1>3, <2>2, <4>2
      <4> QED BY <4>1, <4>3
    <3>3. Held(Q, s) = Held(R, s)
      <4>1. \A e \in Domains : s \in Q[<<e, "current">>] <=> s \in R[<<e, "current">>]
        BY <3>2 DEF Kinds
      <4>2. s \in Cur(Q) <=> s \in Cur(R)
        BY <4>1, InCur
      <4> QED BY <4>2 DEF Held
    <3>4. \A e \in Domains : s \in Q[<<e, "free">>] => s \in R[<<e, "free">>]
      BY <3>2 DEF Kinds
    <3>5. s \notin n.mapped => s \notin m.mapped
      BY <2>2
    <3>6. n.alloc_count[s] = m.alloc_count[s] /\ n.delayed_count[s] = m.delayed_count[s]
      BY <1>0, <2>2
    <3> QED BY <3>1, <3>3, <3>4, <3>5, <3>6 DEF Counted
  <2> QED BY <2>1, <2>2
<1>9. \A s \in Pools \ n.mapped : n.next[s] = s /\ n.prev[s] = s
  BY <1>0 DEF Good
<1>10. Good(n, Q, {})
  BY <1>4, <1>5, <1>6, <1>7, <1>8, <1>9 DEF Good
<1>11. Changes(m, R, n, Q, d)
  BY <1>0, <1>2, <1>3 DEF Changes
<1>12. NoOrphan(m, R, n, Q)
  <2> SUFFICES ASSUME NEW k \in Rings, k[1] = Orphan
               PROVE  Q[k] \subseteq R[k] /\ \A s \in Q[k] : n.domain_id[s] = m.domain_id[s]
    BY DEF NoOrphan
  <2>1. k # t
    BY <1>2, RingNames
  <2>2. Q[k] = R[k] /\ q \notin R[k] /\ R[k] \subseteq Pools
    BY <1>1, <1>3, <2>1
  <2>3. \A s \in Pools \ {q} : n.domain_id[s] = m.domain_id[s]
    BY <1>0, <1>1 DEF Memory
  <2> QED BY <2>2, <2>3
<1> QED BY <1>10, <1>11, <1>12 DEF Outside

-----------------------------------------------------------------------------
(* The operations that change the current pool.                            *)

\* move_current_to_young leaves the domain without a current pool.
LEMMA MoveCurrentIs ==
  ASSUME NEW m, NEW R, Good(m, R, {}), NEW d \in Domains,
         NEW n, n = move_current_to_young(m, d)
  PROVE  \E R1 : /\ Operation(m, R, d, n, R1) /\ R1[<<d, "current">>] = {}
                 /\ m.head[<<d, "current">>] # NULL => n.head[<<d, "young">>] # NULL
<1>1. PICK c \in Rings : c = <<d, "current">> /\ c[1] = d
  BY RingNames
<1>2. PICK q : q = m.head[c]
  OBVIOUS
<1>3. /\ Laid(m, R) /\ OneCurrent(R) /\ m \in Memory /\ R \in [Rings -> SUBSET Pools]
      /\ OnRing(m, c, R[c]) /\ m.mapped = UNION {R[k] : k \in Rings}
  BY <1>1 DEF Good, Laid
<1>4. CASE q = NULL
  <2>1. n = m
    BY <1>1, <1>2, <1>4 DEF move_current_to_young
  <2>2. R[c] = {}
    BY <1>2, <1>3, <1>4, HeadsApart DEF OnRing
  <2>3. Operation(m, R, d, n, R)
    BY <2>1, OperationSame
  <2> QED BY <1>1, <1>2, <1>4, <2>2, <2>3
<1>5. CASE q # NULL
  <2>1. PICK lp \in Locals : lp = <<d, "p">>
    BY RingNames
  <2>2. PICK a : a = ring_pop(m, c)
    OBVIOUS
  <2>3. PICK b : b = SetHead(a, lp, NULL)
    OBVIOUS
  <2>4. PICK e : e = AllocSet(b, q, b.alloc_count[q] - 1)
    OBVIOUS
  <2>5. PICK f : f = SetHead(e, lp, q)
    OBVIOUS
  <2>6. PICK g : g = reclassify_pool(f, lp, d, "YOUNG")
    OBVIOUS
  <2>7. n = SetHead(g, lp, NULL)
    BY <1>1, <1>2, <1>5, <2>1, <2>2, <2>3, <2>4, <2>5, <2>6
       DEF move_current_to_young, SetHead, AllocSet, WithLocal, Forget
  <2>8. PICK Q : Q = Removed(R, q)
    OBVIOUS
  <2>9. /\ Laid(a, Q) /\ Loose(a, Q, q) /\ SamePools(m, a)
        /\ q \in R[c] /\ q \in Pools /\ Outside(m, R, a, Q, d)
        /\ \A s \in Pools \ R[c] : a.next[s] = m.next[s] /\ a.prev[s] = m.prev[s]
    BY <1>1, <1>2, <1>3, <1>5, <2>2, <2>8, PopOutside
  <2>10. lp \in Heads /\ lp \notin Rings /\ \A k \in Rings : k \in Heads \ {lp}
    BY HeadsApart
  <2>11. a \in Memory /\ NULL \in Pools \cup {NULL}
    BY <2>9 DEF Laid
  <2>12. /\ b \in Memory /\ SamePools(a, b) /\ b.next = a.next /\ b.prev = a.prev
         /\ b.head = [a.head EXCEPT ![lp] = NULL]
    <3>1. /\ SetHead(a, lp, NULL) \in Memory /\ SamePools(a, SetHead(a, lp, NULL))
          /\ SetHead(a, lp, NULL).next = a.next /\ SetHead(a, lp, NULL).prev = a.prev
          /\ SetHead(a, lp, NULL).head = [a.head EXCEPT ![lp] = NULL]
      BY <2>10, <2>11, HeadSet
    <3> QED BY <2>3, <3>1
  <2>13. Laid(b, Q)
    BY <2>3, <2>9, <2>10, <2>11, LaidHead
  <2>14. \A k \in Rings : b.head[k] = a.head[k]
    BY <2>10, <2>11, <2>12 DEF Memory, Heads
  <2>15. /\ Counted(m, R, q) /\ Held(R, q) = 1 /\ POOL_CAPACITY \in Nat
         /\ m.alloc_count[q] \in Int /\ m.delayed_count[q] \in Int
         /\ b.alloc_count = m.alloc_count /\ b.delayed_count = m.delayed_count
         /\ q \in m.mapped
    <3>1. Counted(m, R, q) /\ POOL_CAPACITY \in Nat
      BY <2>9, Capacity DEF Good
    <3>2. Held(R, q) = 1
      BY <1>1, <2>9 DEF Held, Cur
    <3>3. m.alloc_count[q] \in Int /\ m.delayed_count[q] \in Int
      BY <1>3, <2>9, Capacity DEF Memory
    <3>4. b.alloc_count = m.alloc_count /\ b.delayed_count = m.delayed_count
      BY <2>9, <2>12 DEF SamePools, SameCounts
    <3> QED BY <1>3, <2>9, <3>1, <3>2, <3>3, <3>4
  <2>16. b.alloc_count[q] - 1 \in 0 .. POOL_CAPACITY
    BY <2>15 DEF Counted
  <2>17. /\ e \in Memory /\ SameButCounts(b, e)
         /\ e.head = b.head /\ e.next = b.next /\ e.prev = b.prev
         /\ e.alloc_count[q] = b.alloc_count[q] - 1 /\ e.delayed_count = b.delayed_count
         /\ \A s \in Pools \ {q} : e.alloc_count[s] = b.alloc_count[s]
    <3>1. PICK v \in 0 .. POOL_CAPACITY + 1 : v = b.alloc_count[q] - 1
      BY <2>15, <2>16
    <3>2. e = AllocSet(b, q, v)
      BY <2>4, <3>1
    <3>3. /\ e \in Memory /\ SameButCounts(b, e)
          /\ e.head = b.head /\ e.next = b.next /\ e.prev = b.prev
          /\ e.alloc_count[q] = v /\ e.delayed_count = b.delayed_count
          /\ \A s \in Pools \ {q} : e.alloc_count[s] = b.alloc_count[s]
      BY <2>9, <2>12, <3>2, AllocIs
    <3> QED BY <3>1, <3>3
  <2>18. Laid(e, Q)
    BY <2>13, <2>17, LaidSame DEF SameButCounts
  <2>19. /\ e.mapped = m.mapped /\ e.class = m.class /\ e.domain_id = m.domain_id
    BY <2>9, <2>12, <2>17 DEF SamePools, SameCounts, SameButCounts
  <2>20. \A k \in Rings : q \notin Q[k]
    BY <2>9 DEF Loose
  <2>21. q \notin Cur(Q) /\ Held(Q, q) = 0
    <3>1. \A x \in Domains : q \notin Q[<<x, "current">>]
      BY <2>20, RingNames
    <3> QED BY <3>1, InCur DEF Held
  <2>22. Counted(e, Q, q)
    <3>1. \A x \in Domains : q \notin Q[<<x, "free">>]
      BY <2>20, RingNames
    <3>2. q \in e.mapped /\ e.alloc_count[q] = m.alloc_count[q] - 1
          /\ e.delayed_count[q] = m.delayed_count[q]
      BY <2>15, <2>17, <2>19
    <3>3. m.alloc_count[q] - 1 \in 0 .. POOL_CAPACITY
          /\ m.alloc_count[q] + m.delayed_count[q] - 1 >= 0
      BY <2>15 DEF Counted
    <3> QED BY <2>15, <2>21, <3>1, <3>2, <3>3 DEF Counted
  <2>23. \A s \in Pools \ e.mapped : e.next[s] = s /\ e.prev[s] = s
    <3> TAKE s \in Pools \ e.mapped
    <3>1. s \notin R[c] /\ s \notin m.mapped
      BY <1>3, <2>19
    <3> QED BY <2>9, <2>12, <2>17, <3>1 DEF Good
  <2>24. \A s \in Pools \ {q} : /\ e.alloc_count[s] = m.alloc_count[s]
                                /\ e.delayed_count[s] = m.delayed_count[s]
                                /\ e.class[s] = m.class[s] /\ e.domain_id[s] = m.domain_id[s]
    BY <2>15, <2>17, <2>19
  <2>25. Good(e, Q, {q})
    <3>1. PICK X : X = {q}
      OBVIOUS
    <3>2. X \subseteq {q} /\ e.mapped = (m.mapped \ {q}) \cup X
      BY <2>15, <2>19, <3>1
    <3>3. Good(e, Q, X)
      BY <2>8, <2>9, <2>18, <2>22, <2>23, <2>24, <3>2, RemoveGood
    <3> QED BY <3>1, <3>3
  <2>26. Good(f, Q, {q}) /\ KeptBut(e, lp, q, f)
    BY <2>5, <2>9, <2>25, LocalGood
  <2>27. Cycle(f.next, f.prev, {q}) /\ f.mapped = m.mapped
    BY <2>9, <2>12, <2>17, <2>19, <2>26 DEF KeptBut, Loose, SamePools, SameCounts
  <2>28. Source(f, Q, lp, {q}) /\ f.head[lp] = q
    <3>1. f.head[lp] = q
      BY <2>26 DEF KeptBut
    <3>2. OnRing(f, lp, {q}) /\ {q} \in SUBSET Pools
      BY <2>9, <2>27, <3>1 DEF OnRing
    <3>3. \A k \in Rings : {q} \cap Q[k] = {}
      BY <2>20
    <3> QED BY <1>5, <2>10, <3>1, <3>2, <3>3 DEF Source
  <2>29. Laid(f, Q)
    BY <2>26 DEF Good
  <2>30. "YOUNG" \in Classes /\ RingOf(d, "YOUNG") = <<d, "young">>
    BY DEF Classes, RingOf
  <2>31. Reclassified(f, Q, lp, {q}, d, "YOUNG", g)
    BY <2>6, <2>28, <2>29, <2>30, ReclassifyIs
  <2>32. PICK R1 : R1 = MoveTo(Q, q, RingOf(d, "YOUNG"))
    OBVIOUS
  <2>33. Good(g, R1, {q} \ {q})
    <3>1. {q} \subseteq f.mapped
      BY <2>15, <2>27
    <3> QED BY <2>21, <2>26, <2>28, <2>30, <2>31, <2>32, <3>1, MoveGood
  <2>34. Changes(f, Q, g, R1, d) /\ NoOrphan(f, Q, g, R1)
    <3>1. lp[1] \in {d, Orphan}
      BY <2>1
    <3>2. \A h \in Rings : h[1] \notin {d, Orphan} => {q} \cap Q[h] = {}
      BY <2>20
    <3> QED BY <2>28, <2>29, <2>30, <2>31, <2>32, <3>1, <3>2, MoveChanges
  <2>35. Good(g, R1, {})
    <3>1. {q} \ {q} = {}
      OBVIOUS
    <3> QED BY <2>33, <3>1
  <2>36. Good(n, R1, {}) /\ KeptBut(g, lp, NULL, n)
    BY <2>7, <2>35, LocalGood
  <2>37. Outside(a, Q, f, Q, d)
    <3>1. f.next = a.next /\ f.domain_id = a.domain_id
      BY <2>9, <2>12, <2>17, <2>19, <2>26 DEF KeptBut, SamePools, SameCounts
    <3>2. \A k \in Rings : f.head[k] = a.head[k]
      BY <2>10, <2>14, <2>17, <2>26 DEF KeptBut
    <3> QED BY <3>1, <3>2, OutsideSame
  <2>38. Outside(f, Q, g, R1, d)
    BY <2>34 DEF Outside
  <2>39. Outside(g, R1, n, R1, d)
    <3>1. n.next = g.next /\ n.domain_id = g.domain_id /\ \A k \in Rings : n.head[k] = g.head[k]
      BY <2>10, <2>36 DEF KeptBut, SamePools
    <3> QED BY <3>1, OutsideSame
  <2>40. Outside(m, R, n, R1, d)
    <3>1. Outside(m, R, f, Q, d)
      BY <2>9, <2>37, OutsideTrans
    <3>2. Outside(m, R, g, R1, d)
      BY <2>38, <3>1, OutsideTrans
    <3> QED BY <2>39, <3>2, OutsideTrans
  <2>41. R1[c] = {}
    <3>1. R1[c] = Q[c] \ {q} /\ Q[c] = R[c] \ {q}
      BY <1>1, <2>8, <2>30, <2>32 DEF MoveTo, Removed
    <3>2. \A x \in R[c] : x = q
      BY <1>1, <1>3, <2>9 DEF OneCurrent
    <3> QED BY <3>1, <3>2
  <2>42. n.head[<<d, "young">>] # NULL
    <3>1. PICK y \in Rings : y = <<d, "young">>
      BY RingNames
    <3>2. q \in R1[y]
      BY <2>30, <2>32, <3>1 DEF MoveTo
    <3>3. OnRing(n, y, R1[y]) /\ R1[y] \subseteq Pools
      BY <2>36 DEF Good, Laid
    <3> QED BY <3>1, <3>2, <3>3, HeadsApart DEF OnRing
  <2>43. Operation(m, R, d, n, R1)
    BY <1>1, <2>36, <2>40, <2>41 DEF Operation, Outside
  <2> QED BY <1>1, <2>41, <2>42, <2>43
<1> QED BY <1>4, <1>5

\* What set_current_pool writes.
LEMMA SetCurrentIs ==
  ASSUME NEW m \in Memory, NEW d \in Domains, NEW q \in Pools,
         m.alloc_count[q] \in 0 .. POOL_CAPACITY, NEW n, n = set_current_pool(m, d, q)
  PROVE  MadeCurrent(m, d, q, n) /\ n.alloc_count[q] = m.alloc_count[q] + 1 /\ n.mapped = m.mapped
<1>1. PICK c : c = <<d, "current">>
  OBVIOUS
<1>2. c \in Heads
  BY <1>1, RingNames, HeadsApart
<1>3. PICK a \in 0 .. POOL_CAPACITY + 1 : a = m.alloc_count[q] + 1
  BY Capacity
<1>4. n = [m EXCEPT !.domain_id[q] = d, !.head[c] = q, !.class[q] = "YOUNG", !.alloc_count[q] = a]
  BY <1>1, <1>3 DEF set_current_pool
<1>5. /\ n \in Memory
      /\ n.head = [m.head EXCEPT ![c] = q] /\ n.next = m.next /\ n.prev = m.prev
      /\ n.class = [m.class EXCEPT ![q] = "YOUNG"]
      /\ n.domain_id = [m.domain_id EXCEPT ![q] = d]
      /\ n.alloc_count = [m.alloc_count EXCEPT ![q] = a] /\ n.delayed_count = m.delayed_count
      /\ n.mapped = m.mapped
  <2>1. /\ m.head \in [Heads -> Pools \cup {NULL}] /\ m.next \in [Pools -> Pools]
        /\ m.prev \in [Pools -> Pools] /\ m.alloc_count \in [Pools -> 0 .. POOL_CAPACITY + 1]
        /\ m.delayed_count \in [Pools -> -POOL_CAPACITY .. 0]
        /\ m.class \in [Pools -> Classes] /\ m.domain_id \in [Pools -> Domains \cup {NULL}]
        /\ m.mapped \in SUBSET Pools
    BY DEF Memory, Heads, Classes
  <2>2. n = [head |-> [m.head EXCEPT ![c] = q], next |-> m.next, prev |-> m.prev,
             alloc_count |-> [m.alloc_count EXCEPT ![q] = a], delayed_count |-> m.delayed_count,
             class |-> [m.class EXCEPT ![q] = "YOUNG"],
             domain_id |-> [m.domain_id EXCEPT ![q] = d], mapped |-> m.mapped]
    BY <1>4 DEF Memory
  <2>3. /\ [m.head EXCEPT ![c] = q] \in [Heads -> Pools \cup {NULL}]
        /\ [m.alloc_count EXCEPT ![q] = a] \in [Pools -> 0 .. POOL_CAPACITY + 1]
        /\ [m.class EXCEPT ![q] = "YOUNG"] \in [Pools -> Classes]
        /\ [m.domain_id EXCEPT ![q] = d] \in [Pools -> Domains \cup {NULL}]
    BY <1>2, <2>1 DEF Classes
  <2>4. n \in Memory
    BY <2>1, <2>2, <2>3 DEF Memory, Heads, Classes
  <2> QED BY <2>2, <2>4
<1>6. n.alloc_count[q] = a /\ \A s \in Pools \ {q} : n.alloc_count[s] = m.alloc_count[s]
  BY <1>5 DEF Memory
<1> QED BY <1>1, <1>3, <1>5, <1>6 DEF MadeCurrent

\* A pool with room is popped from a ring of d.
CanPop(m, R, d, l, q) ==
  /\ R[<<d, "current">>] = {} /\ \E k \in {"old", "young", "free"} : l = <<d, k>>
  /\ m.head[l] = q /\ q # NULL /\ ~ is_full_pool(m, q)
PoppedCurrent(m, d, l, q) ==
  LET b == set_current_pool(ring_pop(m, l), d, q)
  IN AllocSet(b, q, b.alloc_count[q] + 1)

\* Popping a pool and making it current, as in find_and_set_available_pool.
LEMMA PopCurrentIs ==
  ASSUME NEW m, NEW R, Good(m, R, {}), NEW d \in Domains, NEW l, NEW q, CanPop(m, R, d, l, q),
         NEW n, n = PoppedCurrent(m, d, l, q)
  PROVE  \E R1 : Good(n, R1, {}) /\ Outside(m, R, n, R1, d)
<1>0. PICK b : b = set_current_pool(ring_pop(m, l), d, q)
  OBVIOUS
<1>1. l \in Rings /\ l[1] \in {d, Orphan}
  <2>1. PICK k \in {"old", "young", "free"} : l = <<d, k>>
    BY DEF CanPop
  <2>2. l \in Rings
    BY <2>1, RingNames
  <2> QED BY <2>1, <2>2
<1>2. Laid(m, R) /\ OneCurrent(R)
  BY DEF Good
<1>3. PICK a : a = ring_pop(m, l)
  OBVIOUS
<1>4. PICK Q : Q = Removed(R, q)
  OBVIOUS
<1>5. /\ Laid(a, Q) /\ Loose(a, Q, q) /\ SamePools(m, a)
      /\ q \in R[l] /\ q \in Pools /\ Outside(m, R, a, Q, d)
      /\ \A s \in Pools \ R[l] : a.next[s] = m.next[s] /\ a.prev[s] = m.prev[s]
  <2>1. m.head[l] # NULL /\ q = m.head[l]
    BY DEF CanPop
  <2> QED BY <1>1, <1>2, <1>3, <1>4, <2>1, PopOutside
<1>6. q \in m.mapped /\ q \notin Cur(R) /\ Held(R, q) = 0
  <2>1. PICK k \in {"old", "young", "free"} : l = <<d, k>>
    BY DEF CanPop
  <2> QED BY <1>5, <2>1, ClassOf
<1>7. Counted(m, R, q) /\ m \in Memory /\ POOL_CAPACITY \in Nat
  BY <1>5, Capacity DEF Good, Laid
<1>8. \A e \in Domains, j \in Kinds : q \notin Q[<<e, j>>]
  BY <1>5, RingNames DEF Loose
<1>9. Held(Q, q) = 0
  BY <1>8, InCur DEF Held, Kinds
<1>10. Good(a, Q, {q})
  <2>1. PICK X : X = {q}
    OBVIOUS
  <2>2. X \subseteq {q} /\ a.mapped = (m.mapped \ {q}) \cup X
    BY <1>5, <1>6, <2>1 DEF SamePools, SameCounts
  <2>3. \A s \in Pools \ {q} : /\ a.alloc_count[s] = m.alloc_count[s]
                               /\ a.delayed_count[s] = m.delayed_count[s]
                               /\ a.class[s] = m.class[s] /\ a.domain_id[s] = m.domain_id[s]
    BY <1>5 DEF SamePools, SameCounts
  <2>4. Counted(a, Q, q)
    <3>1. \A e \in Domains : q \notin Q[<<e, "free">>]
      BY <1>8 DEF Kinds
    <3> QED BY <1>5, <1>6, <1>7, <1>9, <3>1 DEF Counted, SamePools, SameCounts
  <2>5. \A s \in Pools \ a.mapped : a.next[s] = s /\ a.prev[s] = s
    <3> TAKE s \in Pools \ a.mapped
    <3>1. s \notin m.mapped
      BY <1>5 DEF SamePools, SameCounts
    <3>2. s \notin R[l]
      BY <1>1, <3>1 DEF Good
    <3> QED BY <1>5, <3>1, <3>2 DEF Good
  <2>6. Good(a, Q, X)
    BY <1>1, <1>4, <1>5, <2>2, <2>3, <2>4, <2>5, RemoveGood
  <2> QED BY <2>1, <2>6
<1>11. /\ a.alloc_count[q] = m.alloc_count[q] /\ a.delayed_count[q] = m.delayed_count[q]
       /\ a.mapped = a.mapped \cup {q} /\ a \in Memory
  BY <1>5, <1>6 DEF SamePools, SameCounts, Laid
<1>12. /\ m.alloc_count[q] \in 0 .. POOL_CAPACITY - 1
       /\ m.alloc_count[q] + m.delayed_count[q] >= 0 /\ m.delayed_count[q] \in Int
  <2>1. Bias(m, q) = 0
    BY <1>2, <1>5, <1>6, HeldIsBias
  <2>2. m.alloc_count[q] # POOL_CAPACITY
    <3>1. m.alloc_count[q] \in Int
      BY <1>5, <1>7 DEF Memory
    <3> QED BY <2>1, <3>1 DEF is_full_pool, CanPop
  <2>3. m.delayed_count[q] \in Int /\ m.alloc_count[q] \in Int
    BY <1>5, <1>7 DEF Memory
  <2> QED BY <1>6, <1>7, <2>2, <2>3 DEF Counted
<1>13. PICK v \in 1 .. POOL_CAPACITY + 1 : v = a.alloc_count[q] + 2
  BY <1>7, <1>11, <1>12
<1>14. MadeCurrent(a, d, q, n) /\ n.alloc_count[q] = v /\ n.mapped = a.mapped
  <2>1. b = set_current_pool(a, d, q) /\ a.alloc_count[q] \in 0 .. POOL_CAPACITY
    BY <1>0, <1>3, <1>7, <1>11, <1>12
  <2>2. MadeCurrent(a, d, q, b) /\ b.alloc_count[q] = a.alloc_count[q] + 1 /\ b.mapped = a.mapped
    BY <1>5, <1>11, <2>1, SetCurrentIs
  <2>3. b \in Memory /\ v = b.alloc_count[q] + 1
    BY <1>11, <1>12, <1>13, <2>2 DEF MadeCurrent
  <2>4. n = AllocSet(b, q, v)
    BY <1>0, <2>3 DEF PoppedCurrent
  <2>5. /\ n \in Memory /\ SameButCounts(b, n)
        /\ n.head = b.head /\ n.next = b.next /\ n.prev = b.prev
        /\ n.alloc_count[q] = v /\ n.delayed_count = b.delayed_count
        /\ \A s \in Pools \ {q} : n.alloc_count[s] = b.alloc_count[s]
    <3>1. PICK w \in 0 .. POOL_CAPACITY + 1 : w = v
      OBVIOUS
    <3>2. n = AllocSet(b, q, w)
      BY <2>4, <3>1
    <3>3. /\ n \in Memory /\ SameButCounts(b, n)
          /\ n.head = b.head /\ n.next = b.next /\ n.prev = b.prev
          /\ n.alloc_count[q] = w /\ n.delayed_count = b.delayed_count
          /\ \A s \in Pools \ {q} : n.alloc_count[s] = b.alloc_count[s]
      BY <1>5, <2>3, <3>2, AllocIs
    <3> QED BY <3>1, <3>3
  <2> QED BY <2>2, <2>5 DEF MadeCurrent, SameButCounts
<1>15. PICK c : c = <<d, "current">>
  OBVIOUS
<1>16. Q[c] = {}
  BY <1>4, <1>15, RingNames DEF Removed, CanPop
<1>17. PICK R1 : R1 = Added(Q, c, q)
  OBVIOUS
<1>18. /\ n.alloc_count[q] - 1 \in 0 .. POOL_CAPACITY
       /\ n.alloc_count[q] + n.delayed_count[q] - 1 >= 0
  <2>1. n.delayed_count[q] = m.delayed_count[q]
    BY <1>11, <1>14 DEF MadeCurrent
  <2> QED BY <1>7, <1>11, <1>12, <1>13, <1>14, <2>1
<1>19. Good(n, R1, {}) /\ Outside(a, Q, n, R1, d)
  <2>1. PICK X : X = {q}
    OBVIOUS
  <2>2. X \subseteq {q} /\ Good(a, Q, X) /\ n.mapped = a.mapped \cup {q} /\ Loose(a, Q, q)
    BY <1>5, <1>10, <1>11, <1>14, <2>1
  <2> QED BY <1>14, <1>15, <1>16, <1>17, <1>18, <2>2, CurrentGood
<1>20. Outside(m, R, n, R1, d)
  BY <1>5, <1>19, OutsideTrans
<1> QED BY <1>19, <1>20

FreshPool(m, q) == [m EXCEPT !.mapped = @ \cup {q}, !.alloc_count[q] = 2]

\* A pool comes from the system.
LEMMA FreshCurrentIs ==
  ASSUME NEW m, NEW R, Good(m, R, {}), NEW d \in Domains, R[<<d, "current">>] = {},
         NEW q \in Pools \ m.mapped,
         NEW n, n = FreshPool(set_current_pool(m, d, q), q)
  PROVE  \E R1 : Good(n, R1, {}) /\ Outside(m, R, n, R1, d)
<1>1. m \in Memory /\ q \in Pools /\ m.next[q] = q /\ m.prev[q] = q /\ Counted(m, R, q)
  BY DEF Good, Laid
<1>2. \A l \in Rings : q \notin R[l]
  BY DEF Good
<1>3. Loose(m, R, q)
  <2>1. Cycle(m.next, m.prev, {q})
    BY <1>1, CycleAlone
  <2> QED BY <1>1, <1>2, <2>1 DEF Loose
<1>4. PICK b : b = set_current_pool(m, d, q)
  OBVIOUS
<1>5. PICK v \in 0 .. POOL_CAPACITY + 1 : v = 2
  BY Capacity
<1>6. MadeCurrent(m, d, q, n) /\ n.alloc_count[q] = v /\ n.mapped = m.mapped \cup {q}
  <2>1. m.alloc_count[q] \in 0 .. POOL_CAPACITY
    BY <1>1, Capacity DEF Counted
  <2>2. MadeCurrent(m, d, q, b) /\ b.mapped = m.mapped
    BY <1>1, <1>4, <2>1, SetCurrentIs
  <2>3. PICK M \in SUBSET Pools : M = m.mapped \cup {q}
    BY <1>1 DEF Memory
  <2>4. b \in Memory
    BY <2>2 DEF MadeCurrent
  <2>5. n = [b EXCEPT !.mapped = M, !.alloc_count[q] = v]
    BY <1>4, <1>5, <2>2, <2>3, <2>4 DEF Memory, FreshPool
  <2>6. /\ n \in Memory
        /\ n.head = b.head /\ n.next = b.next /\ n.prev = b.prev /\ n.class = b.class
        /\ n.domain_id = b.domain_id /\ n.delayed_count = b.delayed_count
        /\ n.alloc_count = [b.alloc_count EXCEPT ![q] = v] /\ n.mapped = M
    <3>1. [b.alloc_count EXCEPT ![q] = v] \in [Pools -> 0 .. POOL_CAPACITY + 1]
      BY <1>1, <2>4 DEF Memory
    <3>2. n = [head |-> b.head, next |-> b.next, prev |-> b.prev,
               alloc_count |-> [b.alloc_count EXCEPT ![q] = v], delayed_count |-> b.delayed_count,
               class |-> b.class, domain_id |-> b.domain_id, mapped |-> M]
      BY <2>4, <2>5 DEF Memory
    <3> QED BY <2>4, <3>1, <3>2 DEF Memory
  <2>7. n.alloc_count[q] = v /\ \A s \in Pools \ {q} : n.alloc_count[s] = b.alloc_count[s]
    BY <1>1, <2>4, <2>6 DEF Memory
  <2> QED BY <2>2, <2>3, <2>6, <2>7 DEF MadeCurrent
<1>7. PICK c : c = <<d, "current">>
  OBVIOUS
<1>8. PICK R1 : R1 = Added(R, c, q)
  OBVIOUS
<1>9. /\ R[c] = {} /\ n.alloc_count[q] - 1 \in 0 .. POOL_CAPACITY
      /\ n.alloc_count[q] + n.delayed_count[q] - 1 >= 0
  <2>1. n.delayed_count[q] = 0
    BY <1>1, <1>6 DEF MadeCurrent, Counted
  <2> QED BY <1>5, <1>6, <1>7, <2>1, Capacity
<1>10. PICK X : X = {}
  OBVIOUS
<1>11. X \subseteq {q} /\ Good(m, R, X)
  BY <1>10
<1>12. Good(n, R1, {}) /\ Outside(m, R, n, R1, d)
  BY <1>3, <1>6, <1>7, <1>8, <1>9, <1>11, CurrentGood
<1> QED BY <1>12

-----------------------------------------------------------------------------
(* Allocations and deletions.                                              *)

\* The roots of a pool.
LEMMA LiveIs ==
  ASSUME NEW m, NEW R, Good(m, R, {}), NEW q \in Pools, Live(m, q) > 0
  PROVE  /\ q \in m.mapped /\ \E l \in Rings : q \in R[l]
         /\ \A d \in Domains : q \notin R[<<d, "free">>]
         /\ m.alloc_count[q] + m.delayed_count[q] - Held(R, q) > 0
         /\ m.alloc_count[q] \in Int /\ m.delayed_count[q] \in Int
         /\ m.delayed_count[q] <= 0 /\ Held(R, q) \in {0, 1}
<1>1. /\ Laid(m, R) /\ OneCurrent(R) /\ Counted(m, R, q) /\ m \in Memory
  BY DEF Good, Laid
<1>2. Bias(m, q) = Held(R, q) /\ Held(R, q) \in {0, 1}
  BY <1>1, HeldIsBias DEF Held
<1>4. m.alloc_count[q] \in Int /\ m.delayed_count[q] \in Int /\ m.delayed_count[q] <= 0
  BY <1>1, Capacity DEF Memory
<1>3. m.alloc_count[q] + m.delayed_count[q] - Held(R, q) > 0
  <2>1. PICK a, b, v : a = m.alloc_count[q] /\ b = m.delayed_count[q] /\ v = Bias(m, q)
    OBVIOUS
  <2>2. Live(m, q) = (a + b) - v
    BY <2>1 DEF Live, anticipated_alloc_count
  <2> QED BY <1>2, <1>4, <2>1, <2>2
<1>5. q \in m.mapped
  BY <1>1, <1>2, <1>3, <1>4 DEF Counted
<1>6. \A d \in Domains : q \notin R[<<d, "free">>]
  <2>1. m.alloc_count[q] + m.delayed_count[q] # 0
    BY <1>2, <1>3, <1>4
  <2> QED BY <1>1, <2>1 DEF Counted
<1>7. \E l \in Rings : q \in R[l]
  BY <1>5 DEF Good
<1> QED BY <1>2, <1>3, <1>4, <1>5, <1>6, <1>7

\* A root is allocated in the current pool.
HasRoomFor(m, d, q) == q # NULL /\ q = m.head[<<d, "current">>] /\ ~ is_full_pool(m, q)
Allocated(m, q) == AllocSet(m, q, m.alloc_count[q] + 1)

\* boxroot_create counts a root in the current pool.
LEMMA AllocateIs ==
  ASSUME NEW m, NEW R, Good(m, R, {}), NEW d \in Domains, NEW q, HasRoomFor(m, d, q),
         NEW n, n = Allocated(m, q)
  PROVE  Good(n, R, {}) /\ Outside(m, R, n, R, d) /\ n.head = m.head
<1>1. PICK c \in Rings : c = <<d, "current">>
  BY RingNames
<1>2. PICK X : X = {}
  OBVIOUS
<1>3. /\ Laid(m, R) /\ OneCurrent(R) /\ m \in Memory /\ Good(m, R, X)
      /\ OnRing(m, c, R[c]) /\ R[c] \subseteq Pools /\ POOL_CAPACITY \in Nat
      /\ m.mapped = UNION {R[l] : l \in Rings}
  BY <1>2, Capacity DEF Good, Laid
<1>4. q \in R[c] /\ q \in Pools /\ q \in m.mapped
  BY <1>1, <1>3 DEF OnRing, HasRoomFor
<1>5. Counted(m, R, q) /\ Held(R, q) = 1 /\ Bias(m, q) = 1
  <2>1. q \in Cur(R)
    BY <1>1, <1>4, InCur
  <2> QED BY <1>3, <1>4, <2>1, HeldIsBias DEF Held, Good
<1>6. /\ m.alloc_count[q] \in Int /\ m.delayed_count[q] \in Int
      /\ m.alloc_count[q] - 1 \in 0 .. POOL_CAPACITY - 1
      /\ m.alloc_count[q] + m.delayed_count[q] - 1 >= 0
  <2>1. m.alloc_count[q] \in Int /\ m.delayed_count[q] \in Int
    BY <1>3, <1>4 DEF Memory
  <2> QED BY <1>3, <1>5, <2>1 DEF Counted, is_full_pool, HasRoomFor
<1>7. PICK v \in 0 .. POOL_CAPACITY + 1 : v = m.alloc_count[q] + 1
  BY <1>3, <1>6
<1>8. n = AllocSet(m, q, v)
  BY <1>7 DEF Allocated
<1>10. /\ n \in Memory /\ SameButCounts(m, n)
       /\ n.head = m.head /\ n.next = m.next /\ n.prev = m.prev
       /\ n.alloc_count[q] = v /\ n.delayed_count = m.delayed_count
       /\ \A s \in Pools \ {q} : n.alloc_count[s] = m.alloc_count[s]
  BY <1>3, <1>4, <1>8, AllocIs
<1>11. Counted(n, R, q)
  <2>1. \A e \in Domains : q \notin R[<<e, "free">>]
    <3> TAKE e \in Domains
    <3>1. PICK h \in Rings : h = <<e, "free">> /\ h # c
      BY <1>1, RingNames
    <3>2. R[h] \cap R[c] = {}
      BY <1>3, <3>1 DEF Laid
    <3> QED BY <1>4, <3>1, <3>2
  <2>2. q \in n.mapped
    BY <1>4, <1>10 DEF SameButCounts
  <2>3. /\ n.alloc_count[q] = m.alloc_count[q] + 1 /\ n.delayed_count[q] = m.delayed_count[q]
    BY <1>7, <1>10
  <2>4. /\ n.alloc_count[q] - Held(R, q) \in 0 .. POOL_CAPACITY
        /\ n.alloc_count[q] + n.delayed_count[q] - Held(R, q) >= 0
    BY <1>3, <1>5, <1>6, <2>3
  <2> QED BY <2>1, <2>2, <2>4 DEF Counted
<1>12. Good(n, R, X)
  <2>1. \A s \in Pools \ {q} : n.alloc_count[s] = m.alloc_count[s]
                               /\ n.delayed_count[s] = m.delayed_count[s]
    BY <1>10
  <2>2. Good(n, R, X) /\ n.head = m.head /\ n.next = m.next
    BY <1>3, <1>4, <1>10, <1>11, <2>1, CountGood
  <2> QED BY <2>2
<1>13. Outside(m, R, n, R, d)
  <2>1. n.next = m.next /\ n.domain_id = m.domain_id /\ \A l \in Rings : n.head[l] = m.head[l]
    BY <1>10 DEF SameButCounts
  <2> QED BY <2>1, OutsideSame
<1> QED BY <1>2, <1>10, <1>12, <1>13

-----------------------------------------------------------------------------
OnOwnRing(R, d, q) == \E k \in {"old", "young", "current"} : q \in R[<<d, k>>]

\* A step that leaves the layout, and an operation, are one operation.
LEMMA OperationTrans ==
  ASSUME NEW m, NEW R, NEW d, NEW n, Outside(m, R, n, R, d), NEW o, NEW R1,
         Operation(n, R, d, o, R1)
  PROVE  Operation(m, R, d, o, R1)
<1>1. Outside(n, R, o, R1, d)
  BY DEF Operation, Outside
<1>2. Outside(m, R, o, R1, d)
  BY <1>1, OutsideTrans
<1> QED BY <1>2 DEF Operation, Outside

\* try_demote_pool moves the pool within the rings of its domain, or leaves
\* it.
LEMMA TryDemoteIs ==
  ASSUME NEW m, NEW R, Good(m, R, {}), NEW d \in Domains, NEW q, OnOwnRing(R, d, q),
         NEW n, n = try_demote_pool(m, d, q)
  PROVE  \E R1 : Operation(m, R, d, n, R1)
<1>1. CASE n = m
  <2>1. Operation(m, R, d, n, R)
    BY <1>1, OperationSame
  <2> QED BY <2>1
<1>2. PICK cl : cl = IF m.alloc_count[q] = 0 THEN "UNTRACKED" ELSE m.class[q]
  OBVIOUS
<1>3. PICK l0 : l0 = IF q = m.head[<<d, "old">>] THEN <<d, "old">>
                     ELSE IF q = m.head[<<d, "young">>] THEN <<d, "young">>
                     ELSE <<d, "p">>
  OBVIOUS
<1>4. ASSUME q # m.head[<<d, "current">>],
             n = Forget(reclassify_pool(WithLocal(m, d, q), l0, d, cl), d)
      PROVE  \E R1 : Operation(m, R, d, n, R1)
  <2>1. PICK lp \in Locals : lp = <<d, "p">>
    BY RingNames
  <2>2. PICK a : a = SetHead(m, lp, q)
    OBVIOUS
  <2>3. PICK b : b = reclassify_pool(a, l0, d, cl)
    OBVIOUS
  <2>4. n = SetHead(b, lp, NULL)
    BY <1>4, <2>1, <2>2, <2>3 DEF SetHead, WithLocal, Forget
  <2>5. q \notin R[<<d, "current">>]
    <3>1. PICK c \in Rings : c = <<d, "current">>
      BY RingNames
    <3>2. OnRing(m, c, R[c]) /\ OneCurrent(R)
      BY DEF Good, Laid
    <3> QED BY <1>4, <3>1, <3>2 DEF OnRing, OneCurrent
  <2>6. PICK k \in {"old", "young"} : q \in R[<<d, k>>]
    BY <2>5 DEF OnOwnRing
  <2>7. PICK l \in Rings : l = <<d, k>> /\ l[1] = d
    BY <2>6, RingNames
  <2>8. q \in R[l] /\ k \in {"old", "young", "free"}
    BY <2>6, <2>7
  <2>9. q \in Pools /\ q \in m.mapped /\ m.class[q] \in Classes /\ q \notin Cur(R) /\ Held(R, q) = 0
    BY <2>7, <2>8, ClassOf
  <2>10. Good(a, R, {}) /\ KeptBut(m, lp, q, a)
    BY <2>2, <2>9, LocalGood
  <2>11. \A h \in Rings : a.head[h] = m.head[h]
    BY <2>10, HeadsApart DEF KeptBut
  <2>12. Found(a, l, q, d, l0)
    <3>1. \A h \in Rings : q = m.head[h] => h = l
      <4> SUFFICES ASSUME NEW h \in Rings, q = m.head[h], h # l PROVE FALSE
        OBVIOUS
      <4>1. OnRing(m, h, R[h]) /\ R[h] \cap R[l] = {}
        BY DEF Good, Laid
      <4> QED BY <2>8, <2>9, <4>1, HeadsApart DEF OnRing
    <3>2. CASE l0 = l
      <4>1. m.head[l] = q
        <5>1. l # <<d, "p">>
          BY <2>1, <2>7, HeadsApart
        <5> QED BY <1>3, <3>2, <5>1
      <4> QED BY <2>11, <3>2, <4>1 DEF Found
    <3>3. CASE l0 # l
      <4>1. l0 = <<d, "p">> /\ m.head[l] # q
        BY <1>3, <2>6, <2>7, <3>1, <3>3, RingNames
      <4>2. a.head[l0] = q
        BY <2>1, <2>10, <4>1 DEF KeptBut
      <4> QED BY <2>11, <4>1, <4>2 DEF Found
    <3> QED BY <3>2, <3>3
  <2>13. Source(a, R, l0, R[l]) /\ l0[1] = d
    BY <2>7, <2>8, <2>10, <2>12, FoundSource DEF Good
  <2>14. cl \in Classes
    BY <1>2, <2>9 DEF Classes
  <2>15. cl = "UNTRACKED" => a.alloc_count[q] + a.delayed_count[q] = 0
    <3>1. SUFFICES ASSUME cl = "UNTRACKED" PROVE a.alloc_count[q] + a.delayed_count[q] = 0
      OBVIOUS
    <3>2. m.class[q] # "UNTRACKED"
      <4>1. m.class[q] = CASE l[2] = "old" -> "OLD" [] l[2] = "free" -> "UNTRACKED" [] OTHER -> "YOUNG"
        BY <2>8 DEF Good, Sync
      <4> QED BY <2>6, <2>7, <4>1
    <3>3. m.alloc_count[q] = 0
      BY <1>2, <3>1, <3>2
    <3>4. Counted(m, R, q) /\ m.delayed_count[q] \in Int /\ m.delayed_count[q] <= 0
      BY <2>9, Capacity DEF Good, Laid, Memory
    <3>5. m.delayed_count[q] = 0
      BY <2>9, <3>3, <3>4 DEF Counted
    <3> QED BY <2>10, <3>3, <3>5 DEF KeptBut, SamePools, SameCounts
  <2>16. PICK R1 : R1 = MoveTo(R, q, RingOf(d, cl))
    OBVIOUS
  <2>17. q = a.head[l0]
    BY <2>12 DEF Found
  <2>18. PICK A : A = R[l]
    OBVIOUS
  <2>19. Source(a, R, l0, A)
    BY <2>13, <2>18
  <2>20. Operation(a, R, d, b, R1)
    BY <2>3, <2>7, <2>9, <2>10, <2>13, <2>14, <2>15, <2>16, <2>17, <2>18, <2>19, MoveOperation
  <2>21. Good(n, R1, {}) /\ KeptBut(b, lp, NULL, n)
    BY <2>4, <2>20, LocalGood DEF Operation
  <2>22. Outside(m, R, n, R1, d)
    <3>1. Outside(m, R, a, R, d)
      BY <2>10, <2>11, OutsideSame DEF KeptBut, SamePools
    <3>2. Outside(a, R, b, R1, d)
      BY <2>20 DEF Operation, Outside
    <3>3. \A h \in Rings : n.head[h] = b.head[h]
      BY <2>21, HeadsApart DEF KeptBut
    <3>4. Outside(b, R1, n, R1, d)
      BY <2>21, <3>3, OutsideSame DEF KeptBut, SamePools
    <3>5. Outside(m, R, b, R1, d)
      BY <3>1, <3>2, OutsideTrans
    <3> QED BY <3>4, <3>5, OutsideTrans
  <2>23. Operation(m, R, d, n, R1)
    BY <2>20, <2>21, <2>22 DEF Operation, Outside
  <2> QED BY <2>23
<1>5. \/ n = m
      \/ /\ q # m.head[<<d, "current">>]
         /\ n = Forget(reclassify_pool(WithLocal(m, d, q), l0, d, cl), d)
  BY <1>2, <1>3 DEF try_demote_pool
<1> QED BY <1>1, <1>4, <1>5

\* boxroot_delete with the lock of the domain.
Deleted(m, d, q) ==
  LET n == AllocSet(m, q, m.alloc_count[q] - 1)
  IN IF n.alloc_count[q] % BXR_DEALLOC_THRESHOLD = 0 THEN try_demote_pool(n, d, q) ELSE n

CanDelete(m, R, d, q) == q \in Pools /\ Live(m, q) > 0 /\ \E k \in Kinds : q \in R[<<d, k>>]

\* boxroot_delete, with the demotion that may follow.
LEMMA DeleteIs ==
  ASSUME NEW m, NEW R, Good(m, R, {}), NEW d \in Domains, NEW q, CanDelete(m, R, d, q),
         NEW n, n = Deleted(m, d, q)
  PROVE  \E R1 : Operation(m, R, d, n, R1)
<1>1. /\ q \in Pools /\ q \in m.mapped /\ \A e \in Domains : q \notin R[<<e, "free">>]
      /\ m.alloc_count[q] + m.delayed_count[q] - Held(R, q) > 0
      /\ m.alloc_count[q] \in Int /\ m.delayed_count[q] \in Int
      /\ m.delayed_count[q] <= 0 /\ Held(R, q) \in {0, 1}
  BY LiveIs DEF CanDelete
<1>2. Counted(m, R, q) /\ m \in Memory /\ POOL_CAPACITY \in Nat
  BY <1>1, Capacity DEF Good, Laid
<1>3. m.alloc_count[q] - Held(R, q) - 1 \in 0 .. POOL_CAPACITY
  BY <1>1, <1>2 DEF Counted
<1>4. PICK v \in 0 .. POOL_CAPACITY + 1 : v = m.alloc_count[q] - 1
  BY <1>1, <1>2, <1>3
<1>5. PICK b : b = AllocSet(m, q, v)
  OBVIOUS
<1>6. /\ b \in Memory /\ SameButCounts(m, b)
      /\ b.head = m.head /\ b.next = m.next /\ b.prev = m.prev
      /\ b.alloc_count[q] = v /\ b.delayed_count = m.delayed_count
      /\ \A s \in Pools \ {q} : b.alloc_count[s] = m.alloc_count[s]
  BY <1>1, <1>2, <1>5, AllocIs
<1>7. Counted(b, R, q)
  <2>1. q \in b.mapped
    BY <1>1, <1>6 DEF SameButCounts
  <2>2. /\ b.alloc_count[q] - Held(R, q) \in 0 .. POOL_CAPACITY
        /\ b.alloc_count[q] + b.delayed_count[q] - Held(R, q) >= 0
    BY <1>1, <1>3, <1>4, <1>6
  <2> QED BY <1>1, <2>1, <2>2 DEF Counted
<1>8. Good(b, R, {})
  <2>1. \A s \in Pools \ {q} : b.alloc_count[s] = m.alloc_count[s]
                               /\ b.delayed_count[s] = m.delayed_count[s]
    BY <1>6
  <2>2. PICK X : X = {}
    OBVIOUS
  <2>3. Good(m, R, X)
    BY <2>2
  <2>4. Good(b, R, X)
    BY <1>1, <1>6, <1>7, <2>1, <2>3, CountGood
  <2> QED BY <2>2, <2>4
<1>9. Outside(m, R, b, R, d)
  <2>1. b.next = m.next /\ b.domain_id = m.domain_id /\ \A l \in Rings : b.head[l] = m.head[l]
    BY <1>6 DEF SameButCounts
  <2> QED BY <2>1, OutsideSame
<1>10. OnOwnRing(R, d, q)
  BY <1>1 DEF OnOwnRing, Kinds, CanDelete
<1>11. n = b \/ n = try_demote_pool(b, d, q)
  BY <1>4, <1>5 DEF Deleted
<1>12. \E R1 : Operation(b, R, d, n, R1)
  <2>1. CASE n = b
    <3>1. Operation(b, R, d, n, R)
      BY <1>8, <2>1, OperationSame
    <3> QED BY <3>1
  <2>2. CASE n = try_demote_pool(b, d, q)
    BY <1>8, <1>10, <2>2, TryDemoteIs
  <2> QED BY <1>11, <2>1, <2>2
<1> QED BY <1>9, <1>12, OperationTrans

\* A deletion without the lock.
DeletedLater(m, q) == [m EXCEPT !.delayed_count[q] = @ - 1]

\* A deletion without the lock of the domain changes one count.
LEMMA DeleteRemoteIs ==
  ASSUME NEW m, NEW R, Good(m, R, {}), NEW q \in Pools, Live(m, q) > 0,
         NEW n, n = DeletedLater(m, q)
  PROVE  /\ Good(n, R, {}) /\ n.head = m.head /\ n.next = m.next
         /\ n.domain_id = m.domain_id
<1>1. /\ q \in m.mapped /\ \A e \in Domains : q \notin R[<<e, "free">>]
      /\ m.alloc_count[q] + m.delayed_count[q] - Held(R, q) > 0
      /\ m.alloc_count[q] \in Int /\ m.delayed_count[q] \in Int
      /\ m.delayed_count[q] <= 0 /\ Held(R, q) \in {0, 1}
  BY LiveIs
<1>2. Counted(m, R, q) /\ m \in Memory /\ POOL_CAPACITY \in Nat
  BY Capacity DEF Good, Laid
<1>3. PICK v \in -POOL_CAPACITY .. 0 : v = m.delayed_count[q] - 1
  <2>1. m.delayed_count[q] - 1 \in -POOL_CAPACITY .. 0
    BY <1>1, <1>2 DEF Counted
  <2> QED BY <2>1
<1>4. /\ n \in Memory
      /\ n.head = m.head /\ n.next = m.next /\ n.prev = m.prev
      /\ n.delayed_count = [m.delayed_count EXCEPT ![q] = v] /\ n.alloc_count = m.alloc_count
      /\ n.class = m.class /\ n.domain_id = m.domain_id /\ n.mapped = m.mapped
  <2>1. n = [m EXCEPT !.delayed_count[q] = v]
    BY <1>3 DEF DeletedLater
  <2> QED BY <1>2, <2>1 DEF Memory
<1>5. n.delayed_count[q] = v
  BY <1>2, <1>4 DEF Memory
<1>6. Counted(n, R, q)
  <2>1. n.alloc_count[q] + n.delayed_count[q] - Held(R, q) >= 0
    BY <1>1, <1>3, <1>4, <1>5
  <2> QED BY <1>1, <1>2, <1>4, <2>1 DEF Counted
<1>7. \A s \in Pools \ {q} : n.alloc_count[s] = m.alloc_count[s]
                             /\ n.delayed_count[s] = m.delayed_count[s]
  BY <1>2, <1>4 DEF Memory
<1>8. SameButCounts(m, n)
  BY <1>4 DEF SameButCounts, Links
<1>9. PICK X : X = {}
  OBVIOUS
<1>10. Good(m, R, X)
  BY <1>9
<1>11. Good(n, R, X)
  BY <1>4, <1>6, <1>7, <1>8, <1>10, CountGood
<1> QED BY <1>4, <1>9, <1>11

-----------------------------------------------------------------------------
(* The loops that empty a ring.                                            *)

\* Two operations in a row are one.
LEMMA OperationAfter ==
  ASSUME NEW m, NEW R, NEW d, NEW n, NEW R1, Operation(m, R, d, n, R1), NEW o, NEW R2,
         Operation(n, R1, d, o, R2)
  PROVE  Operation(m, R, d, o, R2)
<1>1. Outside(m, R, n, R1, d) /\ Outside(n, R1, o, R2, d)
  BY DEF Operation, Outside
<1>2. Outside(m, R, o, R2, d)
  BY <1>1, OutsideTrans
<1> QED BY <1>2 DEF Operation, Outside

\* A ring may start with any of its pools.
LEMMA TurnGood ==
  ASSUME NEW m, NEW R, Good(m, R, {}), NEW l \in Rings, NEW x \in R[l], NEW d, l[1] \in {d, Orphan},
         NEW n, n = SetHead(m, l, x)
  PROVE  Good(n, R, {}) /\ Outside(m, R, n, R, d) /\ SamePools(m, n) /\ n.head[l] = x
<1>1. Laid(m, R) /\ x \in Pools /\ l \in Heads
  BY HeadsApart DEF Good, Laid
<1>2. Laid(n, R)
  BY <1>1, LaidHead
<1>3. /\ SamePools(m, n) /\ n.next = m.next /\ n.prev = m.prev
      /\ n.head = [m.head EXCEPT ![l] = x]
  BY <1>1, HeadSet DEF Laid
<1>4. m.head \in [Heads -> Pools \cup {NULL}]
  BY <1>1 DEF Laid, Memory, Heads
<1>5. n.head[l] = x /\ \A k \in Heads \ {l} : n.head[k] = m.head[k]
  BY <1>1, <1>3, <1>4
<1>6. \A q \in Pools : Counted(n, R, q)
  BY <1>3 DEF Good, Counted, SamePools, SameCounts
<1>7. Good(n, R, {})
  BY <1>2, <1>3, <1>6 DEF Good, Sync, SamePools, SameCounts
<1>8. Outside(m, R, n, R, d)
  BY <1>3, <1>5, HeadsApart DEF Outside, Changes, NoOrphan, SamePools
<1> QED BY <1>3, <1>5, <1>7, <1>8

\* One turn of reclassify_ring.
LastMoved(m, l, d, cl) ==
  IF m.head[l] = NULL THEN m
  ELSE reclassify_pool(SetHead(m, l, m.prev[m.head[l]]), l, d, cl)
CanMove(l, d, cl) ==
  /\ l \in Rings /\ l[1] \in {d, Orphan} /\ l[2] \in {"old", "young"}
  /\ cl \in {"OLD", "YOUNG"}

\* One iteration of reclassify_ring moves the last pool of the ring.
LEMMA LastMovedIs ==
  ASSUME NEW m, NEW R, Good(m, R, {}), NEW d \in Domains, NEW l, NEW cl, CanMove(l, d, cl),
         NEW n, n = LastMoved(m, l, d, cl)
  PROVE  \E R1 : Operation(m, R, d, n, R1)
<1>1. l \in Rings /\ l[1] \in {d, Orphan} /\ l[2] \in {"old", "young"} /\ cl \in Classes
      /\ cl # "UNTRACKED"
  BY DEF CanMove, Classes
<1>2. CASE m.head[l] = NULL
  BY <1>2, OperationSame DEF LastMoved
<1>3. CASE m.head[l] # NULL
  <2>1. PICK x : x = m.prev[m.head[l]]
    OBVIOUS
  <2>2. x \in R[l]
    BY <1>1, <1>3, <2>1 DEF Good, Laid, OnRing, Cycle
  <2>3. PICK o : o = SetHead(m, l, x)
    OBVIOUS
  <2>4. Good(o, R, {}) /\ Outside(m, R, o, R, d) /\ o.head[l] = x
    BY <1>1, <2>2, <2>3, TurnGood
  <2>5. n = reclassify_pool(o, l, d, cl)
    BY <1>3, <2>1, <2>3 DEF LastMoved
  <2>6. Laid(o, R) /\ R[l] \subseteq o.mapped /\ R[l] \in SUBSET Pools
    BY <1>1, <2>4 DEF Good, Laid
  <2>7. Source(o, R, l, R[l])
    BY <1>1, <2>2, <2>4, <2>6, HeadsApart DEF Source, Laid
  <2>8. Reclassified(o, R, l, R[l], d, cl, n)
    BY <1>1, <2>5, <2>6, <2>7, ReclassifyIs
  <2>9. x \notin Cur(R)
    <3>1. \A e \in Domains : <<e, "current">> \in Rings /\ <<e, "current">> # l
      <4> TAKE e \in Domains
      <4>1. PICK c : c = <<e, "current">>
        OBVIOUS
      <4>2. c \in Rings /\ c[2] = "current"
        BY <4>1, RingNames
      <4> QED BY <1>1, <4>1, <4>2
    <3> QED BY <1>1, <2>2, <2>6, <3>1 DEF Cur, Laid
  <2>10. \A h \in Rings : h[1] \notin {d, Orphan} => R[l] \cap R[h] = {}
    BY <1>1, <2>6 DEF Laid
  <2>11. PICK Q : Q = MoveTo(R, x, RingOf(d, cl))
    OBVIOUS
  <2>12. Good(o, R, {}) /\ x = o.head[l]
    BY <2>4
  <2>13. Good(n, Q, {} \ {x})
    BY <1>1, <2>6, <2>7, <2>8, <2>9, <2>11, <2>12, MoveGood
  <2>14. {} \ {x} = {}
    OBVIOUS
  <2>15. Changes(o, R, n, Q, d) /\ NoOrphan(o, R, n, Q)
    BY <1>1, <2>6, <2>7, <2>8, <2>10, <2>11, <2>12, MoveChanges
  <2>16. Q[<<d, "current">>] \subseteq R[<<d, "current">>]
    <3>1. RingOf(d, cl) # <<d, "current">>
      BY <1>1 DEF RingOf, Classes
    <3> QED BY <3>1, <2>11, RingNames DEF MoveTo
  <2>17. Operation(o, R, d, n, Q)
    BY <2>13, <2>14, <2>15, <2>16 DEF Operation
  <2>18. Operation(m, R, d, n, Q)
    BY <2>4, <2>17, OperationTrans
  <2> QED BY <2>18
<1> QED BY <1>2, <1>3

\* reclassify_ring moves every pool of the ring to the ring of the class: one
\* iteration per pool is enough.
LEMMA ReclassifyRingIs ==
  ASSUME NEW m, NEW R, Good(m, R, {}), NEW d \in Domains, NEW l, NEW cl, CanMove(l, d, cl),
         NEW n, n = reclassify_ring(m, l, d, cl)
  PROVE  \E R1 : Operation(m, R, d, n, R1)
<1> DEFINE E == {o \in Memory : \E Q : Operation(m, R, d, o, Q)}
           nx == [o \in E |-> LastMoved(o, l, d, cl)]
           N == Cardinality(DOMAIN m.next)
           F(c) == [k \in 0 .. Cardinality(DOMAIN m.next) |->
                      IF k = 0 THEN m
                      ELSE IF c[k - 1].head[l] = NULL THEN c[k - 1]
                      ELSE reclassify_pool([c[k - 1] EXCEPT !.head[l] = c[k - 1].prev[c[k - 1].head[l]]],
                                           l, d, cl)]
<1>1. m \in Memory /\ m \in E /\ N \in Nat
  <2>1. m \in Memory /\ DOMAIN m.next = Pools
    BY DEF Good, Laid, Memory
  <2>2. Operation(m, R, d, m, R)
    BY OperationSame
  <2>3. N \in Nat
    BY <2>1, PoolAssumption, FS_CardinalityType
  <2> QED BY <2>1, <2>2, <2>3
<1>2. nx \in [E -> E]
  <2> SUFFICES ASSUME NEW o \in E PROVE LastMoved(o, l, d, cl) \in E
    OBVIOUS
  <2>1. PICK Q : Operation(m, R, d, o, Q)
    OBVIOUS
  <2>2. PICK a : a = LastMoved(o, l, d, cl)
    OBVIOUS
  <2>3. PICK Q1 : Operation(o, Q, d, a, Q1)
    BY <2>1, <2>2, LastMovedIs DEF Operation
  <2>4. Operation(m, R, d, a, Q1)
    BY <2>1, <2>3, OperationAfter
  <2>5. a \in Memory
    BY <2>4 DEF Operation, Good, Laid
  <2> QED BY <2>2, <2>4, <2>5
<1>3. PICK g : Iterates(E, nx, m, N, g)
  <2>1. PICK EE, nn, NN : EE = E /\ nn = nx /\ NN = N
    OBVIOUS
  <2>2. HasIterates(EE, nn, m, NN)
    BY <1>1, <1>2, <2>1, IteratesExist
  <2> QED BY <2>1, <2>2 DEF HasIterates
<1>4. \A k \in 0 .. N : k # 0 => k - 1 \in 0 .. N
  BY <1>1
<1>5. \A o \in E : LastMoved(o, l, d, cl) =
        IF o.head[l] = NULL THEN o
        ELSE reclassify_pool([o EXCEPT !.head[l] = o.prev[o.head[l]]], l, d, cl)
  BY DEF LastMoved, SetHead
<1>6. g = F(g)
  <2>1. g \in [0 .. N -> E] /\ \A k \in 0 .. N : g[k] = IF k = 0 THEN m ELSE nx[g[k - 1]]
    BY <1>3 DEF Iterates
  <2>2. \A k \in 0 .. N : g[k] = F(g)[k]
    <3> TAKE k \in 0 .. N
    <3>1. CASE k = 0
      BY <2>1, <3>1
    <3>2. CASE k # 0
      <4>1. g[k - 1] \in E
        BY <1>4, <2>1, <3>2
      <4>2. g[k] = LastMoved(g[k - 1], l, d, cl)
        <5> HIDE DEF E
        <5> QED BY <2>1, <3>2, <4>1
      <4>3. PICK o \in E : o = g[k - 1]
        BY <4>1
      <4>4. g[k] = IF o.head[l] = NULL THEN o
                   ELSE reclassify_pool([o EXCEPT !.head[l] = o.prev[o.head[l]]], l, d, cl)
        <5> HIDE DEF E
        <5> QED BY <1>5, <4>2, <4>3
      <4> QED BY <3>2, <4>3, <4>4
    <3> QED BY <3>1, <3>2
  <2>3. g = [k \in 0 .. N |-> g[k]]
    <3> HIDE DEF E
    <3> QED BY <2>1
  <2>4. F(g) = [k \in 0 .. N |-> F(g)[k]]
    OBVIOUS
  <2> HIDE DEF F, N, E
  <2> QED BY <2>2, <2>3, <2>4
<1>7. n = (CHOOSE c : c = F(c))[N]
  BY DEF reclassify_ring, Drain
<1>8. PICK w : w = CHOOSE c : c = F(c)
  OBVIOUS
<1>9. w = F(w)
  <2> HIDE DEF F
  <2> QED BY <1>6, <1>8, Zenon
<1>10. \A k \in 0 .. N : w[k] \in E
  <2> DEFINE T == {k \in 0 .. N : w[k] \in E}
  <2>1. T \in SUBSET (0 .. N) /\ 0 \in T
    <3>1. w[0] = m
      BY <1>1, <1>9
    <3> HIDE DEF E, F
    <3> QED BY <1>1, <3>1
  <2>2. \A i \in 0 .. N - 1 : i \in T => i + 1 \in T
    <3> SUFFICES ASSUME NEW i \in 0 .. N - 1, w[i] \in E PROVE w[i + 1] \in E
      BY <1>1
    <3>1. i + 1 \in 0 .. N /\ i + 1 # 0 /\ (i + 1) - 1 = i
      BY <1>1
    <3>2. PICK o \in E : o = w[i]
      OBVIOUS
    <3>3. w[i + 1] = IF o.head[l] = NULL THEN o
                     ELSE reclassify_pool([o EXCEPT !.head[l] = o.prev[o.head[l]]], l, d, cl)
      BY <1>9, <3>1, <3>2
    <3>4. w[i + 1] = nx[o]
      BY <1>5, <3>3
    <3> HIDE DEF E, nx
    <3> QED BY <1>2, <3>4
  <2>3. T = 0 .. N
    <3> HIDE DEF T, N
    <3> QED BY <1>1, <2>1, <2>2, IntervalInduction
  <2> QED BY <2>3
<1>11. n \in E
  <2>1. N \in 0 .. N
    BY <1>1
  <2> HIDE DEF E, N, F
  <2> QED BY <1>7, <1>8, <1>10, <2>1
<1> QED BY <1>11

\* The pointers of H, which orphan_pools leaves as they were until the end, are
\* set to NULL.
Cleared(m, H) ==
  [m EXCEPT !.head = [l \in DOMAIN m.head |-> IF l \in H THEN NULL ELSE m.head[l]]]

\* Clearing heads writes nothing else.
LEMMA ClearedIs ==
  ASSUME NEW m \in Memory, NEW H, NEW n, n = Cleared(m, H)
  PROVE  /\ n \in Memory /\ n.next = m.next /\ n.prev = m.prev /\ SamePools(m, n)
         /\ \A l \in Heads : n.head[l] = IF l \in H THEN NULL ELSE m.head[l]
<1> DEFINE h == [l \in DOMAIN m.head |-> IF l \in H THEN NULL ELSE m.head[l]]
<1>1. /\ m.head \in [Heads -> Pools \cup {NULL}] /\ DOMAIN m.head = Heads
      /\ m.next \in [Pools -> Pools] /\ m.prev \in [Pools -> Pools]
      /\ m.alloc_count \in [Pools -> 0 .. POOL_CAPACITY + 1]
      /\ m.delayed_count \in [Pools -> -POOL_CAPACITY .. 0]
      /\ m.class \in [Pools -> {"YOUNG", "OLD", "UNTRACKED"}]
      /\ m.domain_id \in [Pools -> Domains \cup {NULL}]
      /\ m.mapped \in SUBSET Pools
  BY DEF Memory, Heads
<1>2. h \in [Heads -> Pools \cup {NULL}] /\ \A l \in Heads : h[l] = IF l \in H THEN NULL ELSE m.head[l]
  BY <1>1
<1>3. n = [head |-> h, next |-> m.next, prev |-> m.prev, alloc_count |-> m.alloc_count,
           delayed_count |-> m.delayed_count, class |-> m.class, domain_id |-> m.domain_id,
           mapped |-> m.mapped]
  BY DEF Cleared, Memory
<1> HIDE DEF h
<1>4. n \in Memory
  BY <1>1, <1>2, <1>3 DEF Memory, Heads
<1> QED BY <1>2, <1>3, <1>4 DEF SamePools, SameCounts

\* Two memories with the same fields are the same.
LEMMA SameMemory ==
  ASSUME NEW m \in Memory, NEW n \in Memory, SamePools(m, n),
         \A l \in Heads : n.head[l] = m.head[l],
         \A s \in Pools : n.next[s] = m.next[s] /\ n.prev[s] = m.prev[s]
  PROVE  n = m
<1>1. /\ m.head \in [Heads -> Pools \cup {NULL}] /\ n.head \in [Heads -> Pools \cup {NULL}]
      /\ m.next \in [Pools -> Pools] /\ m.prev \in [Pools -> Pools]
      /\ n.next \in [Pools -> Pools] /\ n.prev \in [Pools -> Pools]
  BY DEF Memory, Heads
<1>2. n.head = m.head /\ n.next = m.next /\ n.prev = m.prev
  BY <1>1
<1> QED BY <1>2 DEF SamePools, SameCounts, Memory

\* Clearing heads that are NULL changes nothing.
LEMMA ClearedNone ==
  ASSUME NEW m \in Memory
  PROVE  Cleared(m, {}) = m
<1>1. PICK H : H = {}
  OBVIOUS
<1>2. PICK n : n = Cleared(m, H)
  OBVIOUS
<1>3. n = m
  BY <1>1, <1>2, ClearedIs, SameMemory
<1> QED BY <1>1, <1>2, <1>3

\* Clearing heads one set after the other.
LEMMA ClearedTwice ==
  ASSUME NEW m \in Memory, NEW H, NEW G
  PROVE  Cleared(Cleared(m, H), G) = Cleared(m, H \cup G)
<1>1. PICK a, b, c, K : K = H \cup G /\ a = Cleared(m, H) /\ b = Cleared(a, G) /\ c = Cleared(m, K)
  OBVIOUS
<1>2. a \in Memory /\ b \in Memory /\ c \in Memory /\ SamePools(m, a) /\ SamePools(a, b) /\ SamePools(m, c)
  BY <1>1, ClearedIs
<1>3. /\ a.next = m.next /\ a.prev = m.prev /\ b.next = a.next /\ b.prev = a.prev
      /\ c.next = m.next /\ c.prev = m.prev
  BY <1>1, <1>2, ClearedIs
<1>4. \A l \in Heads : a.head[l] = IF l \in H THEN NULL ELSE m.head[l]
  BY <1>1, ClearedIs
<1>5. \A l \in Heads : b.head[l] = IF l \in G THEN NULL ELSE a.head[l]
  BY <1>1, <1>2, ClearedIs
<1>6. \A l \in Heads : c.head[l] = IF l \in K THEN NULL ELSE m.head[l]
  BY <1>1, ClearedIs
<1>7. \A l \in Heads : b.head[l] = c.head[l]
  BY <1>1, <1>4, <1>5, <1>6
<1>8. SamePools(c, b)
  BY <1>2 DEF SamePools, SameCounts
<1>9. b = c
  BY <1>2, <1>3, <1>7, <1>8, SameMemory
<1> QED BY <1>1, <1>9

\* No operation on another pointer depends on them.
LEMMA ClearedLink ==
  ASSUME NEW m \in Memory, NEW H, NEW x \in Pools, NEW y \in Pools
  PROVE  ring_link(Cleared(m, H), x, y) = Cleared(ring_link(m, x, y), H)
<1>1. PICK a, b, c, e : /\ a = Cleared(m, H) /\ b = ring_link(a, x, y)
                        /\ c = ring_link(m, x, y) /\ e = Cleared(c, H)
  OBVIOUS
<1>2. a \in Memory /\ SamePools(m, a) /\ a.next = m.next /\ a.prev = m.prev
      /\ \A l \in Heads : a.head[l] = IF l \in H THEN NULL ELSE m.head[l]
  BY <1>1, ClearedIs
<1>3. c \in Memory /\ SamePools(m, c) /\ b \in Memory /\ SamePools(a, b)
  BY <1>1, <1>2, LinkSet
<1>4. e \in Memory /\ SamePools(c, e) /\ e.next = c.next /\ e.prev = c.prev
      /\ \A l \in Heads : e.head[l] = IF l \in H THEN NULL ELSE c.head[l]
  <2>1. c \in Memory /\ e = Cleared(c, H)
    BY <1>1, <1>3
  <2> QED BY <2>1, ClearedIs
<1>5. /\ b.head = a.head /\ c.head = m.head
      /\ \A s \in Pools : b.next[s] = c.next[s] /\ b.prev[s] = c.prev[s]
  BY <1>1, <1>2 DEF ring_link, Memory
<1>6. SamePools(e, b)
  BY <1>2, <1>3, <1>4 DEF SamePools, SameCounts
<1>7. \A l \in Heads : b.head[l] = e.head[l]
  BY <1>2, <1>4, <1>5
<1>8. b = e
  BY <1>3, <1>4, <1>5, <1>6, <1>7, SameMemory
<1> QED BY <1>1, <1>8

\* Setting a head can come before clearing others, or after.
LEMMA ClearedHead ==
  ASSUME NEW m \in Memory, NEW H, NEW l \in Heads, l \notin H, NEW x \in Pools \cup {NULL}
  PROVE  SetHead(Cleared(m, H), l, x) = Cleared(SetHead(m, l, x), H)
<1>1. PICK a, b, c, e : /\ a = Cleared(m, H) /\ b = SetHead(a, l, x)
                        /\ c = SetHead(m, l, x) /\ e = Cleared(c, H)
  OBVIOUS
<1>2. a \in Memory /\ SamePools(m, a) /\ a.next = m.next /\ a.prev = m.prev
      /\ \A k \in Heads : a.head[k] = IF k \in H THEN NULL ELSE m.head[k]
  BY <1>1, ClearedIs
<1>3. /\ c \in Memory /\ SamePools(m, c) /\ c.next = m.next /\ c.prev = m.prev
      /\ c.head = [m.head EXCEPT ![l] = x]
  BY <1>1, HeadSet
<1>4. /\ b \in Memory /\ SamePools(a, b) /\ b.next = a.next /\ b.prev = a.prev
      /\ b.head = [a.head EXCEPT ![l] = x]
  BY <1>1, <1>2, HeadSet
<1>5. e \in Memory /\ SamePools(c, e) /\ e.next = c.next /\ e.prev = c.prev
      /\ \A k \in Heads : e.head[k] = IF k \in H THEN NULL ELSE c.head[k]
  <2>1. c \in Memory /\ e = Cleared(c, H)
    BY <1>1, <1>3
  <2> QED BY <2>1, ClearedIs
<1>6. m.head \in [Heads -> Pools \cup {NULL}] /\ a.head \in [Heads -> Pools \cup {NULL}]
  BY <1>2 DEF Memory, Heads
<1>7. \A k \in Heads : b.head[k] = e.head[k]
  BY <1>2, <1>3, <1>4, <1>5, <1>6
<1>8. SamePools(e, b)
  BY <1>2, <1>3, <1>4, <1>5 DEF SamePools, SameCounts
<1>9. \A s \in Pools : b.next[s] = e.next[s] /\ b.prev[s] = e.prev[s]
  BY <1>2, <1>3, <1>4, <1>5
<1>10. b = e
  BY <1>4, <1>5, <1>7, <1>8, <1>9, SameMemory
<1> QED BY <1>1, <1>10

\* So can popping another ring.
LEMMA ClearedPop ==
  ASSUME NEW m \in Memory, NEW H, NEW l \in Heads, l \notin H, m.head[l] \in Pools
  PROVE  /\ ring_pop(Cleared(m, H), l) = Cleared(ring_pop(m, l), H)
         /\ Cleared(m, H).head[l] = m.head[l]
<1>1. PICK a, x : a = Cleared(m, H) /\ x = m.head[l]
  OBVIOUS
<1>2. /\ a \in Memory /\ a.next = m.next /\ a.prev = m.prev /\ a.head[l] = x
      /\ x \in Pools /\ m.next[x] \in Pools /\ m.prev[x] \in Pools
  <2>1. /\ a \in Memory /\ a.next = m.next /\ a.prev = m.prev
        /\ \A k \in Heads : a.head[k] = IF k \in H THEN NULL ELSE m.head[k]
    BY <1>1, ClearedIs
  <2>2. x \in Pools /\ m.next[x] \in Pools /\ m.prev[x] \in Pools
    BY <1>1 DEF Memory
  <2> QED BY <1>1, <2>1, <2>2
<1>3. CASE m.next[x] = x
  <2>1. PICK c : c = SetHead(m, l, NULL)
    OBVIOUS
  <2>2. c \in Memory /\ SetHead(a, l, NULL) = Cleared(c, H)
    <3>1. PICK v \in Pools \cup {NULL} : v = NULL
      BY <1>2, <2>1
    <3>2. SetHead(m, l, v) \in Memory
      BY HeadSet
    <3>3. SetHead(Cleared(m, H), l, v) = Cleared(SetHead(m, l, v), H)
      BY ClearedHead
    <3> QED BY <1>1, <2>1, <3>1, <3>2, <3>3
  <2>3. ring_link(Cleared(c, H), x, x) = Cleared(ring_link(c, x, x), H)
    BY <1>2, <2>2, ClearedLink
  <2>4. ring_pop(a, l) = ring_link(SetHead(a, l, NULL), x, x)
    BY <1>2, <1>3 DEF ring_pop, SetHead
  <2>5. ring_pop(m, l) = ring_link(c, x, x)
    BY <1>1, <1>3, <2>1 DEF ring_pop, SetHead
  <2> QED BY <1>1, <1>2, <2>2, <2>3, <2>4, <2>5
<1>4. CASE m.next[x] # x
  <2>1. PICK c, y, z : c = SetHead(m, l, y) /\ y = m.next[x] /\ z = m.prev[x]
    OBVIOUS
  <2>2. c \in Memory /\ SetHead(a, l, y) = Cleared(c, H)
    <3>1. PICK v \in Pools \cup {NULL} : v = y
      BY <1>2, <2>1
    <3>2. SetHead(m, l, v) \in Memory
      BY HeadSet
    <3>3. SetHead(Cleared(m, H), l, v) = Cleared(SetHead(m, l, v), H)
      BY ClearedHead
    <3> QED BY <1>1, <2>1, <3>1, <3>2, <3>3
  <2>3. PICK e : e = ring_link(c, z, y)
    OBVIOUS
  <2>4. e \in Memory /\ ring_link(Cleared(c, H), z, y) = Cleared(e, H)
    BY <1>2, <2>1, <2>2, <2>3, ClearedLink, LinkSet
  <2>5. ring_link(Cleared(e, H), x, x) = Cleared(ring_link(e, x, x), H)
    BY <1>2, <2>4, ClearedLink
  <2>6. ring_pop(a, l) = ring_link(ring_link(SetHead(a, l, y), z, y), x, x)
    BY <1>2, <1>4, <2>1 DEF ring_pop, SetHead
  <2>7. ring_pop(m, l) = ring_link(e, x, x)
    BY <1>1, <1>4, <2>1, <2>3 DEF ring_pop, SetHead
  <2> QED BY <1>1, <1>2, <2>2, <2>4, <2>5, <2>6, <2>7
<1> QED BY <1>3, <1>4

\* And pushing at the back of another ring.
LEMMA ClearedPush ==
  ASSUME NEW m \in Memory, NEW H, NEW l \in Heads, l \notin H, NEW y \in Pools
  PROVE  /\ ring_push_back(m, y, l) \in Memory
         /\ ring_push_back(Cleared(m, H), y, l) = Cleared(ring_push_back(m, y, l), H)
<1>1. PICK a, x, z : a = Cleared(m, H) /\ x = m.head[l] /\ z = m.prev[y]
  OBVIOUS
<1>2. /\ a \in Memory /\ a.next = m.next /\ a.prev = m.prev /\ a.head[l] = x
      /\ z \in Pools /\ x \in Pools \cup {NULL}
  <2>1. /\ a \in Memory /\ a.next = m.next /\ a.prev = m.prev
        /\ \A k \in Heads : a.head[k] = IF k \in H THEN NULL ELSE m.head[k]
    BY <1>1, ClearedIs
  <2>2. z \in Pools /\ x \in Pools \cup {NULL}
    BY <1>1 DEF Memory, Heads
  <2> QED BY <1>1, <2>1, <2>2
<1>3. y # NULL
  BY HeadsApart
<1>4. CASE x = NULL
  <2>1. /\ ring_push_back(a, y, l) = SetHead(a, l, y)
        /\ ring_push_back(m, y, l) = SetHead(m, l, y)
    BY <1>1, <1>2, <1>3, <1>4 DEF ring_push_back, Splice, SetHead
  <2>2. SetHead(m, l, y) \in Memory
    BY HeadSet
  <2> QED BY <1>1, <2>1, <2>2, ClearedHead
<1>5. CASE x # NULL
  <2>1. PICK v, c : v = m.prev[x] /\ c = ring_link(m, v, y)
    OBVIOUS
  <2>2. v \in Pools /\ x \in Pools
    BY <1>2, <1>5, <2>1 DEF Memory
  <2>3. c \in Memory /\ ring_link(a, v, y) = Cleared(c, H)
    BY <1>1, <2>1, <2>2, ClearedLink, LinkSet
  <2>4. ring_link(c, z, x) \in Memory /\ ring_link(Cleared(c, H), z, x) = Cleared(ring_link(c, z, x), H)
    BY <1>2, <2>2, <2>3, ClearedLink, LinkSet
  <2>5. ring_push_back(a, y, l) = ring_link(ring_link(a, v, y), z, x)
    <3>1. a.prev[y] = z /\ a.prev[x] = v
      BY <1>1, <1>2, <2>1
    <3> QED BY <1>2, <1>3, <1>5, <3>1 DEF ring_push_back, Splice
  <2>6. ring_push_back(m, y, l) = ring_link(c, z, x)
    BY <1>1, <1>3, <1>5, <2>1 DEF ring_push_back, Splice
  <2> QED BY <1>1, <2>3, <2>4, <2>5, <2>6
<1> QED BY <1>2, <1>4, <1>5

Unmapped(m, q, n) ==
  /\ n \in Memory /\ n.head = m.head /\ n.next = m.next /\ n.prev = m.prev
  /\ n.mapped = m.mapped \ {q}
  /\ n.alloc_count = [m.alloc_count EXCEPT ![q] = 0]
  /\ n.delayed_count = [m.delayed_count EXCEPT ![q] = 0]
  /\ n.class = [m.class EXCEPT ![q] = "UNTRACKED"]
  /\ n.domain_id = [m.domain_id EXCEPT ![q] = NULL]

\* What bxr_free_pool writes.
LEMMA UnmapIs ==
  ASSUME NEW m \in Memory, NEW q \in Pools, NEW n, n = Unmap(m, q)
  PROVE  Unmapped(m, q, n)
<1>1. PICK a, b, c, e : /\ a = [m.alloc_count EXCEPT ![q] = 0]
                        /\ b = [m.delayed_count EXCEPT ![q] = 0]
                        /\ c = [m.class EXCEPT ![q] = "UNTRACKED"]
                        /\ e = [m.domain_id EXCEPT ![q] = NULL]
  OBVIOUS
<1>2. n = [head |-> m.head, next |-> m.next, prev |-> m.prev, alloc_count |-> a,
           delayed_count |-> b, class |-> c, domain_id |-> e, mapped |-> m.mapped \ {q}]
  BY <1>1 DEF Unmap, Memory
<1>3. a \in [Pools -> 0 .. POOL_CAPACITY + 1]
  <2>1. 0 \in 0 .. POOL_CAPACITY + 1
    BY Capacity
  <2>2. m.alloc_count \in [Pools -> 0 .. POOL_CAPACITY + 1]
    BY DEF Memory
  <2> QED BY <1>1, <2>1, <2>2
<1>4. b \in [Pools -> -POOL_CAPACITY .. 0]
  <2>1. 0 \in -POOL_CAPACITY .. 0
    BY Capacity
  <2>2. m.delayed_count \in [Pools -> -POOL_CAPACITY .. 0]
    BY DEF Memory
  <2> QED BY <1>1, <2>1, <2>2
<1>5. c \in [Pools -> {"YOUNG", "OLD", "UNTRACKED"}] /\ e \in [Pools -> Domains \cup {NULL}]
  BY <1>1 DEF Memory
<1>6. n \in Memory
  BY <1>2, <1>3, <1>4, <1>5 DEF Memory
<1> QED BY <1>1, <1>2, <1>6 DEF Unmapped

\* It can come before clearing heads, or after.
LEMMA ClearedUnmap ==
  ASSUME NEW m \in Memory, NEW H, NEW q \in Pools
  PROVE  Unmap(Cleared(m, H), q) = Cleared(Unmap(m, q), H)
<1>1. PICK a, b, c, e : /\ a = Cleared(m, H) /\ b = Unmap(a, q)
                        /\ c = Unmap(m, q) /\ e = Cleared(c, H)
  OBVIOUS
<1>2. /\ a \in Memory /\ SamePools(m, a) /\ a.next = m.next /\ a.prev = m.prev
      /\ \A k \in Heads : a.head[k] = IF k \in H THEN NULL ELSE m.head[k]
  BY <1>1, ClearedIs
<1>3. Unmapped(m, q, c)
  BY <1>1, UnmapIs
<1>4. Unmapped(a, q, b)
  BY <1>1, <1>2, UnmapIs
<1>5. /\ e \in Memory /\ SamePools(c, e) /\ e.next = c.next /\ e.prev = c.prev
      /\ \A k \in Heads : e.head[k] = IF k \in H THEN NULL ELSE c.head[k]
  <2>1. c \in Memory /\ e = Cleared(c, H)
    BY <1>1, <1>3 DEF Unmapped
  <2> QED BY <2>1, ClearedIs
<1>6. SamePools(e, b)
  BY <1>2, <1>3, <1>4, <1>5 DEF Unmapped, SamePools, SameCounts
<1>7. \A k \in Heads : b.head[k] = e.head[k]
  BY <1>2, <1>3, <1>4, <1>5 DEF Unmapped
<1>8. b = e
  <2>1. /\ b \in Memory /\ e \in Memory
        /\ \A s \in Pools : b.next[s] = e.next[s] /\ b.prev[s] = e.prev[s]
    BY <1>2, <1>3, <1>4, <1>5 DEF Unmapped
  <2> QED BY <1>6, <1>7, <2>1, SameMemory
<1> QED BY <1>1, <1>8

-----------------------------------------------------------------------------
(* The loop that frees the pools of a ring.                                *)

FreedOne(m, l) == IF m.head[l] = NULL THEN m ELSE Unmap(ring_pop(m, l), m.head[l])

\* One iteration of free_pool_ring takes a pool out of the ring and unmaps it.
LEMMA FreedOneIs ==
  ASSUME NEW m, NEW R, Good(m, R, {}), NEW d \in Domains, NEW l, l = <<d, "free">>,
         NEW q, q = m.head[l], q # NULL, NEW n, n = FreedOne(m, l), NEW Q, Q = Removed(R, q)
  PROVE  Operation(m, R, d, n, Q) /\ q \in R[l]
<1>1. l \in Rings /\ l[1] = d /\ Laid(m, R) /\ m \in Memory
  BY RingNames DEF Good, Laid
<1>2. PICK o : o = ring_pop(m, l)
  OBVIOUS
<1>3. /\ Laid(o, Q) /\ Loose(o, Q, q) /\ SamePools(m, o) /\ q \in R[l] /\ q \in Pools
      /\ Outside(m, R, o, Q, d)
      /\ \A s \in Pools \ R[l] : o.next[s] = m.next[s] /\ o.prev[s] = m.prev[s]
  BY <1>1, <1>2, PopOutside
<1>4. n = Unmap(o, q)
  BY <1>2 DEF FreedOne
<1>5. Unmapped(o, q, n)
  BY <1>3, <1>4, UnmapIs DEF Laid
<1>6. /\ Links(n) = Links(o) /\ n \in Memory /\ n.mapped = m.mapped \ {q} /\ n.head = o.head
      /\ n.next = o.next /\ n.prev = o.prev
  BY <1>3, <1>5 DEF Unmapped, Links, SamePools, SameCounts
<1>7. Laid(n, Q)
  BY <1>3, <1>6, LaidSame
<1>8. \A s \in Pools \ {q} : /\ n.alloc_count[s] = m.alloc_count[s]
                             /\ n.delayed_count[s] = m.delayed_count[s]
                             /\ n.class[s] = m.class[s] /\ n.domain_id[s] = m.domain_id[s]
  <2>1. o \in Memory
    BY <1>3 DEF Laid
  <2>2. /\ DOMAIN o.alloc_count = Pools /\ DOMAIN o.delayed_count = Pools
        /\ DOMAIN o.class = Pools /\ DOMAIN o.domain_id = Pools
    BY <2>1 DEF Memory
  <2>3. \A s \in Pools \ {q} : /\ n.alloc_count[s] = o.alloc_count[s]
                               /\ n.delayed_count[s] = o.delayed_count[s]
                               /\ n.class[s] = o.class[s] /\ n.domain_id[s] = o.domain_id[s]
    BY <1>5, <2>2 DEF Unmapped
  <2> QED BY <1>3, <2>3 DEF SamePools, SameCounts
<1>9. n.alloc_count[q] = 0 /\ n.delayed_count[q] = 0 /\ q \notin n.mapped
  <2>1. o.alloc_count \in [Pools -> 0 .. POOL_CAPACITY + 1] /\ o.delayed_count \in [Pools -> -POOL_CAPACITY .. 0]
    BY <1>3 DEF Laid, Memory
  <2> QED BY <1>3, <1>5, <1>6, <2>1 DEF Unmapped
<1>10. Counted(n, Q, q)
  <2>1. Held(Q, q) = 0
    <3>1. \A e \in Domains : q \notin Q[<<e, "current">>]
      BY <1>3, RingNames DEF Loose
    <3>2. q \notin Cur(Q)
      BY <3>1, InCur
    <3> QED BY <3>2 DEF Held
  <2>2. 0 - 0 \in 0 .. POOL_CAPACITY /\ 0 + 0 - 0 >= 0 /\ 0 + 0 = 0
    BY Capacity
  <2> QED BY <1>9, <2>1, <2>2 DEF Counted
<1>11. \A s \in Pools \ n.mapped : n.next[s] = s /\ n.prev[s] = s
  <2> TAKE s \in Pools \ n.mapped
  <2>1. CASE s = q
    BY <1>3, <1>6, <2>1 DEF Loose, Cycle
  <2>2. CASE s # q
    <3>1. s \in Pools \ m.mapped
      BY <1>6, <2>2
    <3>2. s \notin R[l] /\ m.next[s] = s /\ m.prev[s] = s
      BY <1>1, <3>1 DEF Good
    <3> QED BY <1>3, <1>6, <3>1, <3>2
  <2> QED BY <2>1, <2>2
<1>12. Good(n, Q, {})
  <2>1. PICK X : X = {}
    OBVIOUS
  <2>2. X \subseteq {q} /\ n.mapped = (m.mapped \ {q}) \cup X
    BY <1>6, <2>1
  <2>3. Good(n, Q, X)
    BY <1>1, <1>3, <1>7, <1>8, <1>10, <1>11, <2>2, RemoveGood
  <2> QED BY <2>1, <2>3
<1>13. Outside(m, R, n, Q, d)
  <2>1. Changes(m, R, n, Q, d)
    BY <1>3, <1>6 DEF Outside, Changes
  <2>2. NoOrphan(m, R, n, Q)
    <3>1. \A k \in Rings : q \notin Q[k] /\ Q[k] \subseteq Pools /\ Q[k] \subseteq R[k]
      BY <1>1, <1>3 DEF Loose, Removed, Laid
    <3> QED BY <1>8, <3>1 DEF NoOrphan
  <2> QED BY <2>1, <2>2 DEF Outside
<1>14. Q[<<d, "current">>] \subseteq R[<<d, "current">>]
  BY RingNames DEF Removed
<1> QED BY <1>3, <1>12, <1>13, <1>14 DEF Operation, Outside

\* The loop has left c pools at most on the ring.
Emptied(a, R, d, H, l, o, Q, c) ==
  /\ o \in Memory /\ Operation(a, R, d, Cleared(o, H), Q)
  /\ \A k \in Rings : Q[k] \subseteq R[k]
  /\ Cardinality(Q[l]) <= c

Less(c) == IF c = 0 THEN 0 ELSE c - 1

\* Each iteration leaves one pool fewer to free.
LEMMA FreedOneStays ==
  ASSUME NEW a, NEW R, NEW d \in Domains, NEW H, NEW l, l = <<d, "free">>, l \notin H,
         NEW o, NEW Q, NEW c \in Nat, Emptied(a, R, d, H, l, o, Q, c)
  PROVE  \E Q1 : Emptied(a, R, d, H, l, FreedOne(o, l), Q1, Less(c))
<1>1. PICK b, q : b = Cleared(o, H) /\ q = o.head[l]
  OBVIOUS
<1>2. /\ l \in Rings /\ l \in Heads /\ o \in Memory /\ Operation(a, R, d, b, Q) /\ Good(b, Q, {})
      /\ \A k \in Rings : Q[k] \subseteq R[k]
  BY <1>1, RingNames, HeadsApart DEF Emptied, Operation
<1>3. b.head[l] = q
  <2>1. \A k \in Heads : b.head[k] = IF k \in H THEN NULL ELSE o.head[k]
    BY <1>1, <1>2, ClearedIs
  <2> QED BY <1>1, <1>2, <2>1
<1>4. IsFiniteSet(Q[l]) /\ Cardinality(Q[l]) \in Nat /\ Cardinality(Q[l]) <= c
  <2>1. Q[l] \subseteq Pools
    BY <1>2 DEF Good, Laid
  <2>2. IsFiniteSet(Q[l])
    BY <2>1, PoolAssumption, FS_Subset
  <2> QED BY <2>2, FS_CardinalityType DEF Emptied
<1>5. CASE q = NULL
  <2>1. Q[l] = {}
    BY <1>2, <1>3, <1>5, HeadsApart DEF Good, Laid, OnRing
  <2>2. Cardinality(Q[l]) = 0
    BY <2>1, FS_EmptySet
  <2>3. 0 <= Less(c)
    BY DEF Less
  <2>4. FreedOne(o, l) = o
    BY <1>1, <1>5 DEF FreedOne
  <2>5. Emptied(a, R, d, H, l, o, Q, Less(c))
    BY <1>1, <1>2, <2>2, <2>3 DEF Emptied
  <2> QED BY <2>4, <2>5
<1>6. CASE q # NULL
  <2>1. PICK n, Q1 : n = FreedOne(b, l) /\ Q1 = Removed(Q, q)
    OBVIOUS
  <2>2. Operation(b, Q, d, n, Q1) /\ q \in Q[l]
    BY <1>2, <1>3, <1>6, <2>1, FreedOneIs
  <2>3. q \in Pools
    BY <1>2, <2>2 DEF Good, Laid
  <2>4. PICK e : e = ring_pop(o, l)
    OBVIOUS
  <2>5. e \in Memory
    BY <1>1, <1>2, <2>3, <2>4, PopSet
  <2>6. ring_pop(b, l) = Cleared(e, H)
    BY <1>1, <1>2, <2>3, <2>4, ClearedPop
  <2>7. n = Unmap(ring_pop(b, l), q)
    BY <1>3, <1>6, <2>1 DEF FreedOne
  <2>8. n = Cleared(Unmap(e, q), H)
    BY <2>3, <2>5, <2>6, <2>7, ClearedUnmap
  <2>9. FreedOne(o, l) = Unmap(e, q)
    BY <1>1, <1>6, <2>4 DEF FreedOne
  <2>10. Unmap(e, q) \in Memory
    BY <2>3, <2>5, UnmapIs DEF Unmapped
  <2>11. Operation(a, R, d, n, Q1)
    BY <1>2, <2>2, OperationAfter
  <2>12. \A k \in Rings : Q1[k] \subseteq R[k]
    BY <1>2, <2>1 DEF Removed
  <2>13. Cardinality(Q1[l]) <= Less(c)
    <3>1. Q1[l] = Q[l] \ {q}
      BY <1>2, <2>1 DEF Removed
    <3>2. Cardinality(Q1[l]) = Cardinality(Q[l]) - 1 /\ Cardinality(Q1[l]) \in Nat
      <4>1. IsFiniteSet(Q1[l]) /\ Cardinality(Q1[l]) = Cardinality(Q[l]) - 1
        BY <1>4, <2>2, <3>1, FS_RemoveElement
      <4> QED BY <4>1, FS_CardinalityType
    <3> QED BY <1>4, <3>2 DEF Less
  <2>14. Emptied(a, R, d, H, l, FreedOne(o, l), Q1, Less(c))
    BY <2>8, <2>9, <2>10, <2>11, <2>12, <2>13 DEF Emptied
  <2> QED BY <2>14
<1> QED BY <1>5, <1>6

\* free_pool_ring empties the ring: one iteration per pool is enough.
LEMMA FreeRingIs ==
  ASSUME NEW m \in Memory, NEW H, NEW a, a = Cleared(m, H), NEW R, Good(a, R, {}),
         NEW d \in Domains, NEW l, l = <<d, "free">>, l \notin H,
         NEW n, n = free_pool_ring(m, l)
  PROVE  \E Q : Emptied(a, R, d, H, l, n, Q, 0)
<1> DEFINE N == Cardinality(DOMAIN m.next)
           E == {o \in Memory : \E Q : Emptied(a, R, d, H, l, o, Q, N)}
           nx == [o \in E |-> FreedOne(o, l)]
           F(c) == [k \in 0 .. Cardinality(DOMAIN m.next) |->
                      IF k = 0 THEN m
                      ELSE IF c[k - 1].head[l] = NULL THEN c[k - 1]
                      ELSE Unmap(ring_pop(c[k - 1], l), c[k - 1].head[l])]
<1>1. /\ N \in Nat /\ m \in E /\ Emptied(a, R, d, H, l, m, R, N)
  <2>1. DOMAIN m.next = Pools /\ l \in Rings
    BY RingNames DEF Memory
  <2>2. N \in Nat
    BY <2>1, PoolAssumption, FS_CardinalityType
  <2>3. R[l] \subseteq Pools
    BY <2>1 DEF Good, Laid
  <2>4. Cardinality(R[l]) <= N
    BY <2>1, <2>3, PoolAssumption, FS_Subset
  <2>5. Operation(a, R, d, a, R)
    BY OperationSame
  <2> HIDE DEF N
  <2>6. Emptied(a, R, d, H, l, m, R, N)
    BY <2>4, <2>5 DEF Emptied
  <2> QED BY <2>2, <2>6
<1>2. nx \in [E -> E]
  <2> SUFFICES ASSUME NEW o \in E PROVE FreedOne(o, l) \in E
    OBVIOUS
  <2>1. PICK Q : Emptied(a, R, d, H, l, o, Q, N)
    OBVIOUS
  <2>2. PICK c \in Nat : c = N
    BY <1>1
  <2>3. PICK Q1 : Emptied(a, R, d, H, l, FreedOne(o, l), Q1, Less(c))
    BY <2>1, <2>2, FreedOneStays
  <2>4. FreedOne(o, l) \in Memory /\ Operation(a, R, d, Cleared(FreedOne(o, l), H), Q1)
        /\ \A k \in Rings : Q1[k] \subseteq R[k]
    BY <2>3 DEF Emptied
  <2>5. Cardinality(Q1[l]) <= Less(c) /\ Cardinality(Q1[l]) \in Nat /\ Less(c) \in Nat /\ Less(c) <= c
    <3>1. l \in Rings
      BY RingNames
    <3>2. Q1[l] \subseteq Pools
      BY <2>4, <3>1 DEF Operation, Good, Laid
    <3>3. IsFiniteSet(Q1[l])
      BY <3>2, PoolAssumption, FS_Subset
    <3>4. Cardinality(Q1[l]) \in Nat
      BY <3>3, FS_CardinalityType
    <3>5. Less(c) \in Nat /\ Less(c) <= c
      BY DEF Less
    <3> QED BY <2>3, <3>4, <3>5 DEF Emptied
  <2>6. Cardinality(Q1[l]) <= c
    BY <2>5
  <2>7. Emptied(a, R, d, H, l, FreedOne(o, l), Q1, N)
    BY <2>2, <2>4, <2>6 DEF Emptied
  <2> QED BY <2>4, <2>7
<1>3. PICK g : Iterates(E, nx, m, N, g)
  <2>1. PICK EE, nn, NN : EE = E /\ nn = nx /\ NN = N
    OBVIOUS
  <2>2. HasIterates(EE, nn, m, NN)
    BY <1>1, <1>2, <2>1, IteratesExist
  <2> QED BY <2>1, <2>2 DEF HasIterates
<1>4. \A k \in 0 .. N : k # 0 => k - 1 \in 0 .. N
  BY <1>1
<1>5. \A o : FreedOne(o, l) = IF o.head[l] = NULL THEN o ELSE Unmap(ring_pop(o, l), o.head[l])
  BY DEF FreedOne
<1>6. g = F(g)
  <2>1. g \in [0 .. N -> E] /\ \A k \in 0 .. N : g[k] = IF k = 0 THEN m ELSE nx[g[k - 1]]
    BY <1>3 DEF Iterates
  <2>2. \A k \in 0 .. N : g[k] = F(g)[k]
    <3> TAKE k \in 0 .. N
    <3>1. CASE k = 0
      BY <2>1, <3>1
    <3>2. CASE k # 0
      <4>1. g[k - 1] \in E
        BY <1>4, <2>1, <3>2
      <4>2. g[k] = FreedOne(g[k - 1], l)
        <5> HIDE DEF E
        <5> QED BY <2>1, <3>2, <4>1
      <4>3. PICK o \in E : o = g[k - 1]
        BY <4>1
      <4>4. g[k] = IF o.head[l] = NULL THEN o ELSE Unmap(ring_pop(o, l), o.head[l])
        <5> HIDE DEF E
        <5> QED BY <1>5, <4>2, <4>3
      <4> QED BY <3>2, <4>3, <4>4
    <3> QED BY <3>1, <3>2
  <2>3. g = [k \in 0 .. N |-> g[k]]
    <3> HIDE DEF E
    <3> QED BY <2>1
  <2>4. F(g) = [k \in 0 .. N |-> F(g)[k]]
    OBVIOUS
  <2> HIDE DEF F, N, E
  <2> QED BY <2>2, <2>3, <2>4
<1>7. n = (CHOOSE c : c = F(c))[N]
  BY DEF free_pool_ring, Drain
<1>8. PICK w : w = CHOOSE c : c = F(c)
  OBVIOUS
<1>9. w = F(w)
  <2> HIDE DEF F
  <2> QED BY <1>6, <1>8, Zenon
<1> DEFINE Left(k) == \E Q : Emptied(a, R, d, H, l, w[k], Q, N - k)
<1>10. \A k \in 0 .. N : Left(k)
  <2> DEFINE T == {k \in 0 .. N : Left(k)}
  <2>1. T \in SUBSET (0 .. N) /\ 0 \in T
    <3>1. w[0] = m
      BY <1>1, <1>9
    <3>2. N - 0 = N /\ 0 \in 0 .. N
      BY <1>1
    <3>3. Emptied(a, R, d, H, l, w[0], R, N - 0)
      BY <1>1, <3>1, <3>2
    <3> HIDE DEF N
    <3> QED BY <3>2, <3>3
  <2>2. \A i \in 0 .. N - 1 : i \in T => i + 1 \in T
    <3> SUFFICES ASSUME NEW i \in 0 .. N - 1, Left(i) PROVE Left(i + 1)
      BY <1>1
    <3>1. /\ i + 1 \in 0 .. N /\ i + 1 # 0 /\ (i + 1) - 1 = i
          /\ N - i \in Nat /\ N - i # 0 /\ (N - i) - 1 = N - (i + 1)
      BY <1>1
    <3>2. \E o, Q : \E c \in Nat : o = w[i] /\ c = N - i /\ Emptied(a, R, d, H, l, o, Q, c)
      <4>1. PICK c \in Nat : c = N - i
        BY <3>1
      <4>2. PICK o : o = w[i]
        OBVIOUS
      <4>3. \E Q : Emptied(a, R, d, H, l, o, Q, c)
        BY <4>1, <4>2
      <4> QED BY <4>1, <4>2, <4>3
    <3>2a. PICK o, Q : \E c \in Nat : o = w[i] /\ c = N - i /\ Emptied(a, R, d, H, l, o, Q, c)
      BY <3>2
    <3>2b. PICK c \in Nat : o = w[i] /\ c = N - i /\ Emptied(a, R, d, H, l, o, Q, c)
      BY <3>2a
    <3>3. w[i + 1] = FreedOne(o, l)
      <4>1. w[i + 1] = IF o.head[l] = NULL THEN o ELSE Unmap(ring_pop(o, l), o.head[l])
        BY <1>9, <3>1, <3>2b
      <4> QED BY <1>5, <4>1
    <3>4. PICK Q1 : Emptied(a, R, d, H, l, FreedOne(o, l), Q1, Less(c))
      BY <3>2b, FreedOneStays
    <3>5. Less(c) = N - (i + 1)
      BY <3>1, <3>2b DEF Less
    <3>6. Emptied(a, R, d, H, l, w[i + 1], Q1, N - (i + 1))
      BY <3>3, <3>4, <3>5
    <3> HIDE DEF N
    <3> QED BY <3>6
  <2>3. T = 0 .. N
    <3> HIDE DEF T, N
    <3> QED BY <1>1, <2>1, <2>2, IntervalInduction
  <2> HIDE DEF Left, N
  <2> QED BY <2>3
<1>11. Left(N) /\ N - N = 0
  <2>1. N \in 0 .. N /\ N - N = 0
    BY <1>1
  <2> HIDE DEF Left, N
  <2> QED BY <1>10, <2>1
<1>12. w[N] = n
  BY <1>7, <1>8
<1> HIDE DEF N
<1> QED BY <1>11, <1>12

\* The ring is empty at the end.
LEMMA EmptiedIs ==
  ASSUME NEW a, NEW R, NEW d \in Domains, NEW H, NEW l, l = <<d, "free">>, l \notin H,
         NEW o, NEW Q, Emptied(a, R, d, H, l, o, Q, 0)
  PROVE  Q[l] = {} /\ Operation(a, R, d, Cleared(o, H), Q)
<1>1. l \in Rings
  BY RingNames
<1>2. Operation(a, R, d, Cleared(o, H), Q)
  BY DEF Emptied
<1>3. Q[l] \subseteq Pools
  BY <1>1, <1>2 DEF Operation, Good, Laid
<1>4. IsFiniteSet(Q[l])
  BY <1>3, PoolAssumption, FS_Subset
<1>5. Cardinality(Q[l]) \in Nat /\ Cardinality(Q[l]) <= 0
  BY <1>4, FS_CardinalityType DEF Emptied
<1>6. Cardinality(Q[l]) = 0
  BY <1>5
<1>7. Q[l] = {}
  BY <1>4, <1>6, FS_EmptySet
<1> QED BY <1>2, <1>7

-----------------------------------------------------------------------------
(* A whole ring goes to the orphans.                                       *)

Appended(R, o, t) ==
  [k \in Rings |-> IF k = t THEN R[t] \cup R[o] ELSE IF k = o THEN {} ELSE R[k]]

\* The ring at *o is put at the back of the ring t.
PutAtBack(m, o, t) == Cleared(ring_push_back(m, m.head[o], t), {o})

\* A ring appended to another, its head cleared.
LEMMA AppendLaid ==
  ASSUME NEW m, NEW R, Laid(m, R), NEW o \in Rings, NEW t \in Rings, o # t, m.head[o] # NULL,
         NEW n, n = PutAtBack(m, o, t)
  PROVE  /\ Laid(n, Appended(R, o, t)) /\ SamePools(m, n)
         /\ \A h \in Rings \ {o, t} : n.head[h] = m.head[h]
         /\ \A s \in Pools \ (R[o] \cup R[t]) : n.next[s] = m.next[s] /\ n.prev[s] = m.prev[s]
<1>1. PICK q, e : q = m.head[o] /\ e = ring_push_back(m, q, t)
  OBVIOUS
<1>2. PICK k : k = Links(m)
  OBVIOUS
<1>3. PICK j : j = Links(e)
  OBVIOUS
<1>4. PICK A \in SUBSET Pools : A = R[t]
  BY DEF Laid
<1>5. PICK B \in SUBSET Pools : B = R[o]
  BY DEF Laid
<1>6. /\ m \in Memory /\ t \in Heads /\ o \in Heads /\ q \in B /\ A \cap B = {}
      /\ Cycle(m.next, m.prev, B) /\ OnRing(m, t, A) /\ q \in Pools /\ q # NULL
  <2>1. OnRing(m, o, B) /\ OnRing(m, t, A) /\ m \in Memory /\ A \cap B = {}
    BY <1>4, <1>5 DEF Laid
  <2>2. q \in B /\ Cycle(m.next, m.prev, B)
    BY <1>1, <2>1 DEF OnRing
  <2> QED BY <2>1, <2>2, HeadsApart
<1>7. /\ k.head = m.head /\ k.next = m.next /\ k.prev = m.prev
      /\ j.head = e.head /\ j.next = e.next /\ j.prev = e.prev
  BY <1>2, <1>3, LinksFields
<1>8. /\ k \in RingMemory(Heads, Pools) /\ OnRing(k, t, A) /\ Cycle(k.next, k.prev, B)
  BY <1>2, <1>6, <1>7, LinksTyped DEF OnRing
<1>9. e \in Memory /\ j = ring_push_back(k, q, t) /\ SamePools(m, e)
  <2>1. PICK z \in Pools : z = m.prev[q]
    BY <1>6 DEF Memory
  <2>2. e = Splice(m, q, z, t)
    BY <1>1, <1>6, <2>1 DEF ring_push_back
  <2>3. /\ e \in Memory /\ SamePools(m, e) /\ Links(e) = Splice(Links(m), q, z, t)
    BY <1>6, <2>2, SpliceSet
  <2>4. k.prev[q] = z
    BY <1>7, <2>1
  <2> QED BY <1>2, <1>3, <1>6, <2>3, <2>4 DEF ring_push_back
<1>10. OnRing(j, t, A \cup B) /\ Apart(Heads, Pools, k, t, A \cup B, j)
  <2>1. NULL \notin Pools
    BY HeadsApart
  <2>2. /\ OnRing(ring_push_back(k, q, t), t, A \cup B)
        /\ Apart(Heads, Pools, k, t, A \cup B, ring_push_back(k, q, t))
    BY <1>6, <1>8, <2>1, PushRing
  <2> QED BY <1>9, <2>2
<1>11. OnRing(e, t, A \cup B) /\ Apart(Heads, Pools, m, t, A \cup B, e)
  BY <1>7, <1>10 DEF OnRing, Apart
<1>12. /\ n \in Memory /\ n.next = e.next /\ n.prev = e.prev /\ SamePools(e, n)
       /\ \A h \in Heads : n.head[h] = IF h = o THEN NULL ELSE e.head[h]
  <2>1. PICK H : H = {o}
    OBVIOUS
  <2>2. n = Cleared(e, H)
    BY <1>1, <2>1 DEF PutAtBack
  <2>3. /\ n \in Memory /\ n.next = e.next /\ n.prev = e.prev /\ SamePools(e, n)
        /\ \A h \in Heads : n.head[h] = IF h \in H THEN NULL ELSE e.head[h]
    BY <1>9, <2>2, ClearedIs
  <2> QED BY <2>1, <2>3
<1>13. PICK Q : Q = Appended(R, o, t)
  OBVIOUS
<1>14. \A h \in Rings : Q[h] = IF h = t THEN A \cup B ELSE IF h = o THEN {} ELSE R[h]
  BY <1>4, <1>5, <1>13 DEF Appended
<1>15. \A h \in Rings \ {o, t} : n.head[h] = m.head[h]
  BY <1>11, <1>12, HeadsApart DEF Apart
<1>16. \A s \in Pools \ (A \cup B) : n.next[s] = m.next[s] /\ n.prev[s] = m.prev[s]
  BY <1>11, <1>12 DEF Apart
<1>17. \A h \in Rings : OnRing(n, h, Q[h])
  <2> TAKE h \in Rings
  <2>1. OnRing(m, h, R[h]) /\ R[h] \in SUBSET Pools /\ h \in Heads
    BY HeadsApart DEF Laid
  <2>2. CASE h = t
    BY <1>11, <1>12, <1>14, <2>1, <2>2 DEF OnRing
  <2>3. CASE h = o
    BY <1>12, <1>14, <2>1, <2>3 DEF OnRing
  <2>4. CASE h # t /\ h # o
    <3>1. n.head[h] = m.head[h]
      BY <1>15, <2>4
    <3>2. R[h] \cap (A \cup B) = {}
      BY <1>4, <1>5, <2>4 DEF Laid
    <3>3. \A s \in R[h] : n.next[s] = m.next[s] /\ n.prev[s] = m.prev[s]
      BY <1>16, <2>1, <3>2
    <3>4. OnRing(n, h, R[h])
      BY <2>1, <3>1, <3>3, OnRingFrame
    <3> QED BY <1>14, <2>4, <3>4
  <2> QED BY <2>2, <2>3, <2>4
<1>18. Laid(n, Q)
  <2>1. Q \in [Rings -> SUBSET Pools]
    BY <1>4, <1>5, <1>13 DEF Laid, Appended
  <2>2. \A g, h \in Rings : g # h => Q[g] \cap Q[h] = {}
    BY <1>4, <1>5, <1>14 DEF Laid
  <2> QED BY <1>12, <1>17, <2>1, <2>2 DEF Laid
<1>19. SamePools(m, n)
  BY <1>9, <1>12 DEF SamePools, SameCounts
<1> QED BY <1>4, <1>5, <1>13, <1>15, <1>16, <1>18, <1>19

\* Clearing a head that is NULL changes nothing.
LEMMA ClearedNull ==
  ASSUME NEW m \in Memory, NEW o \in Heads, m.head[o] = NULL
  PROVE  Cleared(m, {o}) = m
<1>1. PICK H : H = {o}
  OBVIOUS
<1>2. PICK n : n = Cleared(m, H)
  OBVIOUS
<1>3. /\ n \in Memory /\ n.next = m.next /\ n.prev = m.prev /\ SamePools(m, n)
      /\ \A l \in Heads : n.head[l] = IF l \in H THEN NULL ELSE m.head[l]
  BY <1>2, ClearedIs
<1>4. \A l \in Heads : n.head[l] = m.head[l]
  BY <1>1, <1>3
<1>5. n = m
  BY <1>3, <1>4, SameMemory
<1> QED BY <1>1, <1>2, <1>5

\* A ring of a domain that terminates goes to the orphans.
LEMMA OrphanRingIs ==
  ASSUME NEW m, NEW R, Good(m, R, {}), NEW d \in Domains, NEW k \in {"old", "young"},
         NEW o, o = <<d, k>>, NEW t, t = <<Orphan, k>>, NEW n, n = PutAtBack(m, o, t),
         NEW Q, Q = Appended(R, o, t)
  PROVE  Good(n, Q, {}) /\ Changes(m, R, n, Q, d) /\ n.domain_id = m.domain_id
<1>1. /\ o \in Rings /\ t \in Rings /\ o # t /\ o \in Heads /\ t[1] = Orphan /\ o[1] = d
      /\ o[2] = k /\ t[2] = k /\ Laid(m, R) /\ m \in Memory
  BY RingNames, HeadsApart DEF Good, Laid
<1>2. CASE m.head[o] = NULL
  <2>1. R[o] = {}
    BY <1>1, <1>2, HeadsApart DEF Laid, OnRing
  <2>2. Q = R
    BY <1>1, <2>1 DEF Appended, Laid
  <2>3. n = Cleared(m, {o})
    BY <1>2 DEF PutAtBack, ring_push_back
  <2>4. Cleared(m, {o}) = m
    BY <1>1, <1>2, ClearedNull
  <2> QED BY <2>2, <2>3, <2>4 DEF Changes
<1>3. CASE m.head[o] # NULL
  <2>1. /\ Laid(n, Q) /\ SamePools(m, n)
        /\ \A h \in Rings \ {o, t} : n.head[h] = m.head[h]
        /\ \A s \in Pools \ (R[o] \cup R[t]) : n.next[s] = m.next[s] /\ n.prev[s] = m.prev[s]
    BY <1>1, <1>3, AppendLaid
  <2>2. \A h \in Rings : Q[h] = IF h = t THEN R[t] \cup R[o] ELSE IF h = o THEN {} ELSE R[h]
    BY DEF Appended
  <2>3. n.mapped = {} \cup UNION {Q[h] : h \in Rings}
    <3>1. UNION {Q[h] : h \in Rings} = UNION {R[h] : h \in Rings}
      BY <1>1, <2>2
    <3> QED BY <2>1, <3>1 DEF Good, SamePools, SameCounts
  <2>4. Sync(n, Q)
    <3> SUFFICES ASSUME NEW h \in Rings, NEW q \in Q[h]
                 PROVE  /\ n.class[q] = CASE h[2] = "old" -> "OLD" [] h[2] = "free" -> "UNTRACKED"
                                          [] OTHER -> "YOUNG"
                        /\ h[1] # Orphan => n.domain_id[q] = h[1]
      BY DEF Sync
    <3>1. PICK g \in Rings : q \in R[g] /\ g[2] = h[2] /\ (g = h \/ h[1] = Orphan)
      BY <1>1, <2>2
    <3>2. /\ m.class[q] = CASE g[2] = "old" -> "OLD" [] g[2] = "free" -> "UNTRACKED"
                            [] OTHER -> "YOUNG"
          /\ g[1] # Orphan => m.domain_id[q] = g[1]
      BY <3>1 DEF Good, Sync
    <3> QED BY <2>1, <3>1, <3>2 DEF SamePools
  <2>5. \A e \in Domains : Q[<<e, "current">>] = R[<<e, "current">>] /\ Q[<<e, "free">>] = R[<<e, "free">>]
    <3> TAKE e \in Domains
    <3>1. PICK c, f : c = <<e, "current">> /\ f = <<e, "free">>
      OBVIOUS
    <3>2. c \in Rings /\ f \in Rings /\ c[2] = "current" /\ f[2] = "free"
      BY <3>1, RingNames
    <3>3. Q[c] = R[c] /\ Q[f] = R[f]
      BY <1>1, <2>2, <3>2
    <3> QED BY <3>1, <3>3
  <2>6. OneCurrent(Q)
    BY <2>5 DEF Good, OneCurrent
  <2>7. Cur(Q) = Cur(R)
    BY <2>5 DEF Cur
  <2>8. \A q \in Pools : Counted(n, Q, q)
    <3> TAKE q \in Pools
    <3>1. Counted(m, R, q)
      BY DEF Good
    <3>2. Held(Q, q) = Held(R, q)
      BY <2>7 DEF Held
    <3>3. /\ n.alloc_count = m.alloc_count /\ n.delayed_count = m.delayed_count
          /\ n.mapped = m.mapped
      BY <2>1 DEF SamePools, SameCounts
    <3> QED BY <2>5, <3>1, <3>2, <3>3 DEF Counted
  <2>9. \A q \in Pools \ n.mapped : n.next[q] = q /\ n.prev[q] = q
    <3> TAKE q \in Pools \ n.mapped
    <3>1. q \in Pools \ m.mapped
      BY <2>1 DEF SamePools, SameCounts
    <3>2. q \notin R[o] \cup R[t] /\ m.next[q] = q /\ m.prev[q] = q
      BY <1>1, <3>1 DEF Good
    <3> QED BY <2>1, <3>1, <3>2
  <2>10. Changes(m, R, n, Q, d)
    <3> SUFFICES ASSUME NEW h \in Rings, h[1] \notin {d, Orphan}
                 PROVE  /\ Q[h] = R[h] /\ n.head[h] = m.head[h]
                        /\ \A s \in R[h] : n.next[s] = m.next[s]
      BY DEF Changes
    <3>1. h # o /\ h # t
      BY <1>1
    <3>2. R[h] \cap (R[o] \cup R[t]) = {} /\ R[h] \subseteq Pools
      BY <1>1, <3>1 DEF Laid
    <3> QED BY <2>1, <2>2, <3>1, <3>2
  <2>11. \A h \in Rings : {} \cap Q[h] = {}
    OBVIOUS
  <2>12. Good(n, Q, {})
    BY <2>1, <2>3, <2>4, <2>6, <2>8, <2>9, <2>11 DEF Good
  <2> QED BY <2>1, <2>10, <2>12 DEF SamePools
<1> QED BY <1>2, <1>3

\* Its head is cleared only later.
LEMMA PutAtBackLater ==
  ASSUME NEW m \in Memory, NEW H, NEW o \in Rings, NEW t \in Rings, o \notin H, t \notin H,
         NEW n, n = ring_push_back(m, m.head[o], t), NEW a, a = Cleared(m, H),
         NEW K, K = H \cup {o}
  PROVE  n \in Memory /\ Cleared(n, K) = PutAtBack(a, o, t)
<1>1. PICK q : q = m.head[o]
  OBVIOUS
<1>2. o \in Heads /\ t \in Heads /\ a \in Memory /\ \A l \in Heads : a.head[l] = IF l \in H THEN NULL ELSE m.head[l]
  BY <1>1, ClearedIs, HeadsApart
<1>3. a.head[o] = q /\ (q # NULL => q \in Pools)
  BY <1>1, <1>2 DEF Memory, Heads
<1>4. n \in Memory /\ ring_push_back(a, q, t) = Cleared(n, H)
  <2>1. CASE q = NULL
    BY <1>1, <2>1 DEF ring_push_back
  <2>2. CASE q # NULL
    BY <1>1, <1>2, <1>3, <2>2, ClearedPush
  <2> QED BY <2>1, <2>2
<1>5. PICK G : G = {o}
  OBVIOUS
<1>6. Cleared(Cleared(n, H), G) = Cleared(n, H \cup G)
  BY <1>4, ClearedTwice
<1> QED BY <1>1, <1>3, <1>4, <1>5, <1>6 DEF PutAtBack

\* orphan_pools, when no compiler takes the assertions for facts.
Orphaned(m, d) ==
  LET a == ring_push_back(m, m.head[<<d, "old">>], <<Orphan, "old">>)
      b == ring_push_back(a, a.head[<<d, "young">>], <<Orphan, "young">>)
  IN init_pool_rings(free_pool_ring(b, <<d, "free">>), d)

OrphanedIds(m, R, d, n, Q) ==
  \A l \in Rings : l[1] = Orphan =>
    \A q \in Q[l] : n.domain_id[q] = d \/ (q \in R[l] /\ n.domain_id[q] = m.domain_id[q])

NoRings(R, d) == \A k \in Kinds : R[<<d, k>>] = {}

\* After orphan_pools the domain has no ring, and its pools are those of the
\* orphan rings or unmapped.
LEMMA OrphanedIs ==
  ASSUME NEW m, NEW R, Good(m, R, {}), NEW d \in Domains, R[<<d, "current">>] = {},
         NEW n, n = Orphaned(m, d)
  PROVE  \E Q : /\ Good(n, Q, {}) /\ Changes(m, R, n, Q, d) /\ NoRings(Q, d)
                /\ OrphanedIds(m, R, d, n, Q)
<1>1. PICK o, y, c, f, u, v : /\ o = <<d, "old">> /\ y = <<d, "young">> /\ c = <<d, "current">>
                              /\ f = <<d, "free">> /\ u = <<Orphan, "old">> /\ v = <<Orphan, "young">>
  OBVIOUS
<1>2. /\ o \in Rings /\ y \in Rings /\ c \in Rings /\ f \in Rings /\ u \in Rings /\ v \in Rings
      /\ o # y /\ o # c /\ o # f /\ o # u /\ o # v /\ y # c /\ y # f /\ y # u /\ y # v
      /\ u # v /\ c # u /\ c # v /\ f # c /\ f # u /\ f # v
      /\ o[1] = d /\ y[1] = d /\ u[1] = Orphan /\ v[1] = Orphan /\ d # Orphan
  BY <1>1, RingNames
<1>3. Laid(m, R) /\ m \in Memory
  BY DEF Good, Laid
<1>4. PICK a, b, g : /\ a = ring_push_back(m, m.head[o], u) /\ b = ring_push_back(a, a.head[y], v)
                     /\ g = free_pool_ring(b, f)
  OBVIOUS
<1>5. PICK H0, H1, H2 : H0 = {} /\ H1 = H0 \cup {o} /\ H2 = H1 \cup {y}
  OBVIOUS
<1>6. PICK a1, R1 : a1 = PutAtBack(m, o, u) /\ R1 = Appended(R, o, u)
  OBVIOUS
<1>7. a \in Memory /\ Cleared(a, H1) = a1
  <2>1. Cleared(m, H0) = m
    BY <1>3, <1>5, ClearedNone
  <2>2. o \notin H0 /\ u \notin H0
    BY <1>5
  <2>3. a \in Memory /\ Cleared(a, H1) = PutAtBack(m, o, u)
    <3>1. /\ m \in Memory /\ o \in Rings /\ u \in Rings /\ a = ring_push_back(m, m.head[o], u)
          /\ m = Cleared(m, H0) /\ H1 = H0 \cup {o}
      BY <1>2, <1>3, <1>4, <1>5, <2>1
    <3> QED BY <2>2, <3>1, PutAtBackLater
  <2> QED BY <1>6, <2>3
<1>8. Good(a1, R1, {}) /\ Changes(m, R, a1, R1, d) /\ a1.domain_id = m.domain_id
  <2>1. PICK k \in {"old", "young"} : k = "old"
    OBVIOUS
  <2>2. o = <<d, k>> /\ u = <<Orphan, k>>
    BY <1>1, <2>1
  <2> QED BY <1>6, <2>2, OrphanRingIs
<1>9. PICK a2, R2 : a2 = PutAtBack(a1, y, v) /\ R2 = Appended(R1, y, v)
  OBVIOUS
<1>10. b \in Memory /\ Cleared(b, H2) = a2
  <2>1. y \notin H1 /\ v \notin H1
    BY <1>2, <1>5
  <2>2. b \in Memory /\ Cleared(b, H2) = PutAtBack(a1, y, v)
    <3>1. /\ a \in Memory /\ y \in Rings /\ v \in Rings /\ b = ring_push_back(a, a.head[y], v)
          /\ a1 = Cleared(a, H1) /\ H2 = H1 \cup {y}
      BY <1>2, <1>4, <1>5, <1>7
    <3> QED BY <2>1, <3>1, PutAtBackLater
  <2> QED BY <1>9, <2>2
<1>11. Good(a2, R2, {}) /\ Changes(a1, R1, a2, R2, d) /\ a2.domain_id = a1.domain_id
  <2>1. PICK k \in {"old", "young"} : k = "young"
    OBVIOUS
  <2>2. y = <<d, k>> /\ v = <<Orphan, k>>
    BY <1>1, <2>1
  <2> QED BY <1>8, <1>9, <2>2, OrphanRingIs
<1>12. f \notin H2
  BY <1>2, <1>5
<1>13. PICK Q : Emptied(a2, R2, d, H2, f, g, Q, 0)
  BY <1>1, <1>4, <1>10, <1>11, <1>12, FreeRingIs
<1>14. PICK e : e = Cleared(g, H2)
  OBVIOUS
<1>15. Q[f] = {} /\ Operation(a2, R2, d, e, Q)
  BY <1>1, <1>12, <1>13, <1>14, EmptiedIs
<1>16. g \in Memory /\ \A k \in Rings : Q[k] \subseteq R2[k]
  BY <1>13 DEF Emptied
<1>17. \A h \in Rings : R1[h] = IF h = u THEN R[u] \cup R[o] ELSE IF h = o THEN {} ELSE R[h]
  BY <1>6 DEF Appended
<1>18. \A h \in Rings : R2[h] = IF h = v THEN R1[v] \cup R1[y] ELSE IF h = y THEN {} ELSE R1[h]
  BY <1>9 DEF Appended
<1>19. Q[o] = {} /\ Q[y] = {} /\ Q[c] = {} /\ Q[f] = {}
  <2>1. R[c] = {}
    BY <1>1
  <2>2. R2[o] = {} /\ R2[y] = {} /\ R2[c] = {}
    BY <1>2, <1>17, <1>18, <2>1
  <2> QED BY <1>2, <1>15, <1>16, <2>2
<1>20. NoRings(Q, d)
  BY <1>1, <1>19 DEF NoRings, Kinds
<1>21. Good(e, Q, {}) /\ e \in Memory
  BY <1>15 DEF Operation, Good, Laid
<1>22. n = e
  <2>1. PICK H : H = {d} \X Kinds
    OBVIOUS
  <2>2. n = Cleared(g, H)
    BY <1>1, <1>4, <2>1 DEF Orphaned, init_pool_rings, Cleared
  <2>3. /\ n \in Memory /\ n.next = g.next /\ n.prev = g.prev /\ SamePools(g, n)
        /\ \A l \in Heads : n.head[l] = IF l \in H THEN NULL ELSE g.head[l]
    BY <1>16, <2>2, ClearedIs
  <2>4. /\ e.next = g.next /\ e.prev = g.prev /\ SamePools(g, e)
        /\ \A l \in Heads : e.head[l] = IF l \in H2 THEN NULL ELSE g.head[l]
    BY <1>14, <1>16, ClearedIs
  <2>5. \A l \in Heads : n.head[l] = e.head[l]
    <3> TAKE l \in Heads
    <3>1. CASE l \in H
      <4>1. l \in Rings /\ Q[l] = {}
        <5>1. PICK k \in Kinds : l = <<d, k>>
          BY <2>1, <3>1
        <5> QED BY <1>20, <5>1, RingNames DEF NoRings
      <4>2. e.head[l] = NULL
        BY <1>21, <4>1 DEF Good, Laid, OnRing
      <4> QED BY <2>3, <3>1, <4>2
    <3>2. CASE l \notin H
      <4>1. l \notin H2
        BY <1>1, <1>5, <2>1, <3>2 DEF Kinds
      <4> QED BY <2>3, <2>4, <3>2, <4>1
    <3> QED BY <3>1, <3>2
  <2>6. SamePools(e, n)
    BY <2>3, <2>4 DEF SamePools, SameCounts
  <2> QED BY <1>21, <2>3, <2>4, <2>5, <2>6, SameMemory
<1>23. Changes(m, R, e, Q, d)
  BY <1>8, <1>11, <1>15 DEF Operation, Changes
<1>24. OrphanedIds(m, R, d, e, Q)
  <2> SUFFICES ASSUME NEW l \in Rings, l[1] = Orphan, NEW q \in Q[l]
               PROVE  e.domain_id[q] = d \/ (q \in R[l] /\ e.domain_id[q] = m.domain_id[q])
    BY DEF OrphanedIds
  <2>1. q \in R2[l] /\ e.domain_id[q] = m.domain_id[q]
    BY <1>8, <1>11, <1>15 DEF Operation, NoOrphan
  <2>2. l # y /\ l # o
    BY <1>2
  <2>3. q \in R[l] \/ q \in R[o] \/ q \in R[y]
    BY <1>2, <1>17, <1>18, <2>1, <2>2
  <2>4. CASE q \in R[o] \/ q \in R[y]
    <3>1. m.domain_id[q] = d
      BY <1>2, <2>4 DEF Good, Sync
    <3> QED BY <2>1, <3>1
  <2> QED BY <2>1, <2>3, <2>4
<1> QED BY <1>20, <1>21, <1>22, <1>23, <1>24

-----------------------------------------------------------------------------
(* The invariant: the rings have a layout, the orphans are of domains that  *)
(* are not running, and each walk has a way before it.                      *)

WalkedRing(e, where) == <<e, IF where = "walk" THEN "young" ELSE where>>

\* The domain e is at `where`; its walk, at the pool x, has yet to meet L.
Walker(m, R, run, e, where, x, L) ==
  /\ e \notin run => where = "idle" /\ NoRings(R, e)
  /\ where \notin {"idle", "enter"} => R[<<e, "current">>] = {}
  /\ where = "walk" => x # NULL
  /\ x = NULL => L = {}
  /\ x # NULL => where \in {"walk", "young", "old"} /\ Walking(m, R, WalkedRing(e, where), x, L)

OrphanIds(m, R, run) ==
  \A l \in Rings : l[1] = Orphan => \A q \in R[l] : m.domain_id[q] \notin run

State(m, R, run, a, x, L) ==
  /\ Good(m, R, {}) /\ OrphanIds(m, R, run)
  /\ \A e \in Domains : Walker(m, R, run, e, a[e], x[e], L[e])

Inv == TypeOK /\ \E R : State(mem, R, running, at, p, left)

Elsewhere(d, f, g) == \A e \in Domains \ {d} : g[e] = f[e]

\* What an operation of d does is no concern of a domain in the middle of a
\* walk.
LEMMA WalkerKept ==
  ASSUME NEW m, NEW R, NEW run, NEW e \in Domains, NEW where, NEW x, NEW L,
         Walker(m, R, run, e, where, x, L), NEW n, NEW Q, NEW run1, e \in run <=> e \in run1,
         \A l \in Rings : l[1] = e => /\ Q[l] = R[l] /\ n.head[l] = m.head[l]
                                      /\ \A s \in R[l] : n.next[s] = m.next[s]
  PROVE  Walker(n, Q, run1, e, where, x, L)
<1>1. \A k \in Kinds : Q[<<e, k>>] = R[<<e, k>>]
  BY RingNames
<1>2. Q[<<e, "current">>] = R[<<e, "current">>] /\ (NoRings(R, e) => NoRings(Q, e))
  BY <1>1 DEF Kinds, NoRings
<1>3. ASSUME x # NULL
      PROVE  Walking(n, Q, WalkedRing(e, where), x, L)
  <2>1. where \in {"walk", "young", "old"} /\ Walking(m, R, WalkedRing(e, where), x, L)
    BY <1>3 DEF Walker
  <2>2. PICK l : l = WalkedRing(e, where)
    OBVIOUS
  <2>3. l \in Rings /\ l[1] = e
    BY <2>1, <2>2, RingNames DEF WalkedRing
  <2>4. Q[l] = R[l] /\ n.head[l] = m.head[l] /\ \A s \in R[l] : n.next[s] = m.next[s]
    BY <2>3
  <2>5. Walking(m, R, l, x, L)
    BY <2>1, <2>2
  <2>6. Walking(n, Q, l, x, L)
    <3>1. Covers(n.next, R[l], m.head[l], x, L)
      BY <2>4, <2>5 DEF Walking, Covers
    <3> QED BY <2>4, <2>5, <3>1 DEF Walking
  <2> QED BY <2>2, <2>6
<1> QED BY <1>2, <1>3 DEF Walker

\* A step of the domain d.
LEMMA DomainSteps ==
  ASSUME NEW m, NEW R, NEW run, NEW a, NEW x, NEW L, State(m, R, run, a, x, L), NEW d \in Domains,
         NEW n, NEW Q, Good(n, Q, {}), Changes(m, R, n, Q, d), NEW run1, OrphanIds(n, Q, run1),
         \A e \in Domains \ {d} : e \in run <=> e \in run1,
         NEW a1, NEW x1, NEW L1, Elsewhere(d, a, a1), Elsewhere(d, x, x1), Elsewhere(d, L, L1),
         Walker(n, Q, run1, d, a1[d], x1[d], L1[d])
  PROVE  State(n, Q, run1, a1, x1, L1)
<1>1. ASSUME NEW e \in Domains
      PROVE  Walker(n, Q, run1, e, a1[e], x1[e], L1[e])
  <2>1. CASE e = d
    BY <2>1
  <2>2. CASE e # d
    <3>1. PICK b, y, K : b = a[e] /\ y = x[e] /\ K = L[e]
      OBVIOUS
    <3>2. a1[e] = b /\ x1[e] = y /\ L1[e] = K
      BY <2>2, <3>1 DEF Elsewhere
    <3>3. Walker(m, R, run, e, b, y, K)
      BY <3>1 DEF State
    <3>4. \A l \in Rings : l[1] = e => /\ Q[l] = R[l] /\ n.head[l] = m.head[l]
                                       /\ \A s \in R[l] : n.next[s] = m.next[s]
      BY <2>2, RingNames DEF Changes
    <3>5. Walker(n, Q, run1, e, b, y, K)
      BY <2>2, <3>3, <3>4, WalkerKept
    <3> QED BY <3>2, <3>5
  <2> QED BY <2>1, <2>2
<1> QED BY <1>1 DEF State

\* A step of d that leaves the others where they are.
LEMMA OutsideSteps ==
  ASSUME NEW m, NEW R, NEW run, NEW a, NEW x, NEW L, State(m, R, run, a, x, L), NEW d \in Domains,
         NEW n, NEW Q, Good(n, Q, {}), Outside(m, R, n, Q, d),
         NEW a1, NEW x1, NEW L1, Elsewhere(d, a, a1), Elsewhere(d, x, x1), Elsewhere(d, L, L1),
         Walker(n, Q, run, d, a1[d], x1[d], L1[d])
  PROVE  State(n, Q, run, a1, x1, L1)
<1>1. Changes(m, R, n, Q, d) /\ NoOrphan(m, R, n, Q) /\ OrphanIds(m, R, run)
  BY DEF Outside, State
<1>2. OrphanIds(n, Q, run)
  BY <1>1 DEF NoOrphan, OrphanIds
<1> QED BY <1>1, <1>2, DomainSteps

\* The invariant holds at the start.
LEMMA InvInit == Init => Inv
<1> SUFFICES ASSUME Init PROVE Inv
  OBVIOUS
<1>1. PICK R : R = [l \in Rings |-> {}]
  OBVIOUS
<1>2. /\ mem.head = [l \in Heads |-> NULL]
      /\ mem.next = [q \in Pools |-> q] /\ mem.prev = [q \in Pools |-> q]
      /\ mem.alloc_count = [q \in Pools |-> 0] /\ mem.delayed_count = [q \in Pools |-> 0]
      /\ mem.class = [q \in Pools |-> "UNTRACKED"] /\ mem.domain_id = [q \in Pools |-> NULL]
      /\ mem.mapped = {}
  BY DEF Init, Heads
<1>3. mem \in Memory
  <2>1. 0 \in 0 .. POOL_CAPACITY + 1 /\ 0 \in -POOL_CAPACITY .. 0
    BY Capacity
  <2>2. mem = [head |-> mem.head, next |-> mem.next, prev |-> mem.prev,
               alloc_count |-> mem.alloc_count, delayed_count |-> mem.delayed_count,
               class |-> mem.class, domain_id |-> mem.domain_id, mapped |-> mem.mapped]
    BY DEF Init
  <2>3. /\ mem.alloc_count \in [Pools -> 0 .. POOL_CAPACITY + 1]
        /\ mem.delayed_count \in [Pools -> -POOL_CAPACITY .. 0]
    BY <1>2, <2>1
  <2>4. /\ mem.head \in [Heads -> Pools \cup {NULL}]
        /\ mem.next \in [Pools -> Pools] /\ mem.prev \in [Pools -> Pools]
        /\ mem.class \in [Pools -> {"YOUNG", "OLD", "UNTRACKED"}]
        /\ mem.domain_id \in [Pools -> Domains \cup {NULL}] /\ mem.mapped \in SUBSET Pools
    BY <1>2
  <2> QED BY <2>2, <2>3, <2>4 DEF Memory, Heads
<1>4. TypeOK
  BY <1>3, DomainAssumption DEF Init, TypeOK
<1>5. \A l \in Rings : R[l] = {} /\ mem.head[l] = NULL
  BY <1>1, <1>2, HeadsApart
<1>6. Laid(mem, R)
  BY <1>1, <1>3, <1>5 DEF Laid, OnRing
<1>7. \A d \in Domains, k \in Kinds : R[<<d, k>>] = {}
  BY <1>5, RingNames
<1>8. \A q \in Pools : Counted(mem, R, q)
  <2> TAKE q \in Pools
  <2>1. Held(R, q) = 0
    <3>1. q \notin Cur(R)
      BY <1>7, InCur DEF Kinds
    <3> QED BY <3>1 DEF Held
  <2>2. mem.alloc_count[q] = 0 /\ mem.delayed_count[q] = 0
    BY <1>2
  <2>3. 0 - 0 \in 0 .. POOL_CAPACITY /\ 0 + 0 - 0 >= 0 /\ 0 + 0 = 0
    BY Capacity
  <2> QED BY <2>1, <2>2, <2>3 DEF Counted
<1>9. Good(mem, R, {})
  <2>1. Sync(mem, R) /\ OneCurrent(R)
    BY <1>5, <1>7 DEF Sync, OneCurrent, Kinds
  <2>2. mem.mapped = {} \cup UNION {R[l] : l \in Rings} /\ \A l \in Rings : {} \cap R[l] = {}
    BY <1>2, <1>5
  <2>3. \A q \in Pools \ mem.mapped : mem.next[q] = q /\ mem.prev[q] = q
    BY <1>2
  <2> QED BY <1>6, <1>8, <2>1, <2>2, <2>3 DEF Good
<1>10. OrphanIds(mem, R, running)
  BY <1>5 DEF OrphanIds
<1>11. \A e \in Domains : Walker(mem, R, running, e, at[e], p[e], left[e])
  BY <1>7 DEF Init, Walker, NoRings, Kinds
<1>12. State(mem, R, running, at, p, left)
  BY <1>9, <1>10, <1>11 DEF State
<1> QED BY <1>4, <1>12 DEF Inv

-----------------------------------------------------------------------------
(* Each step keeps the invariant.                                          *)

\* A step of d that moves nothing else than its own place.
LEMMA StepIs ==
  ASSUME TypeOK, NEW R, State(mem, R, running, at, p, left), NEW d \in Domains,
         NEW Q, Good(mem', Q, {}), Outside(mem, R, mem', Q, d), UNCHANGED running,
         gc' \in {"none", "minor", "major"},
         at' \in [Domains -> {"idle", "walk", "find", "enter", "young", "old",
                              "adopt", "finish", "orphan", "done", "crashed"}],
         p' \in [Domains -> Pools \cup {NULL}], left' \in [Domains -> SUBSET Pools],
         Elsewhere(d, at, at'), Elsewhere(d, p, p'), Elsewhere(d, left, left'),
         Walker(mem', Q, running, d, at'[d], p'[d], left'[d])
  PROVE  Inv'
<1>1. State(mem', Q, running, at', p', left')
  BY OutsideSteps
<1>2. TypeOK'
  BY DEF TypeOK, Good, Laid
<1> QED BY <1>1, <1>2 DEF Inv

\* The domain and its walk stay where they are.
LEMMA StillIs ==
  ASSUME TypeOK, NEW R, State(mem, R, running, at, p, left), NEW d \in Domains,
         at[d] = "idle" /\ d \in running,
         NEW Q, Good(mem', Q, {}), Outside(mem, R, mem', Q, d), UNCHANGED <<running, gc, at, p, left>>
  PROVE  Inv'
<1>1. Walker(mem, R, running, d, at[d], p[d], left[d])
  BY DEF State
<1>2. p[d] = NULL /\ left[d] = {}
  BY <1>1 DEF Walker
<1>3. Walker(mem', Q, running, d, at'[d], p'[d], left'[d])
  BY <1>2 DEF Walker
<1>4. Elsewhere(d, at, at') /\ Elsewhere(d, p, p') /\ Elsewhere(d, left, left')
  BY DEF Elsewhere
<1> QED BY <1>3, <1>4, StepIs DEF TypeOK

\* boxroot_create keeps the invariant.
LEMMA CreateKeeps ==
  ASSUME Inv, NEW d \in Domains, boxroot_create(d)
  PROVE  Inv'
<1>1. PICK R : State(mem, R, running, at, p, left)
  BY DEF Inv
<1>2. PICK q : q = Current(d)
  OBVIOUS
<1>3. HasRoomFor(mem, d, q) /\ mem' = Allocated(mem, q)
  BY <1>2 DEF boxroot_create, HasRoomFor, Allocated, AllocSet, Current
<1>4. Good(mem', R, {}) /\ Outside(mem, R, mem', R, d)
  BY <1>1, <1>3, AllocateIs DEF State
<1>5. at[d] = "idle" /\ d \in running /\ UNCHANGED <<running, gc, at, p, left>>
  BY DEF boxroot_create, CanCall
<1> QED BY <1>1, <1>4, <1>5, StillIs DEF Inv

\* boxroot_delete keeps the invariant, a walk of another domain or not.
LEMMA DeleteKeeps ==
  ASSUME Inv, NEW d \in Domains, NEW q \in Pools, boxroot_delete(d, q)
  PROVE  Inv'
<1>1. PICK R : State(mem, R, running, at, p, left)
  BY DEF Inv
<1>2. /\ d \in running /\ at[d] = "idle" /\ Live(mem, q) > 0 /\ mem.domain_id[q] = d
      /\ UNCHANGED <<running, gc, at, p, left>>
  BY DEF boxroot_delete, CanCall
<1>3. mem' = Deleted(mem, d, q)
  BY DEF boxroot_delete, Deleted, AllocSet
<1>4. Good(mem, R, {}) /\ OrphanIds(mem, R, running)
  BY <1>1 DEF State
<1>5. PICK l \in Rings : q \in R[l]
  BY <1>2, <1>4, LiveIs
<1>6. l[1] = d
  BY <1>2, <1>4, <1>5 DEF OrphanIds, Good, Sync
<1>7. \E k \in Kinds : l = <<d, k>>
  BY <1>6, DomainAssumption DEF Rings
<1>8. CanDelete(mem, R, d, q)
  BY <1>2, <1>5, <1>7 DEF CanDelete
<1>9. PICK Q : Operation(mem, R, d, mem', Q)
  BY <1>3, <1>4, <1>8, DeleteIs
<1>10. Good(mem', Q, {}) /\ Outside(mem, R, mem', Q, d)
  BY <1>9 DEF Operation, Outside
<1> QED BY <1>1, <1>2, <1>10, StillIs DEF Inv

\* A deletion without the domain lock keeps it, in the middle of any walk.
LEMMA DeleteRemoteKeeps ==
  ASSUME Inv, NEW q \in Pools, DeleteRemote(q)
  PROVE  Inv'
<1>1. PICK R : State(mem, R, running, at, p, left)
  BY DEF Inv
<1>2. Live(mem, q) > 0 /\ mem' = DeletedLater(mem, q) /\ UNCHANGED <<running, gc, at, p, left>>
  BY DEF DeleteRemote, DeletedLater
<1>3. /\ Good(mem', R, {}) /\ mem'.head = mem.head /\ mem'.next = mem.next
      /\ mem'.domain_id = mem.domain_id
  BY <1>1, <1>2, DeleteRemoteIs DEF State
<1>4. OrphanIds(mem', R, running)
  BY <1>1, <1>3 DEF State, OrphanIds
<1>5. ASSUME NEW e \in Domains
      PROVE  Walker(mem', R, running, e, at[e], p[e], left[e])
  <2>1. PICK b, y, K : b = at[e] /\ y = p[e] /\ K = left[e]
    OBVIOUS
  <2>2. Walker(mem, R, running, e, b, y, K)
    BY <1>1, <2>1 DEF State
  <2>3. Walker(mem', R, running, e, b, y, K)
    BY <1>3, <2>2, WalkerKept
  <2> QED BY <2>1, <2>3
<1>6. State(mem', R, running', at', p', left')
  BY <1>2, <1>3, <1>4, <1>5 DEF State
<1>7. TypeOK'
  BY <1>2, <1>3 DEF Inv, TypeOK, Good, Laid
<1> QED BY <1>6, <1>7 DEF Inv

\* Where the walk of d starts.
LEMMA StartIs ==
  ASSUME NEW m, NEW R, Laid(m, R), NEW l \in Rings
  PROVE  /\ Ring(m, l) = R[l] /\ m.head[l] \in Pools \cup {NULL} /\ R[l] \in SUBSET Pools
         /\ m.head[l] # NULL => Walking(m, R, l, m.head[l], R[l])
         /\ m.head[l] = NULL => R[l] = {}
<1>1. /\ m \in Memory /\ OnRing(m, l, R[l]) /\ R[l] \in SUBSET Pools /\ l \in Heads
      /\ NULL \notin Pools
  BY HeadsApart DEF Laid
<1>2. Ring(m, l) = R[l]
  <2>1. m.next \in [Pools -> Pools]
    BY <1>1 DEF Memory
  <2> QED BY <1>1, <2>1, PoolAssumption, RingIsCycle
<1>3. m.head[l] \in Pools \cup {NULL}
  BY <1>1 DEF Memory, Heads
<1>4. m.head[l] = NULL => R[l] = {}
  BY <1>1 DEF OnRing
<1> QED BY <1>1, <1>2, <1>3, <1>4, WalkStarts

\* The start of bxr_create_slow keeps it.
LEMMA CreateSlowKeeps ==
  ASSUME Inv, NEW d \in Domains, bxr_create_slow(d)
  PROVE  Inv'
<1>1. PICK R : State(mem, R, running, at, p, left)
  BY DEF Inv
<1>2. /\ d \in running /\ at[d] = "idle" /\ UNCHANGED <<running, gc>> /\ TypeOK
      /\ Good(mem, R, {}) /\ Walker(mem, R, running, d, at[d], p[d], left[d])
  BY <1>1 DEF bxr_create_slow, CanCall, Inv, State
<1>3. p[d] = NULL /\ left[d] = {}
  BY <1>2 DEF Walker
<1>4. PICK c \in Rings : c = <<d, "current">>
  BY RingNames
<1>5. CASE Current(d) = NULL
  <2>1. at' = [at EXCEPT ![d] = "find"] /\ UNCHANGED <<mem, p, left>>
    BY <1>5 DEF bxr_create_slow, Goto
  <2>2. R[c] = {}
    BY <1>2, <1>4, <1>5, HeadsApart DEF Current, Good, Laid, OnRing
  <2>3. Outside(mem, R, mem', R, d) /\ Good(mem', R, {})
    BY <1>2, <2>1, OutsideSame
  <2>4. at'[d] = "find"
    BY <1>2, <2>1 DEF TypeOK
  <2>5. Walker(mem', R, running, d, at'[d], p'[d], left'[d])
    BY <1>2, <1>3, <1>4, <2>1, <2>2, <2>4 DEF Walker
  <2>6. Elsewhere(d, at, at') /\ Elsewhere(d, p, p') /\ Elsewhere(d, left, left')
    BY <1>2, <2>1 DEF Elsewhere, TypeOK
  <2> QED BY <1>1, <1>2, <2>1, <2>3, <2>5, <2>6, StepIs DEF TypeOK
<1>6. CASE Current(d) # NULL
  <2>1. PICK y \in Rings : y = <<d, "young">>
    BY RingNames
  <2>2. /\ mem' = move_current_to_young(mem, d)
        /\ p' = [p EXCEPT ![d] = mem'.head[y]] /\ left' = [left EXCEPT ![d] = Ring(mem', y)]
        /\ at' = [at EXCEPT ![d] = "walk"]
    BY <1>6, <2>1 DEF bxr_create_slow, Goto, StartWalk
  <2>3. PICK Q : /\ Operation(mem, R, d, mem', Q) /\ Q[<<d, "current">>] = {}
                 /\ mem.head[<<d, "current">>] # NULL => mem'.head[<<d, "young">>] # NULL
    BY <1>2, <2>2, MoveCurrentIs
  <2>4. Good(mem', Q, {}) /\ Outside(mem, R, mem', Q, d) /\ mem'.head[y] # NULL
    BY <1>6, <2>1, <2>3 DEF Operation, Outside, Current
  <2>5. /\ Ring(mem', y) = Q[y] /\ mem'.head[y] \in Pools /\ Q[y] \in SUBSET Pools
        /\ Walking(mem', Q, y, mem'.head[y], Q[y])
    <3>1. PICK n : n = mem'
      OBVIOUS
    <3>2. Laid(n, Q)
      BY <2>4, <3>1 DEF Good
    <3>3. /\ Ring(n, y) = Q[y] /\ n.head[y] \in Pools \cup {NULL} /\ Q[y] \in SUBSET Pools
          /\ n.head[y] # NULL => Walking(n, Q, y, n.head[y], Q[y])
      BY <3>2, StartIs
    <3> QED BY <2>4, <3>1, <3>3
  <2>6. at'[d] = "walk" /\ p'[d] = mem'.head[y] /\ left'[d] = Q[y]
    BY <1>2, <2>2, <2>5 DEF TypeOK
  <2>7. WalkedRing(d, "walk") = y
    BY <2>1 DEF WalkedRing
  <2>8. Walker(mem', Q, running, d, at'[d], p'[d], left'[d])
    BY <1>2, <2>3, <2>4, <2>5, <2>6, <2>7 DEF Walker
  <2>9. Elsewhere(d, at, at') /\ Elsewhere(d, p, p') /\ Elsewhere(d, left, left')
    BY <1>2, <2>2 DEF Elsewhere, TypeOK
  <2>10. /\ p' \in [Domains -> Pools \cup {NULL}] /\ left' \in [Domains -> SUBSET Pools]
         /\ at' \in [Domains -> {"idle", "walk", "find", "enter", "young", "old",
                              "adopt", "finish", "orphan", "done", "crashed"}]
    BY <1>2, <2>2, <2>5 DEF TypeOK
  <2> QED BY <1>1, <1>2, <2>4, <2>8, <2>9, <2>10, StepIs DEF TypeOK
<1> QED BY <1>5, <1>6

\* The places of d and of its walk, after a step.
Moves(d, where, x, L) ==
  /\ at' \in [Domains -> {"idle", "walk", "find", "enter", "young", "old",
                          "adopt", "finish", "orphan", "done", "crashed"}]
  /\ p' \in [Domains -> Pools \cup {NULL}] /\ left' \in [Domains -> SUBSET Pools]
  /\ at'[d] = where /\ p'[d] = x /\ left'[d] = L
  /\ Elsewhere(d, at, at') /\ Elsewhere(d, p, p') /\ Elsewhere(d, left, left')

\* A step of d that leads it to a place where it may be keeps the invariant.
LEMMA MovesTo ==
  ASSUME TypeOK, NEW R, State(mem, R, running, at, p, left), NEW d \in Domains,
         NEW Q, Good(mem', Q, {}), Outside(mem, R, mem', Q, d), UNCHANGED <<running, gc>>,
         NEW where, NEW x, NEW L, Moves(d, where, x, L),
         Walker(mem', Q, running, d, where, x, L)
  PROVE  Inv'
<1>1. /\ at' \in [Domains -> {"idle", "walk", "find", "enter", "young", "old",
                              "adopt", "finish", "orphan", "done", "crashed"}]
      /\ p' \in [Domains -> Pools \cup {NULL}] /\ left' \in [Domains -> SUBSET Pools]
      /\ at'[d] = where /\ p'[d] = x /\ left'[d] = L
      /\ Elsewhere(d, at, at') /\ Elsewhere(d, p, p') /\ Elsewhere(d, left, left')
  BY DEF Moves
<1>2. Walker(mem', Q, running, d, at'[d], p'[d], left'[d])
  BY <1>1
<1> QED BY <1>1, <1>2, StepIs DEF TypeOK

\* What Goto, Move, StopWalk and StartWalk do.
LEMMA MovesWith ==
  ASSUME TypeOK, NEW d \in Domains,
         NEW where \in {"idle", "walk", "find", "enter", "young", "old",
                        "adopt", "finish", "orphan", "done", "crashed"},
         NEW x \in Pools \cup {NULL}, NEW L \in SUBSET Pools,
         at' = [at EXCEPT ![d] = where] \/ (at' = at /\ where = at[d]),
         p' = [p EXCEPT ![d] = x] \/ (p' = p /\ x = p[d]),
         left' = [left EXCEPT ![d] = L] \/ (left' = left /\ L = left[d])
  PROVE  Moves(d, where, x, L)
<1>1. at' \in [Domains -> {"idle", "walk", "find", "enter", "young", "old",
                           "adopt", "finish", "orphan", "done", "crashed"}]
      /\ at'[d] = where /\ Elsewhere(d, at, at')
  BY DEF TypeOK, Elsewhere
<1>2. p' \in [Domains -> Pools \cup {NULL}] /\ p'[d] = x /\ Elsewhere(d, p, p')
  BY DEF TypeOK, Elsewhere
<1>3. left' \in [Domains -> SUBSET Pools] /\ left'[d] = L /\ Elsewhere(d, left, left')
  BY DEF TypeOK, Elsewhere
<1> QED BY <1>1, <1>2, <1>3 DEF Moves

\* A step of the walk of boxroot_create keeps it.
LEMMA WalkKeeps ==
  ASSUME Inv, NEW d \in Domains, try_gc_and_reclassify_one_pool_no_stw(d)
  PROVE  Inv'
<1>1. PICK R : State(mem, R, running, at, p, left)
  BY DEF Inv
<1>2. PICK l \in Rings : l = <<d, "young">>
  BY RingNames
<1>3. PICK q, L : q = p[d] /\ L = left[d]
  OBVIOUS
<1>4. /\ at[d] = "walk" /\ UNCHANGED <<running, gc>> /\ TypeOK /\ Good(mem, R, {})
      /\ Laid(mem, R) /\ Walker(mem, R, running, d, at[d], q, L)
  BY <1>1, <1>3 DEF try_gc_and_reclassify_one_pool_no_stw, Inv, State, Good
<1>5. /\ d \in running /\ R[<<d, "current">>] = {} /\ q # NULL
      /\ Walking(mem, R, WalkedRing(d, "walk"), q, L)
  BY <1>4 DEF Walker
<1>6. Walking(mem, R, l, q, L) /\ q \in R[l] /\ q \in Pools /\ L \in SUBSET Pools
  <2>1. WalkedRing(d, "walk") = l
    BY <1>2 DEF WalkedRing
  <2> QED BY <1>4, <1>5, <2>1 DEF Walking, Laid
<1>7. CASE anticipated_alloc_count(mem, q) = 0
  <2>1. /\ mem' = GcOne(mem, l, q, d) /\ p' = [p EXCEPT ![d] = NULL]
        /\ left' = [left EXCEPT ![d] = {}] /\ at' = [at EXCEPT ![d] = "find"]
    BY <1>2, <1>3, <1>7 DEF try_gc_and_reclassify_one_pool_no_stw, StopWalk, Goto
  <2>2. \E Q : Operation(mem, R, d, mem', Q)
    <3>1. PICK k \in {"old", "young"} : k = "young"
      OBVIOUS
    <3>2. l = <<d, k>>
      BY <1>2, <3>1
    <3> QED BY <1>4, <1>6, <2>1, <3>2, GcOneIs
  <2>3. PICK Q : Operation(mem, R, d, mem', Q)
    BY <2>2
  <2>4. Good(mem', Q, {}) /\ Outside(mem, R, mem', Q, d) /\ Q[<<d, "current">>] = {}
    BY <1>5, <2>3 DEF Operation, Outside
  <2>5. Moves(d, "find", NULL, {})
    BY <1>4, <2>1, MovesWith
  <2>6. Walker(mem', Q, running, d, "find", NULL, {})
    BY <1>5, <2>4 DEF Walker
  <2> QED BY <1>1, <1>4, <2>4, <2>5, <2>6, MovesTo
<1>8. CASE anticipated_alloc_count(mem, q) # 0
  <2>1. mem' = mem
    BY <1>3, <1>8 DEF try_gc_and_reclassify_one_pool_no_stw
  <2>2. Good(mem', R, {}) /\ Outside(mem, R, mem', R, d)
    BY <1>4, <2>1, OutsideSame
  <2>3. /\ mem.next[q] = mem.head[l] => L \subseteq {q}
        /\ mem.next[q] # mem.head[l] => Walking(mem, R, l, mem.next[q], L \ {q})
    <3>1. PICK nx, h, A : nx = mem.next /\ h = mem.head[l] /\ A = R[l]
      OBVIOUS
    <3>2. q \in A /\ L \subseteq A /\ Covers(nx, A, h, q, L)
      BY <1>6, <3>1 DEF Walking
    <3>3. /\ nx[q] = h => L \subseteq {q}
          /\ nx[q] # h => Covers(nx, A, h, nx[q], L \ {q})
      BY <3>2, CoversNext
    <3>4. nx[q] \in A
      BY <1>6, <1>4, <3>1, HeadsApart DEF Laid, OnRing, Cycle
    <3> QED BY <3>1, <3>2, <3>3, <3>4 DEF Walking
  <2>4. CASE mem.next[q] = mem.head[l]
    <3>1. /\ p' = [p EXCEPT ![d] = NULL] /\ left' = [left EXCEPT ![d] = @ \ {q}]
          /\ at' = [at EXCEPT ![d] = "find"]
      BY <1>2, <1>3, <1>8, <2>4 DEF try_gc_and_reclassify_one_pool_no_stw, Move, Goto
    <3>2. L \ {q} = {}
      BY <2>3, <2>4
    <3>3. left' = [left EXCEPT ![d] = {}]
      BY <1>3, <3>1, <3>2
    <3>4. Moves(d, "find", NULL, {})
      BY <1>4, <3>1, <3>3, MovesWith
    <3>5. Walker(mem', R, running, d, "find", NULL, {})
      BY <1>5 DEF Walker
    <3> QED BY <1>1, <1>4, <2>2, <3>4, <3>5, MovesTo
  <2>5. CASE mem.next[q] # mem.head[l]
    <3>1. PICK x, K : x = mem.next[q] /\ K = L \ {q}
      OBVIOUS
    <3>2. p' = [p EXCEPT ![d] = x] /\ left' = [left EXCEPT ![d] = K] /\ at' = at
      BY <1>2, <1>3, <1>8, <2>5, <3>1 DEF try_gc_and_reclassify_one_pool_no_stw, Move
    <3>3. Walking(mem', R, l, x, K)
      BY <2>1, <2>3, <2>5, <3>1
    <3>4. x \in Pools /\ K \in SUBSET Pools /\ x # NULL
      BY <1>4, <1>6, <3>1, <3>3, HeadsApart DEF Walking, Laid
    <3>5. Moves(d, "walk", x, K)
      BY <1>4, <3>2, <3>4, MovesWith
    <3>6. WalkedRing(d, "walk") = l
      BY <1>2 DEF WalkedRing
    <3>7. Walker(mem', R, running, d, "walk", x, K)
      BY <1>5, <3>3, <3>4, <3>6 DEF Walker
    <3> QED BY <1>1, <1>4, <2>2, <3>5, <3>7, MovesTo
  <2> QED BY <2>4, <2>5
<1> QED BY <1>7, <1>8

\* find_and_set_available_pool keeps it.
LEMMA FindKeeps ==
  ASSUME Inv, NEW d \in Domains, find_and_set_available_pool(d)
  PROVE  Inv'
<1>1. PICK R : State(mem, R, running, at, p, left)
  BY DEF Inv
<1>2. /\ at[d] = "find" /\ UNCHANGED <<running, gc, p, left>> /\ at' = [at EXCEPT ![d] = "idle"]
      /\ TypeOK /\ Good(mem, R, {}) /\ Laid(mem, R)
      /\ Walker(mem, R, running, d, at[d], p[d], left[d])
  BY <1>1 DEF find_and_set_available_pool, Goto, Inv, State, Good
<1>3. d \in running /\ R[<<d, "current">>] = {} /\ p[d] = NULL /\ left[d] = {}
  BY <1>2 DEF Walker
<1>4. ASSUME NEW k \in {"old", "young", "free"}, HasRoom(<<d, k>>), Pop(d, <<d, k>>)
      PROVE  \E Q : Good(mem', Q, {}) /\ Outside(mem, R, mem', Q, d)
  <2>1. PICK l, q : l = <<d, k>> /\ q = mem.head[l]
    OBVIOUS
  <2>2. CanPop(mem, R, d, l, q)
    BY <1>3, <1>4, <2>1 DEF CanPop, HasRoom
  <2>3. mem' = PoppedCurrent(mem, d, l, q)
    BY <1>4, <2>1 DEF Pop, PoppedCurrent, AllocSet
  <2> QED BY <1>2, <2>2, <2>3, PopCurrentIs
<1>5. ASSUME Fresh(d)
      PROVE  \E Q : Good(mem', Q, {}) /\ Outside(mem, R, mem', Q, d)
  <2>1. PICK q \in Pools \ mem.mapped :
          mem' = [set_current_pool(mem, d, q) EXCEPT !.mapped = @ \cup {q}, !.alloc_count[q] = 2]
    BY <1>5 DEF Fresh
  <2>2. mem' = FreshPool(set_current_pool(mem, d, q), q)
    BY <2>1 DEF FreshPool
  <2> QED BY <1>2, <1>3, <2>2, FreshCurrentIs
<1>6. \/ \E k \in {"old", "young", "free"} : HasRoom(<<d, k>>) /\ Pop(d, <<d, k>>)
      \/ Fresh(d)
  BY DEF find_and_set_available_pool, OldHasRoom
<1>7. PICK Q : Good(mem', Q, {}) /\ Outside(mem, R, mem', Q, d)
  BY <1>4, <1>5, <1>6
<1>8. Moves(d, "idle", NULL, {})
  BY <1>2, <1>3, MovesWith
<1>9. Walker(mem', Q, running, d, "idle", NULL, {})
  BY <1>3 DEF Walker
<1> QED BY <1>1, <1>2, <1>7, <1>8, <1>9, MovesTo

\* A creation that fails for lack of memory keeps it.
LEMMA NoMemoryKeeps ==
  ASSUME Inv, ~ AssertionsAssumed, NEW d \in Domains, NoMemory(d)
  PROVE  Inv'
<1>1. PICK R : State(mem, R, running, at, p, left)
  BY DEF Inv
<1>2. /\ at[d] = "find" /\ UNCHANGED <<mem, running, gc, p, left>> /\ at' = [at EXCEPT ![d] = "idle"]
      /\ TypeOK /\ Good(mem, R, {}) /\ Walker(mem, R, running, d, at[d], p[d], left[d])
  BY <1>1 DEF NoMemory, Goto, Inv, State
<1>3. d \in running /\ p[d] = NULL /\ left[d] = {}
  BY <1>2 DEF Walker
<1>4. Good(mem', R, {}) /\ Outside(mem, R, mem', R, d)
  BY <1>2, OutsideSame
<1>5. Moves(d, "idle", NULL, {})
  BY <1>2, <1>3, MovesWith
<1>6. Walker(mem', R, running, d, "idle", NULL, {})
  BY <1>3 DEF Walker
<1> QED BY <1>1, <1>2, <1>4, <1>5, <1>6, MovesTo

\* Places where a domain has no walk, and nothing is current.
LEMMA NoWalk ==
  ASSUME NEW m, NEW R, NEW d, NEW where, where # "walk", d \in running,
         where \notin {"idle", "enter"} => R[<<d, "current">>] = {}
  PROVE  Walker(m, R, running, d, where, NULL, {})
BY DEF Walker

\* The start of a scan, or of a termination, keeps it.
LEMMA FlushKeeps ==
  ASSUME Inv, NEW d \in Domains, d \in running, at[d] \in {"idle", "enter"}, Flush(d)
  PROVE  Inv'
<1>1. PICK R : State(mem, R, running, at, p, left)
  BY DEF Inv
<1>2. /\ UNCHANGED <<running, gc, p, left>> /\ at' = [at EXCEPT ![d] = "young"]
      /\ mem' = move_current_to_young(mem, d)
      /\ TypeOK /\ Good(mem, R, {}) /\ Walker(mem, R, running, d, at[d], p[d], left[d])
  BY <1>1 DEF Flush, Goto, Inv, State
<1>3. p[d] = NULL /\ left[d] = {}
  BY <1>2 DEF Walker
<1>4. PICK Q : Operation(mem, R, d, mem', Q) /\ Q[<<d, "current">>] = {}
  BY <1>2, MoveCurrentIs
<1>5. Good(mem', Q, {}) /\ Outside(mem, R, mem', Q, d)
  BY <1>4 DEF Operation, Outside
<1>6. Moves(d, "young", NULL, {})
  BY <1>2, <1>3, MovesWith
<1>7. Walker(mem', Q, running, d, "young", NULL, {})
  BY <1>4, NoWalk
<1> QED BY <1>1, <1>2, <1>5, <1>6, <1>7, MovesTo

\* So for a scan.
LEMMA ScanKeeps ==
  ASSUME Inv, NEW d \in Domains, scan_roots(d)
  PROVE  Inv'
<1>1. at[d] = "enter" /\ Flush(d)
  BY DEF scan_roots
<1>2. d \in running
  BY <1>1 DEF Inv, State, Walker
<1> QED BY <1>1, <1>2, FlushKeeps

\* So for a termination.
LEMMA TerminateKeeps ==
  ASSUME Inv, NEW d \in Domains, Terminate(d)
  PROVE  Inv'
BY FlushKeeps DEF Terminate, CanCall

\* Where a domain goes after a ring.
LEMMA AfterRingIs ==
  ASSUME NEW d \in Domains, NEW k \in {"young", "old"}
  PROVE  AfterRing(d, k) \in {"old", "orphan", "adopt"}
BY DEF AfterRing

\* Before the walk over the ring k, and in it.
LEMMA InRing ==
  ASSUME Inv, NEW d \in Domains, NEW k \in {"young", "old"}, at[d] = k
  PROVE  \E R : /\ State(mem, R, running, at, p, left) /\ TypeOK /\ Good(mem, R, {})
                /\ Laid(mem, R) /\ d \in running /\ R[<<d, "current">>] = {}
                /\ p[d] = NULL => left[d] = {}
                /\ p[d] # NULL => Walking(mem, R, <<d, k>>, p[d], left[d])
<1>1. PICK R : State(mem, R, running, at, p, left)
  BY DEF Inv
<1>2. Walker(mem, R, running, d, at[d], p[d], left[d]) /\ Good(mem, R, {})
  BY <1>1 DEF State
<1>3. d \in running /\ R[<<d, "current">>] = {} /\ (p[d] = NULL => left[d] = {})
  BY <1>2 DEF Walker
<1>4. p[d] # NULL => Walking(mem, R, <<d, k>>, p[d], left[d])
  BY <1>2 DEF Walker, WalkedRing
<1> QED BY <1>1, <1>2, <1>3, <1>4 DEF Good, Inv

\* The start of the walk of gc_ring keeps the invariant.
LEMMA GcRingKeeps ==
  ASSUME Inv, NEW d \in Domains, NEW k \in {"young", "old"}, gc_ring(d, k)
  PROVE  Inv'
<1>1. at[d] = k /\ p[d] = NULL /\ UNCHANGED <<mem, running, gc>>
  BY DEF gc_ring
<1>2. PICK R : /\ State(mem, R, running, at, p, left) /\ TypeOK /\ Good(mem, R, {})
               /\ Laid(mem, R) /\ d \in running /\ R[<<d, "current">>] = {}
  BY <1>1, InRing
<1>3. PICK l \in Rings : l = <<d, k>>
  BY RingNames
<1>4. PICK x, L : x = mem.head[l] /\ L = R[l]
  OBVIOUS
<1>5. /\ Ring(mem, l) = L /\ x \in Pools \cup {NULL} /\ L \in SUBSET Pools
      /\ x # NULL => Walking(mem, R, l, x, L)
      /\ x = NULL => L = {}
  BY <1>2, <1>4, StartIs
<1>6. /\ p' = [p EXCEPT ![d] = mem'.head[l]] /\ left' = [left EXCEPT ![d] = Ring(mem', l)]
      /\ IF mem.head[l] = NULL THEN at' = [at EXCEPT ![d] = AfterRing(d, k)] ELSE UNCHANGED at
  BY <1>3 DEF gc_ring, StartWalk, Goto
<1>7. p' = [p EXCEPT ![d] = x] /\ left' = [left EXCEPT ![d] = L]
  BY <1>1, <1>4, <1>5, <1>6
<1>8. Good(mem', R, {}) /\ Outside(mem, R, mem', R, d)
  BY <1>1, <1>2, OutsideSame
<1>9. CASE x = NULL
  <2>1. PICK w \in {"old", "orphan", "adopt"} : w = AfterRing(d, k)
    BY AfterRingIs
  <2>2. at' = [at EXCEPT ![d] = w] /\ L = {}
    BY <1>4, <1>5, <1>6, <1>9, <2>1
  <2>3. Moves(d, w, NULL, {})
    BY <1>2, <1>7, <1>9, <2>2, MovesWith
  <2>4. Walker(mem', R, running, d, w, NULL, {})
    BY <1>2, NoWalk
  <2> QED BY <1>1, <1>2, <1>8, <2>3, <2>4, MovesTo
<1>10. CASE x # NULL
  <2>1. at' = at
    BY <1>4, <1>6, <1>10
  <2>2. Moves(d, k, x, L)
    BY <1>1, <1>2, <1>5, <1>7, <2>1, MovesWith
  <2>3. WalkedRing(d, k) = l
    BY <1>3 DEF WalkedRing
  <2>4. Walking(mem', R, l, x, L)
    BY <1>1, <1>5, <1>10
  <2>5. Walker(mem', R, running, d, k, x, L)
    BY <1>2, <1>10, <2>3, <2>4 DEF Walker
  <2> QED BY <1>1, <1>2, <1>8, <2>2, <2>5, MovesTo
<1> QED BY <1>9, <1>10

\* A step of gc_ring keeps it, although it may move the pool and the head.
LEMMA GcRingStepKeeps ==
  ASSUME Inv, NEW d \in Domains, NEW k \in {"young", "old"}, GcRingStep(d, k)
  PROVE  Inv'
<1>1. at[d] = k /\ p[d] # NULL /\ UNCHANGED <<running, gc>>
  BY DEF GcRingStep
<1>2. PICK R : /\ State(mem, R, running, at, p, left) /\ TypeOK /\ Good(mem, R, {})
               /\ Laid(mem, R) /\ d \in running /\ R[<<d, "current">>] = {}
               /\ Walking(mem, R, <<d, k>>, p[d], left[d])
  BY <1>1, InRing
<1>3. PICK l \in Rings : l = <<d, k>>
  BY RingNames
<1>4. PICK q, L, y : q = p[d] /\ L = left[d] /\ y = mem.next[q]
  OBVIOUS
<1>5. Walking(mem, R, l, q, L) /\ q \in R[l] /\ q \in Pools /\ L \in SUBSET Pools /\ y \in Pools
  BY <1>2, <1>3, <1>4 DEF Walking, Laid, Memory
<1>6. PICK n : n = GcOne(mem, l, q, d)
  OBVIOUS
<1>7. /\ mem' = n
      /\ p' = [p EXCEPT ![d] = IF AtEnd(mem, l, q, n) THEN NULL ELSE y]
      /\ left' = [left EXCEPT ![d] = @ \ {q}]
      /\ IF AtEnd(mem, l, q, n) THEN at' = [at EXCEPT ![d] = AfterRing(d, k)] ELSE UNCHANGED at
  BY <1>3, <1>4, <1>6 DEF GcRingStep, Move, Goto, AtEnd
<1>8. PICK Q : Operation(mem, R, d, n, Q) /\ Flushed(mem, R, l, q, n, Q)
  BY <1>2, <1>3, <1>5, <1>6, GcOneIs
<1>9. Good(n, Q, {}) /\ Outside(mem, R, n, Q, d) /\ Q[<<d, "current">>] = {} /\ Laid(n, Q)
  BY <1>2, <1>8 DEF Operation, Outside, Good
<1>10. /\ AtEnd(mem, l, q, n) => L \ {q} = {}
       /\ ~ AtEnd(mem, l, q, n) => Walking(n, Q, l, y, L \ {q})
  <2>1. PICK m : m = mem
    OBVIOUS
  <2>2. Laid(m, R) /\ Walking(m, R, l, q, L) /\ Laid(n, Q) /\ Flushed(m, R, l, q, n, Q)
    BY <1>2, <1>5, <1>8, <1>9, <2>1
  <2>3. /\ AtEnd(m, l, q, n) => L \ {q} = {}
        /\ ~ AtEnd(m, l, q, n) => Walking(n, Q, l, m.next[q], L \ {q})
    BY <2>2, WalkFlushes
  <2> QED BY <1>4, <2>1, <2>3
<1>11. CASE AtEnd(mem, l, q, n)
  <2>1. PICK w \in {"old", "orphan", "adopt"} : w = AfterRing(d, k)
    BY AfterRingIs
  <2>2. at' = [at EXCEPT ![d] = w] /\ p' = [p EXCEPT ![d] = NULL] /\ left' = [left EXCEPT ![d] = {}]
    BY <1>4, <1>7, <1>10, <1>11, <2>1
  <2>3. Moves(d, w, NULL, {})
    BY <1>2, <2>2, MovesWith
  <2>4. Walker(n, Q, running, d, w, NULL, {})
    BY <1>2, <1>9, NoWalk
  <2> QED BY <1>1, <1>2, <1>7, <1>9, <2>3, <2>4, MovesTo
<1>12. CASE ~ AtEnd(mem, l, q, n)
  <2>1. PICK K \in SUBSET Pools : K = L \ {q}
    BY <1>5
  <2>2. at' = at /\ p' = [p EXCEPT ![d] = y] /\ left' = [left EXCEPT ![d] = K]
    BY <1>4, <1>7, <1>12, <2>1
  <2>3. Moves(d, k, y, K)
    BY <1>1, <1>2, <1>5, <2>2, MovesWith
  <2>4. WalkedRing(d, k) = l
    BY <1>3 DEF WalkedRing
  <2>5. Walking(n, Q, l, y, K) /\ y # NULL
    BY <1>5, <1>10, <1>12, <2>1, HeadsApart
  <2>6. Walker(n, Q, running, d, k, y, K)
    BY <1>2, <1>9, <2>4, <2>5 DEF Walker
  <2> QED BY <1>1, <1>2, <1>7, <1>9, <2>3, <2>6, MovesTo
<1> QED BY <1>11, <1>12

\* adopt_orphaned_pools keeps it.
LEMMA AdoptKeeps ==
  ASSUME Inv, NEW d \in Domains, Adopt(d)
  PROVE  Inv'
<1>1. PICK R : State(mem, R, running, at, p, left)
  BY DEF Inv
<1>2. /\ at[d] = "adopt" /\ UNCHANGED <<running, gc, p, left>> /\ at' = [at EXCEPT ![d] = "finish"]
      /\ mem' = adopt_orphaned_pools(mem, d)
      /\ TypeOK /\ Good(mem, R, {}) /\ Walker(mem, R, running, d, at[d], p[d], left[d])
  BY <1>1 DEF Adopt, Goto, Inv, State
<1>3. d \in running /\ R[<<d, "current">>] = {} /\ p[d] = NULL /\ left[d] = {}
  BY <1>2 DEF Walker
<1>4. PICK o, y, n : /\ o = <<Orphan, "old">> /\ y = <<Orphan, "young">>
                     /\ n = reclassify_ring(mem, o, d, "OLD")
  OBVIOUS
<1>5. CanMove(o, d, "OLD") /\ CanMove(y, d, "YOUNG")
  BY <1>4, RingNames DEF CanMove
<1>6. PICK R1 : Operation(mem, R, d, n, R1)
  <2>1. PICK cl : cl = "OLD"
    OBVIOUS
  <2>2. CanMove(o, d, cl) /\ n = reclassify_ring(mem, o, d, cl)
    BY <1>4, <1>5, <2>1
  <2> QED BY <1>2, <2>2, ReclassifyRingIs
<1>7. PICK Q : Operation(n, R1, d, mem', Q)
  <2>1. PICK cl : cl = "YOUNG"
    OBVIOUS
  <2>2. CanMove(y, d, cl) /\ mem' = reclassify_ring(n, y, d, cl) /\ Good(n, R1, {})
    BY <1>2, <1>4, <1>5, <1>6, <2>1 DEF adopt_orphaned_pools, Operation
  <2> QED BY <2>2, ReclassifyRingIs
<1>8. Operation(mem, R, d, mem', Q)
  BY <1>6, <1>7, OperationAfter
<1>9. Good(mem', Q, {}) /\ Outside(mem, R, mem', Q, d) /\ Q[<<d, "current">>] = {}
  BY <1>3, <1>8 DEF Operation, Outside
<1>10. Moves(d, "finish", NULL, {})
  BY <1>2, <1>3, MovesWith
<1>11. Walker(mem', Q, running, d, "finish", NULL, {})
  BY <1>3, <1>9, NoWalk
<1> QED BY <1>1, <1>2, <1>9, <1>10, <1>11, MovesTo

\* Promotion, and the release of free pools, keep it.
LEMMA FinishKeeps ==
  ASSUME Inv, NEW d \in Domains, Finish(d)
  PROVE  Inv'
<1>1. PICK R : State(mem, R, running, at, p, left)
  BY DEF Inv
<1>2. /\ at[d] = "finish" /\ UNCHANGED <<running, gc, p, left>> /\ at' = [at EXCEPT ![d] = "done"]
      /\ TypeOK /\ Good(mem, R, {}) /\ Walker(mem, R, running, d, at[d], p[d], left[d])
      /\ mem \in Memory
  BY <1>1 DEF Finish, Goto, Inv, State, Good, Laid
<1>3. d \in running /\ R[<<d, "current">>] = {} /\ p[d] = NULL /\ left[d] = {}
  BY <1>2 DEF Walker
<1>4. \E Q : Operation(mem, R, d, mem', Q)
  <2>1. CASE gc = "minor"
    <3>1. PICK cl, y : cl = "OLD" /\ y = <<d, "young">>
      OBVIOUS
    <3>2. mem' = reclassify_ring(mem, y, d, cl)
      BY <2>1, <3>1 DEF Finish
    <3>3. CanMove(y, d, cl)
      BY <3>1, RingNames DEF CanMove
    <3> QED BY <1>2, <3>2, <3>3, ReclassifyRingIs
  <2>2. CASE gc # "minor"
    <3>1. PICK f, n, H : f = <<d, "free">> /\ n = free_pool_ring(mem, f) /\ H = {}
      OBVIOUS
    <3>2. mem' = n
      BY <2>2, <3>1 DEF Finish
    <3>3. Cleared(mem, H) = mem /\ f \notin H
      BY <1>2, <3>1, ClearedNone
    <3>4. PICK Q : Emptied(mem, R, d, H, f, n, Q, 0)
      BY <1>2, <3>1, <3>3, FreeRingIs
    <3>5. Operation(mem, R, d, Cleared(n, H), Q) /\ n \in Memory
      BY <3>4 DEF Emptied
    <3>6. Cleared(n, H) = n
      BY <3>1, <3>5, ClearedNone
    <3> QED BY <3>2, <3>5, <3>6
  <2> QED BY <2>1, <2>2
<1>5. PICK Q : Operation(mem, R, d, mem', Q)
  BY <1>4
<1>6. Good(mem', Q, {}) /\ Outside(mem, R, mem', Q, d) /\ Q[<<d, "current">>] = {}
  BY <1>3, <1>5 DEF Operation, Outside
<1>7. Moves(d, "done", NULL, {})
  BY <1>2, <1>3, MovesWith
<1>8. Walker(mem', Q, running, d, "done", NULL, {})
  BY <1>3, <1>6, NoWalk
<1> QED BY <1>1, <1>2, <1>6, <1>7, <1>8, MovesTo

\* orphan_pools keeps it.
LEMMA OrphanPoolsKeeps ==
  ASSUME Inv, ~ AssertionsAssumed, NEW d \in Domains, orphan_pools(d)
  PROVE  Inv'
<1>1. PICK R : State(mem, R, running, at, p, left)
  BY DEF Inv
<1>2. /\ at[d] = "orphan" /\ UNCHANGED <<gc, p, left>> /\ at' = [at EXCEPT ![d] = "idle"]
      /\ running' = running \ {d}
      /\ TypeOK /\ Good(mem, R, {}) /\ Walker(mem, R, running, d, at[d], p[d], left[d])
  BY <1>1 DEF orphan_pools, Goto, Inv, State
<1>3. d \in running /\ R[<<d, "current">>] = {} /\ p[d] = NULL /\ left[d] = {}
  BY <1>2 DEF Walker
<1>4. mem' = Orphaned(mem, d)
  BY DEF orphan_pools, PushBackOutcomes, Orphaned
<1>5. PICK Q : /\ Good(mem', Q, {}) /\ Changes(mem, R, mem', Q, d) /\ NoRings(Q, d)
               /\ OrphanedIds(mem, R, d, mem', Q)
  BY <1>2, <1>3, <1>4, OrphanedIs
<1>6. OrphanIds(mem', Q, running')
  BY <1>1, <1>2, <1>5 DEF OrphanedIds, OrphanIds, State
<1>7. at'[d] = "idle" /\ p'[d] = NULL /\ left'[d] = {}
  BY <1>2, <1>3 DEF TypeOK
<1>8. Walker(mem', Q, running', d, at'[d], p'[d], left'[d])
  BY <1>5, <1>7 DEF Walker
<1>9. Elsewhere(d, at, at') /\ Elsewhere(d, p, p') /\ Elsewhere(d, left, left')
  BY <1>2 DEF Elsewhere, TypeOK
<1>10. \A e \in Domains \ {d} : e \in running <=> e \in running'
  BY <1>2
<1>11. State(mem', Q, running', at', p', left')
  BY <1>1, <1>5, <1>6, <1>8, <1>9, <1>10, DomainSteps
<1>12. TypeOK'
  BY <1>2, <1>5 DEF TypeOK, Good, Laid
<1> QED BY <1>11, <1>12 DEF Inv

\* A new domain has no ring yet.
LEMMA SpawnKeeps ==
  ASSUME Inv, NEW d \in Domains, Spawn(d)
  PROVE  Inv'
<1>1. PICK R : State(mem, R, running, at, p, left)
  BY DEF Inv
<1>2. /\ d \notin running /\ UNCHANGED <<mem, gc, at, p, left>> /\ running' = running \cup {d}
      /\ \A q \in Pools : mem.domain_id[q] # d
      /\ TypeOK /\ Good(mem, R, {}) /\ Walker(mem, R, running, d, at[d], p[d], left[d])
  BY <1>1 DEF Spawn, Inv, State
<1>3. at[d] = "idle" /\ NoRings(R, d) /\ p[d] = NULL /\ left[d] = {}
  BY <1>2 DEF Walker
<1>4. Changes(mem, R, mem', R, d) /\ Good(mem', R, {})
  BY <1>2 DEF Changes
<1>5. OrphanIds(mem', R, running')
  <2>1. OrphanIds(mem, R, running) /\ R \in [Rings -> SUBSET Pools]
    BY <1>1 DEF State, Good, Laid
  <2> QED BY <1>2, <2>1 DEF OrphanIds
<1>6. Walker(mem', R, running', d, at'[d], p'[d], left'[d])
  BY <1>2, <1>3 DEF Walker
<1>7. Elsewhere(d, at, at') /\ Elsewhere(d, p, p') /\ Elsewhere(d, left, left')
  BY <1>2 DEF Elsewhere
<1>8. \A e \in Domains \ {d} : e \in running <=> e \in running'
  BY <1>2
<1>9. State(mem', R, running', at', p', left')
  BY <1>1, <1>4, <1>5, <1>6, <1>7, <1>8, DomainSteps
<1>10. TypeOK'
  BY <1>2 DEF TypeOK
<1> QED BY <1>9, <1>10 DEF Inv

\* All the domains start and end a collection together.
LEMMA TogetherKeeps ==
  ASSUME Inv, UNCHANGED <<mem, running, p, left>>, gc' \in {"none", "minor", "major"},
         at' \in [Domains -> {"idle", "enter"}],
         \A d \in Domains : \/ d \in running /\ at[d] \in {"idle", "done"}
                            \/ d \notin running /\ at'[d] = "idle"
  PROVE  Inv'
<1>1. PICK R : State(mem, R, running, at, p, left)
  BY DEF Inv
<1>2. ASSUME NEW d \in Domains
      PROVE  Walker(mem', R, running', d, at'[d], p'[d], left'[d])
  <2>1. Walker(mem, R, running, d, at[d], p[d], left[d])
    BY <1>1 DEF State
  <2>2. p[d] = NULL /\ left[d] = {} /\ (d \notin running => NoRings(R, d))
    BY <2>1 DEF Walker
  <2>3. at'[d] \in {"idle", "enter"}
    OBVIOUS
  <2> QED BY <2>2, <2>3 DEF Walker
<1>3. State(mem', R, running', at', p', left')
  BY <1>1, <1>2 DEF State
<1>4. TypeOK'
  BY DEF Inv, TypeOK
<1> QED BY <1>3, <1>4 DEF Inv

\* The start of a collection keeps the invariant.
LEMMA StartGCKeeps ==
  ASSUME Inv, NEW kind \in {"minor", "major"}, StartGC(kind)
  PROVE  Inv'
<1>1. PICK R : State(mem, R, running, at, p, left)
  BY DEF Inv
<1>2. \A d \in Domains : d \notin running => at[d] = "idle"
  BY <1>1 DEF State, Walker
<1>3. /\ at' = [d \in Domains |-> IF d \in running THEN "enter" ELSE at[d]]
      /\ \A d \in running : at[d] = "idle"
      /\ gc' = kind /\ UNCHANGED <<mem, running, p, left>>
  BY DEF StartGC
<1>4. at' \in [Domains -> {"idle", "enter"}]
  BY <1>2, <1>3
<1>5. \A d \in Domains : \/ d \in running /\ at[d] \in {"idle", "done"}
                         \/ d \notin running /\ at'[d] = "idle"
  BY <1>2, <1>3
<1> QED BY <1>3, <1>4, <1>5, TogetherKeeps

\* Its end too.
LEMMA EndGCKeeps ==
  ASSUME Inv, EndGC
  PROVE  Inv'
<1>1. /\ at' = [d \in Domains |-> "idle"] /\ \A d \in running : at[d] = "done"
      /\ gc' = "none" /\ UNCHANGED <<mem, running, p, left>>
  BY DEF EndGC
<1>2. at' \in [Domains -> {"idle", "enter"}]
  BY <1>1
<1>3. \A d \in Domains : \/ d \in running /\ at[d] \in {"idle", "done"}
                         \/ d \notin running /\ at'[d] = "idle"
  BY <1>1
<1> QED BY <1>1, <1>2, <1>3, TogetherKeeps

\* Every step keeps the invariant.
LEMMA InvNext ==
  ASSUME Inv, ~ AssertionsAssumed, [Next]_vars
  PROVE  Inv'
<1>1. CASE UNCHANGED vars
  BY <1>1 DEF Inv, TypeOK, State, vars
<1>2. CASE Next
  <2>1. ASSUME NEW d \in Domains, \/ boxroot_create(d) \/ bxr_create_slow(d) \/ NoMemory(d)
                                  \/ Terminate(d) \/ Spawn(d)
        PROVE  Inv'
    BY <2>1, CreateKeeps, CreateSlowKeeps, NoMemoryKeeps, TerminateKeeps, SpawnKeeps
  <2>2. ASSUME NEW d \in Domains, NEW q \in Pools, boxroot_delete(d, q)
        PROVE  Inv'
    BY <2>2, DeleteKeeps
  <2>3. ASSUME NEW d \in Domains, FunctionStep(d)
        PROVE  Inv'
    <3>1. CASE \/ try_gc_and_reclassify_one_pool_no_stw(d) \/ find_and_set_available_pool(d)
               \/ scan_roots(d) \/ Adopt(d) \/ Finish(d) \/ orphan_pools(d)
      BY <3>1, WalkKeeps, FindKeeps, ScanKeeps, AdoptKeeps, FinishKeeps, OrphanPoolsKeeps
    <3>2. CASE \E k \in {"young", "old"} : gc_ring(d, k) \/ GcRingStep(d, k)
      BY <3>2, GcRingKeeps, GcRingStepKeeps
    <3> QED BY <2>3, <3>1, <3>2 DEF FunctionStep
  <2>4. ASSUME NEW q \in Pools, DeleteRemote(q)
        PROVE  Inv'
    BY <2>4, DeleteRemoteKeeps
  <2>5. ASSUME NEW kind \in {"minor", "major"}, StartGC(kind)
        PROVE  Inv'
    BY <2>5, StartGCKeeps
  <2> QED BY <1>2, <2>1, <2>2, <2>3, <2>4, <2>5, EndGCKeeps DEF Next
<1> QED BY <1>1, <1>2

-----------------------------------------------------------------------------
(* The theorems.  In all of them the assertions are only checked, never    *)
(* taken for facts: what else a compiler may make of orphan_pools is the   *)
(* counterexample of the run MCPoolRings_splice.                           *)

\* The invariant is inductive, whatever the domains, the pools and their sizes.
THEOREM PoolRingsInvariance ==
  ASSUME ~ AssertionsAssumed
  PROVE  Spec => []Inv
<1>1. Inv /\ [Next]_vars => Inv'
  BY InvNext
<1> QED BY <1>1, InvInit, PTL DEF Spec

\* The rings that the walks of module Rings meet are those of the layout.
LEMMA LaidRings ==
  ASSUME NEW R, State(mem, R, running, at, p, left)
  PROVE  /\ Good(mem, R, {}) /\ \A l \in Rings : Ring(mem, l) = R[l]
         /\ \A d \in Domains, k \in Kinds : Ring(mem, <<d, k>>) = R[<<d, k>>]
<1>1. Good(mem, R, {}) /\ Laid(mem, R)
  BY DEF State, Good
<1>2. \A l \in Rings : Ring(mem, l) = R[l]
  BY <1>1, StartIs
<1> QED BY <1>1, <1>2, RingNames

\* Whatever the domains do to the rings of pools, the memory is well typed and
\* each mapped pool is on exactly one ring, circular in both directions.
THEOREM RingsStayDisjointCycles ==
  ASSUME ~ AssertionsAssumed
  PROVE  Spec => []RingsAreDisjointCycles
<1>1. Inv => RingsAreDisjointCycles
  <2> SUFFICES ASSUME Inv PROVE RingsAreDisjointCycles
    OBVIOUS
  <2>1. PICK R : State(mem, R, running, at, p, left)
    BY DEF Inv
  <2>2. Good(mem, R, {}) /\ \A l \in Rings : Ring(mem, l) = R[l]
    BY <2>1, LaidRings
  <2>3. UNION {Ring(mem, l) : l \in Rings} = mem.mapped
    BY <2>2 DEF Good
  <2>4. \A q \in mem.mapped : mem.prev[mem.next[q]] = q
    BY <2>2, HeadsApart DEF Good, Laid, OnRing, Cycle
  <2>5. \A l, k \in Rings : l # k => Ring(mem, l) \cap Ring(mem, k) = {}
    BY <2>2 DEF Good, Laid
  <2> QED BY <2>3, <2>4, <2>5 DEF Inv, RingsAreDisjointCycles, DisjointCycles
<1> QED BY <1>1, PoolRingsInvariance, PTL

\* The class and the domain in the header of a pool name its ring, but for the
\* domain of an orphan, and the current ring has one pool at most: what
\* boxroot_delete and boxroot_modify read of the header is true.
THEOREM HeadersKeptInSync ==
  ASSUME ~ AssertionsAssumed
  PROVE  Spec => []KeptInSync
<1>1. Inv => KeptInSync
  <2> SUFFICES ASSUME Inv PROVE KeptInSync
    OBVIOUS
  <2>1. PICK R : State(mem, R, running, at, p, left)
    BY DEF Inv
  <2>2. /\ Good(mem, R, {}) /\ \A l \in Rings : Ring(mem, l) = R[l]
        /\ \A d \in Domains, k \in Kinds : Ring(mem, <<d, k>>) = R[<<d, k>>]
    BY <2>1, LaidRings
  <2>3. \A l \in Rings : \A q \in Ring(mem, l) :
          /\ mem.class[q] = CASE l[2] = "old" -> "OLD" [] l[2] = "free" -> "UNTRACKED"
                              [] OTHER -> "YOUNG"
          /\ l[1] # Orphan => mem.domain_id[q] = l[1]
    BY <2>2 DEF Good, Sync
  <2>4. ASSUME NEW d \in Domains
        PROVE  Cardinality(Ring(mem, <<d, "current">>)) <= 1
    <3>1. PICK A : A = Ring(mem, <<d, "current">>)
      OBVIOUS
    <3>2. \A x, y \in A : x = y
      <4>1. A = R[<<d, "current">>]
        BY <2>2, <3>1 DEF Kinds
      <4>2. \A x, y \in R[<<d, "current">>] : x = y
        BY <2>2 DEF Good, OneCurrent
      <4> QED BY <4>1, <4>2
    <3>3. CASE A = {}
      BY <3>1, <3>3, FS_EmptySet
    <3>4. CASE A # {}
      <4>1. PICK x : x \in A
        BY <3>4
      <4>2. A = {x}
        BY <3>2, <4>1
      <4>3. Cardinality(A) = 1
        BY <4>2, FS_Singleton
      <4> QED BY <3>1, <4>3
    <3> QED BY <3>3, <3>4
  <2> QED BY <2>3, <2>4 DEF KeptInSync
<1> QED BY <1>1, PoolRingsInvariance, PTL

\* A pool that holds a root, whoever orphaned it, is on a ring of a running
\* domain that the scan walks, or on one that the next collection adopts.
THEOREM EveryRootIsScanned ==
  ASSUME ~ AssertionsAssumed
  PROVE  Spec => []EveryRootIsOnAScannedRing
<1>1. Inv => EveryRootIsOnAScannedRing
  <2> SUFFICES ASSUME Inv, NEW q \in Pools, Live(mem, q) > 0
               PROVE  \E l \in (running \cup {Orphan}) \X {"young", "old", "current"} :
                        l \in Rings /\ q \in Ring(mem, l)
    BY DEF EveryRootIsOnAScannedRing
  <2>1. PICK R : State(mem, R, running, at, p, left)
    BY DEF Inv
  <2>2. Good(mem, R, {}) /\ \A l \in Rings : Ring(mem, l) = R[l]
    BY <2>1, LaidRings
  <2>3. PICK l \in Rings : q \in R[l]
    BY <2>2, LiveIs
  <2>4. \A d \in Domains : q \notin R[<<d, "free">>]
    BY <2>2, LiveIs
  <2>5. CASE \E d \in Domains, k \in Kinds : l = <<d, k>>
    <3>1. PICK d \in Domains, k \in Kinds : l = <<d, k>>
      BY <2>5
    <3>2. d \in running
      <4>1. d \notin running => NoRings(R, d)
        BY <2>1 DEF State, Walker
      <4> QED BY <2>3, <3>1, <4>1 DEF NoRings
    <3>3. k \in {"young", "old", "current"}
      BY <2>3, <2>4, <3>1 DEF Kinds
    <3> QED BY <2>2, <2>3, <3>1, <3>2, <3>3
  <2>6. CASE l \in {<<Orphan, "old">>, <<Orphan, "young">>}
    BY <2>2, <2>3, <2>6
  <2> QED BY <2>5, <2>6 DEF Rings
<1> QED BY <1>1, PoolRingsInvariance, PTL

\* No walk over a ring ends before it has met every pool that was on the ring
\* when it started, although it moves pools, and its head, as it goes.
THEOREM WalksMeetEveryPool ==
  ASSUME ~ AssertionsAssumed
  PROVE  Spec => []EveryPoolIsMet
<1>1. Inv => EveryPoolIsMet
  BY DEF Inv, State, Walker, EveryPoolIsMet
<1> QED BY <1>1, PoolRingsInvariance, PTL

-----------------------------------------------------------------------------
(* What a step of a walk may do.                                           *)

\* Nothing but its own step moves a walk.
LEMMA WalkSteps ==
  ASSUME Inv, [Next]_vars, NEW d \in Domains, p[d] # NULL, p'[d] # p[d]
  PROVE  \/ try_gc_and_reclassify_one_pool_no_stw(d)
         \/ \E k \in {"young", "old"} : GcRingStep(d, k)
<1> USE DEF Inv, TypeOK
<1>1. at[d] \in {"walk", "young", "old"}
  BY DEF State, Walker
<1>2. CASE UNCHANGED vars
  BY <1>2 DEF vars
<1>3. ASSUME NEW e \in Domains,
             \/ boxroot_create(e) \/ NoMemory(e) \/ find_and_set_available_pool(e)
             \/ scan_roots(e) \/ Terminate(e) \/ Adopt(e) \/ Finish(e) \/ orphan_pools(e) \/ Spawn(e)
             \/ \E q \in Pools : boxroot_delete(e, q)
      PROVE  FALSE
  <2>1. p' = p
    BY <1>3 DEF boxroot_create, NoMemory, find_and_set_available_pool, scan_roots, Terminate, Flush,
                Adopt, Finish, orphan_pools, Spawn, boxroot_delete
  <2> QED BY <2>1
<1>4. ASSUME NEW e \in Domains, bxr_create_slow(e)
      PROVE  FALSE
  <2>1. e # d
    BY <1>1, <1>4 DEF bxr_create_slow, CanCall
  <2>2. p'[d] = p[d]
    BY <1>4, <2>1 DEF bxr_create_slow, StartWalk
  <2> QED BY <2>2
<1>5. ASSUME NEW e \in Domains, e # d, try_gc_and_reclassify_one_pool_no_stw(e)
      PROVE  FALSE
  <2>1. p'[d] = p[d]
    BY <1>5 DEF try_gc_and_reclassify_one_pool_no_stw, Move, StopWalk
  <2> QED BY <2>1
<1>6. ASSUME NEW e \in Domains, NEW k \in {"young", "old"}, gc_ring(e, k)
      PROVE  FALSE
  <2>1. e # d
    BY <1>6 DEF gc_ring
  <2>2. p'[d] = p[d]
    BY <1>6, <2>1 DEF gc_ring, StartWalk
  <2> QED BY <2>2
<1>7. ASSUME NEW e \in Domains, e # d, NEW k \in {"young", "old"}, GcRingStep(e, k)
      PROVE  FALSE
  <2>1. p'[d] = p[d]
    BY <1>7 DEF GcRingStep, Move
  <2> QED BY <2>1
<1>8. ~ (\E q \in Pools : DeleteRemote(q)) /\ ~ (\E kind \in {"minor", "major"} : StartGC(kind))
      /\ ~ EndGC
  BY DEF DeleteRemote, StartGC, EndGC
<1> QED BY <1>2, <1>3, <1>4, <1>5, <1>6, <1>7, <1>8 DEF Next, FunctionStep

\* A step of a walk of a collection leaves the other pools in their order.
THEOREM OthersKeepTheirOrder ==
  ASSUME ~ AssertionsAssumed
  PROVE  Spec => OnlyFlushedPoolsMove
<1>1. Inv /\ [Next]_vars =>
        [\A d \in Domains, k \in {"young", "old"} :
           at[d] = k /\ p[d] # NULL /\ p'[d] # p[d] =>
             \A q \in Ring(mem, <<d, k>>) \ {p[d]} :
               NextWithout(mem', q, p[d]) = NextWithout(mem, q, p[d])]_vars
  <2> SUFFICES ASSUME Inv, [Next]_vars, NEW d \in Domains, NEW k \in {"young", "old"},
                      at[d] = k, p[d] # NULL, p'[d] # p[d]
               PROVE  \A q \in Ring(mem, <<d, k>>) \ {p[d]} :
                        NextWithout(mem', q, p[d]) = NextWithout(mem, q, p[d])
    OBVIOUS
  <2>1. GcRingStep(d, k)
    BY WalkSteps DEF GcRingStep, try_gc_and_reclassify_one_pool_no_stw
  <2>2. PICK l \in Rings : l = <<d, k>>
    BY RingNames
  <2>3. PICK R : /\ State(mem, R, running, at, p, left) /\ Good(mem, R, {})
                 /\ Walking(mem, R, l, p[d], left[d])
    BY <2>2, InRing
  <2>4. PICK q : q = p[d]
    OBVIOUS
  <2>5. mem' = GcOne(mem, l, q, d) /\ q \in R[l]
    BY <2>1, <2>2, <2>3, <2>4 DEF GcRingStep, Walking
  <2>6. PICK Q : Flushed(mem, R, l, q, mem', Q)
    BY <2>2, <2>3, <2>5, GcOneIs
  <2>7. Ring(mem, l) = R[l]
    BY <2>3, LaidRings
  <2>8. \A s \in R[l] \ {q} : NextWithout(mem', s, q) = NextWithout(mem, s, q)
    BY <2>6 DEF Flushed, NextWithout
  <2> QED BY <2>2, <2>4, <2>7, <2>8
<1> QED BY <1>1, PoolRingsInvariance, PTL DEF Spec, OnlyFlushedPoolsMove


\* The distance to a pool depends on the links alone.
LEMMA StepsSame ==
  ASSUME NEW m, NEW n, n.next = m.next, NEW x, NEW h
  PROVE  StepsTo(n, x, h) = StepsTo(m, x, h)
<1>1. Walk(n, x) = Walk(m, x)
  BY DEF Walk
<1> QED BY <1>1 DEF StepsTo

\* A step along a ring, the links and the head of which stay as they are.
LEMMA StepAlong ==
  ASSUME NEW m, NEW R, Laid(m, R), NEW l \in Rings, NEW q \in R[l], NEW y, y = m.next[q],
         y # m.head[l], NEW n, n.next = m.next, n.head[l] = m.head[l]
  PROVE  StepsTo(n, y, n.head[l]) < StepsTo(m, q, m.head[l])
<1>1. m.next \in [Pools -> Pools] /\ R[l] \in SUBSET Pools
  BY DEF Laid, Memory
<1>2. PICK h : h = m.head[l]
  OBVIOUS
<1>3. h \in R[l] /\ Cycle(m.next, m.prev, R[l])
  BY <1>2 DEF Laid, OnRing
<1>4. StepsTo(m, y, h) < StepsTo(m, q, h)
  BY <1>1, <1>2, <1>3, PoolAssumption, StepsCloser
<1>5. StepsTo(n, y, h) = StepsTo(m, y, h)
  BY StepsSame
<1> QED BY <1>2, <1>4, <1>5

\* A walk comes closer to the head of its ring, where it ends, with every step
\* that carries out no deletion.
THEOREM WalksComeCloser ==
  ASSUME ~ AssertionsAssumed
  PROVE  Spec => WalksAdvance
<1>1. Inv /\ [Next]_vars =>
        [\A d \in Domains :
           LET l == <<d, IF at[d] = "walk" THEN "young" ELSE at[d]>>
           IN p[d] # NULL /\ p'[d] \notin {NULL, p[d]}
                => \/ mem'.delayed_count[p[d]] # mem.delayed_count[p[d]]
                   \/ StepsTo(mem', p'[d], mem'.head[l]) < StepsTo(mem, p[d], mem.head[l])]_vars
  <2> SUFFICES ASSUME Inv, [Next]_vars, NEW d \in Domains,
                      p[d] # NULL, p'[d] # NULL, p'[d] # p[d],
                      mem'.delayed_count[p[d]] = mem.delayed_count[p[d]],
                      NEW l, l = <<d, IF at[d] = "walk" THEN "young" ELSE at[d]>>
               PROVE  StepsTo(mem', p'[d], mem'.head[l]) < StepsTo(mem, p[d], mem.head[l])
    OBVIOUS
  <2>1. \/ try_gc_and_reclassify_one_pool_no_stw(d)
        \/ \E k \in {"young", "old"} : GcRingStep(d, k)
    BY WalkSteps
  <2>2. PICK R : State(mem, R, running, at, p, left)
    BY DEF Inv
  <2>3. Walker(mem, R, running, d, at[d], p[d], left[d]) /\ Good(mem, R, {}) /\ Laid(mem, R)
    BY <2>2 DEF State, Good
  <2>4. l \in Rings /\ Walking(mem, R, l, p[d], left[d])
    <3>1. at[d] \in {"walk", "young", "old"} /\ l = WalkedRing(d, at[d])
      BY <2>3 DEF Walker, WalkedRing
    <3>2. l = <<d, "young">> \/ l = <<d, "old">>
      BY <3>1
    <3>3. l \in Rings
      BY <3>2, RingNames
    <3>4. Walking(mem, R, l, p[d], left[d])
      BY <2>3, <3>1 DEF Walker
    <3> QED BY <3>3, <3>4
  <2>5. PICK q, y : q = p[d] /\ y = mem.next[q] /\ q \in R[l]
    BY <2>4 DEF Walking
  <2>6. p \in [Domains -> Pools \cup {NULL}]
    BY DEF Inv, TypeOK
  <2>7. CASE try_gc_and_reclassify_one_pool_no_stw(d)
    <3>1. mem' = mem /\ p'[d] = y /\ y # mem.head[<<d, "young">>] /\ at[d] = "walk"
      BY <2>5, <2>6, <2>7 DEF try_gc_and_reclassify_one_pool_no_stw, StopWalk, Move
    <3>2. y # mem.head[l]
      BY <3>1
    <3>3. StepsTo(mem', y, mem'.head[l]) < StepsTo(mem, q, mem.head[l])
      <4>1. PICK m, n : m = mem /\ n = mem'
        OBVIOUS
      <4>2. Laid(m, R) /\ y = m.next[q] /\ y # m.head[l] /\ n.next = m.next /\ n.head[l] = m.head[l]
        BY <2>3, <2>5, <3>1, <3>2, <4>1
      <4>3. StepsTo(n, y, n.head[l]) < StepsTo(m, q, m.head[l])
        BY <2>4, <2>5, <4>2, StepAlong
      <4> QED BY <4>1, <4>3
    <3> QED BY <2>5, <3>1, <3>3
  <2>8. ASSUME NEW k \in {"young", "old"}, GcRingStep(d, k)
        PROVE  StepsTo(mem', p'[d], mem'.head[l]) < StepsTo(mem, p[d], mem.head[l])
    <3>1. l = <<d, k>>
      BY <2>8 DEF GcRingStep
    <3>2. PICK n : n = GcOne(mem, l, q, d)
      OBVIOUS
    <3>3. mem' = n /\ p'[d] = y /\ ~ AtEnd(mem, l, q, n)
      BY <2>5, <2>6, <2>8, <3>1, <3>2 DEF GcRingStep, Move, AtEnd
    <3>4. PICK Q : Flushed(mem, R, l, q, n, Q)
      BY <2>3, <2>5, <3>1, <3>2, GcOneIs
    <3>5. n.head[l] = mem.head[l] /\ n.next = mem.next
      BY <2>5, <3>3, <3>4 DEF Flushed
    <3>6. y # mem.head[l]
      BY <2>5, <3>3, <3>5 DEF AtEnd
    <3>7. StepsTo(n, y, n.head[l]) < StepsTo(mem, q, mem.head[l])
      <4>1. PICK m : m = mem
        OBVIOUS
      <4>2. Laid(m, R) /\ y = m.next[q] /\ y # m.head[l] /\ n.next = m.next /\ n.head[l] = m.head[l]
        BY <2>3, <2>5, <3>5, <3>6, <4>1
      <4>3. StepsTo(n, y, n.head[l]) < StepsTo(m, q, m.head[l])
        BY <2>4, <2>5, <4>2, StepAlong
      <4> QED BY <4>1, <4>3
    <3> QED BY <2>5, <3>3, <3>7
  <2> QED BY <2>1, <2>7, <2>8
<1> QED BY <1>1, PoolRingsInvariance, PTL DEF Spec, WalksAdvance
=============================================================================
