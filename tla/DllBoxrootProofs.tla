-------------------------- MODULE DllBoxrootProofs --------------------------
(* Theorems about DllBoxroot: its three rings are disjoint cycles, sorted by *)
(* the age of the values, and the prototype is a table of GC roots.  The     *)
(* invariant gives for each ring the set of its nodes; module ListLemmas     *)
(* says what the operations on the links make of such sets.                  *)
EXTENDS DllBoxroot, ListLemmas

\* Each element of S is in one of the sets R[h].
Sharing(R, S) ==
  /\ \A h \in RingNames : R[h] \subseteq S
  /\ \A h, k \in RingNames : h # k => R[h] \cap R[k] = {}
  /\ \A s \in S : \E h \in RingNames : s \in R[h]

\* R gives the nodes of each ring, and S is what malloc has given.
Layout(m, R, S) ==
  /\ m \in RingMemory(Heads, Elems) /\ m.head["elem"] = NULL
  /\ S \subseteq Elems /\ Sharing(R, S)
  /\ \A h \in RingNames : OnRing(m, h, R[h])

\* The rings are sorted by the values of their elements.
Sorted(R) ==
  /\ \A e \in Elems : slot[e] = NULL <=> e \notin mapped \/ e \in R["free"]
  /\ \A e \in R["old"] : slot[e] # "young"

\* What a collection has done with the values, when it is safe to end it.
Phases ==
  /\ \A e \in Elems : slot[e] # "dead"
  /\ \A e \in Elems : slot[e] = "marked" => gc = "major" /\ scanned
  /\ gc = "major" \/ (gc = "minor" /\ scanned) => \A e \in Elems : slot[e] # "young"
  /\ gc = "major" /\ scanned => \A e \in Elems : slot[e] # "old"
  /\ setup => hooks # "none"
  /\ ~ setup => mapped = {}

Held(R) == TypeOK /\ Layout(rings, R, mapped) /\ Sorted(R) /\ Phases

\* The inductive invariant.
DllInv == \E R \in [RingNames -> SUBSET Elems] : Held(R)

LEMMA Constants ==
  /\ NULL \notin Elems /\ IsFiniteSet(Elems) /\ NULL \notin Values
  /\ RingNames \subseteq Heads /\ "elem" \in Heads /\ "elem" \notin RingNames
BY ElemAssumption, NullAssumption DEF Heads, RingNames

More(Q, R, t, e) == \A h \in RingNames : Q[h] = IF h = t THEN R[h] \cup {e} ELSE R[h]
Less(Q, R, t, e) == \A h \in RingNames : Q[h] = IF h = t THEN R[h] \ {e} ELSE R[h]

\* One more element, or one less.
LEMMA SharingMore ==
  ASSUME NEW R, NEW S, Sharing(R, S), NEW e, e \notin S, NEW t \in RingNames,
         NEW Q, More(Q, R, t, e)
  PROVE  Sharing(Q, S \cup {e})
<1>1. \A h \in RingNames : Q[h] \subseteq S \cup {e}
  BY DEF Sharing, More
<1>2. ASSUME NEW h \in RingNames, NEW k \in RingNames, h # k, NEW s \in Q[h], s \in Q[k]
      PROVE  FALSE
  <2>1. /\ s \in R[h] \/ (h = t /\ s = e)
        /\ s \in R[k] \/ (k = t /\ s = e)
    BY <1>2 DEF More
  <2>2. e \notin R[h] /\ e \notin R[k] /\ R[h] \cap R[k] = {}
    BY <1>2 DEF Sharing, More
  <2> QED BY <1>2, <2>1, <2>2
<1>3. ASSUME NEW s \in S \cup {e} PROVE \E h \in RingNames : s \in Q[h]
  BY <1>3 DEF Sharing, More
<1> QED BY <1>1, <1>2, <1>3 DEF Sharing, More

LEMMA SharingLess ==
  ASSUME NEW R, NEW S, Sharing(R, S), NEW t \in RingNames, NEW e, e \in R[t],
         NEW Q, Less(Q, R, t, e)
  PROVE  Sharing(Q, S \ {e})
<1>1. ASSUME NEW h \in RingNames, NEW s \in Q[h] PROVE s \in S \ {e}
  BY <1>1 DEF Sharing, Less
<1>2. ASSUME NEW h \in RingNames, NEW k \in RingNames, h # k, NEW s \in Q[h], s \in Q[k]
      PROVE  FALSE
  BY <1>2 DEF Sharing, Less
<1>3. ASSUME NEW s \in S \ {e} PROVE \E h \in RingNames : s \in Q[h]
  BY <1>3 DEF Sharing, Less
<1> QED BY <1>1, <1>2, <1>3 DEF Sharing

-----------------------------------------------------------------------------
(* The operations on the three rings.                                      *)

\* The elements met on each ring are those the layout gives.
LEMMA LayoutIsRings ==
  ASSUME NEW m, NEW R, NEW S, Layout(m, R, S)
  PROVE  \A h \in RingNames : Ring(m, h) = R[h]
<1> SUFFICES ASSUME NEW h \in RingNames PROVE Ring(m, h) = R[h]
  OBVIOUS
<1>1. PICK A : A = R[h]
  OBVIOUS
<1>2. h \in Heads /\ A \in SUBSET Elems /\ OnRing(m, h, A) /\ m \in RingMemory(Heads, Elems)
  BY <1>1, Constants DEF Layout, Sharing
<1>3. Ring(m, h) = A
  <2>1. m.next \in [Elems -> Elems]
    BY <1>2 DEF RingMemory
  <2> QED BY <1>2, <2>1, Constants, RingIsCycle
<1> QED BY <1>1, <1>3

\* The memory is well typed: its heads are on the rings.
LEMMA LayoutTyped ==
  ASSUME NEW m, NEW R, NEW S, Layout(m, R, S)
  PROVE  m \in [head : [Heads -> S \cup {NULL}], next : [Elems -> Elems], prev : [Elems -> Elems]]
<1>1. \A h \in Heads : m.head[h] \in S \cup {NULL}
  BY DEF Layout, Sharing, OnRing, Heads
<1> QED BY <1>1 DEF Layout, RingMemory

\* The element e is a ring of its own, on none of the three.
Loose(m, e) == e \in Elems /\ Cycle(m.next, m.prev, {e})

\* A loose element joins the ring t.
LEMMA PushLoose ==
  ASSUME NEW m, NEW R, NEW S, Layout(m, R, S), NEW e, e \notin S, Loose(m, e),
         NEW t \in RingNames, NEW Q, More(Q, R, t, e)
  PROVE  Layout(ring_push_back(m, e, t), Q, S \cup {e})
<1> DEFINE n == ring_push_back(m, e, t)
<1>1. PICK A, B : A = R[t] /\ B = {e}
  OBVIOUS
<1>2. /\ m \in RingMemory(Heads, Elems) /\ t \in Heads
      /\ A \in SUBSET Elems /\ OnRing(m, t, A) /\ B \in SUBSET Elems /\ A \cap B = {}
      /\ e \in B /\ Cycle(m.next, m.prev, B)
  BY <1>1, Constants DEF Layout, Sharing, Loose
<1>3. n \in RingMemory(Heads, Elems) /\ OnRing(n, t, A \cup B) /\ Apart(Heads, Elems, m, t, A \cup B, n)
  BY <1>2, Constants, PushRing
<1> HIDE DEF n
<1>4. \A h \in RingNames : OnRing(n, h, Q[h])
  <2> TAKE h \in RingNames
  <2>1. CASE h = t
    BY <1>1, <1>3, <2>1 DEF More
  <2>2. CASE h # t
    <3>1. /\ OnRing(m, h, R[h]) /\ n.head[h] = m.head[h]
          /\ \A s \in R[h] : s \in Elems \ (A \cup B)
      BY <1>1, <1>3, <2>2, Constants DEF Layout, Sharing, Apart
    <3>2. \A s \in R[h] : n.next[s] = m.next[s] /\ n.prev[s] = m.prev[s]
      BY <1>3, <3>1 DEF Apart
    <3>3. PICK D : D = R[h]
      OBVIOUS
    <3>4. OnRing(n, h, D)
      BY <3>1, <3>2, <3>3, OnRingFrame
    <3> QED BY <2>2, <3>3, <3>4 DEF More
  <2> QED BY <2>1, <2>2
<1>5. n.head["elem"] = NULL
  BY <1>3, Constants DEF Layout, Apart
<1>6. S \cup {e} \subseteq Elems
  BY DEF Layout, Loose
<1>7. Sharing(Q, S \cup {e})
  BY SharingMore DEF Layout
<1> QED BY <1>3, <1>4, <1>5, <1>6, <1>7 DEF Layout, n

\* The first free element becomes loose.
LEMMA PopFree ==
  ASSUME NEW m, NEW R, NEW S, Layout(m, R, S), m.head["free"] # NULL, NEW e, e = m.head["free"],
         NEW Q, Less(Q, R, "free", e)
  PROVE  Layout(ring_pop(m, "free"), Q, S \ {e}) /\ e \in R["free"] /\ Loose(ring_pop(m, "free"), e)
<1> DEFINE n == ring_pop(m, "free")
<1>0. "free" \in RingNames
  BY DEF RingNames
<1>1. PICK A : A = R["free"]
  OBVIOUS
<1>2. m \in RingMemory(Heads, Elems) /\ "free" \in Heads /\ A \in SUBSET Elems /\ OnRing(m, "free", A)
  BY <1>0, <1>1, Constants DEF Layout, Sharing
<1>3. /\ n \in RingMemory(Heads, Elems) /\ e \in A
      /\ OnRing(n, "free", A \ {e})
      /\ Cycle(n.next, n.prev, {e}) /\ Apart(Heads, Elems, m, "free", A, n)
  BY <1>2, Constants, PopRing
<1> HIDE DEF n
<1>4. \A h \in RingNames : OnRing(n, h, Q[h])
  <2> TAKE h \in RingNames
  <2>1. CASE h = "free"
    BY <1>1, <1>3, <2>1 DEF Less
  <2>2. CASE h # "free"
    <3>1. /\ OnRing(m, h, R[h]) /\ n.head[h] = m.head[h]
          /\ \A s \in R[h] : s \in Elems \ A
      BY <1>0, <1>1, <1>3, <2>2, Constants DEF Layout, Sharing, Apart
    <3>2. \A s \in R[h] : n.next[s] = m.next[s] /\ n.prev[s] = m.prev[s]
      BY <1>3, <3>1 DEF Apart
    <3>3. PICK D : D = R[h]
      OBVIOUS
    <3>4. OnRing(n, h, D)
      BY <3>1, <3>2, <3>3, OnRingFrame
    <3> QED BY <2>2, <3>3, <3>4 DEF Less
  <2> QED BY <2>1, <2>2
<1>5. n.head["elem"] = NULL
  BY <1>0, <1>3, Constants DEF Layout, Apart
<1>6. Sharing(Q, S \ {e})
  <2>1. PICK t \in RingNames : t = "free"
    BY <1>0
  <2>2. e \in R[t] /\ Sharing(R, S) /\ Less(Q, R, t, e)
    BY <1>1, <1>3, <2>1 DEF Layout
  <2> QED BY <2>2, SharingLess
<1> QED BY <1>1, <1>2, <1>3, <1>4, <1>5, <1>6 DEF Layout, Loose, n
\* An element of one of the two rings of roots becomes loose.
LEMMA PopElem ==
  ASSUME NEW m, NEW R, NEW S, Layout(m, R, S), NEW t \in Ages, NEW e, e \in R[t],
         NEW Q, Less(Q, R, t, e)
  PROVE  Layout(ring_pop_elem(m, e), Q, S \ {e}) /\ Loose(ring_pop_elem(m, e), e)
<1> DEFINE m0 == [m EXCEPT !.head["elem"] = e]
           n == ring_pop(m0, "elem")
           r == ring_pop_elem(m, e)
<1>0. t \in RingNames /\ t # "free" /\ t \in Heads /\ t # "elem" /\ Ages \subseteq Heads \ {"elem"}
  BY DEF RingNames, Ages, Heads
<1>1. PICK A : A = R[t]
  OBVIOUS
<1>2. /\ m \in RingMemory(Heads, Elems) /\ m.head["elem"] = NULL
      /\ A \in SUBSET Elems /\ e \in A /\ e # NULL /\ e \in Elems /\ OnRing(m, t, A)
      /\ Cycle(m.next, m.prev, A)
  BY <1>0, <1>1, Constants DEF Layout, Sharing, OnRing
<1>3. /\ m0 \in RingMemory(Heads, Elems) /\ m0.next = m.next /\ m0.prev = m.prev
      /\ \A k \in Heads : m0.head[k] = IF k = "elem" THEN e ELSE m.head[k]
  BY <1>2, Constants DEF RingMemory
<1>4. m0.head["elem"] = e
  BY <1>3, Constants
<1>5. /\ n \in RingMemory(Heads, Elems)
      /\ Unlinked(Elems, m0, e, A, n) /\ HeadPopped(Heads, m0, "elem", n)
  <2> HIDE DEF m0
  <2> QED BY <1>2, <1>3, <1>4, Constants, PopIs
<1>6. r = [n EXCEPT !.head = [h \in Heads |-> IF h \in Ages /\ n.head[h] = e THEN n.head["elem"]
                                              ELSE IF h = "elem" THEN NULL ELSE n.head[h]]]
  BY DEF ring_pop_elem
<1> HIDE DEF m0, n, r
<1>7. /\ \A k \in Heads \ {"elem"} : n.head[k] = m.head[k]
      /\ n.head["elem"] = IF m.next[e] = e THEN NULL ELSE m.next[e]
  BY <1>3, <1>4, <1>5, Constants DEF HeadPopped
<1>8. /\ r.next = n.next /\ r.prev = n.prev
      /\ \A h \in Heads : r.head[h] = IF h \in Ages /\ n.head[h] = e THEN n.head["elem"]
                                      ELSE IF h = "elem" THEN NULL ELSE n.head[h]
      /\ r \in RingMemory(Heads, Elems)
  BY <1>5, <1>6, Constants DEF RingMemory
<1>9. r.head["elem"] = NULL
  BY <1>0, <1>8, Constants
<1>10. OnRing(r, t, A \ {e})
  <2>1. CASE m.head[t] = e
    <3>1. r.head[t] = n.head["elem"]
      BY <1>0, <1>7, <1>8, <2>1
    <3> QED BY <1>3, <1>5, <1>7, <1>8, <3>1 DEF Unlinked, OnRing
  <2>2. CASE m.head[t] # e
    <3>1. r.head[t] = m.head[t] /\ m.head[t] \in A \ {e}
      BY <1>0, <1>2, <1>7, <1>8, <2>2 DEF OnRing
    <3>2. Cycle(r.next, r.prev, A \ {e})
      BY <1>5, <1>8, <3>1 DEF Unlinked
    <3> QED BY <3>1, <3>2 DEF OnRing
  <2> QED BY <2>1, <2>2
<1>11. \A h \in RingNames : OnRing(r, h, Q[h])
  <2> TAKE h \in RingNames
  <2>1. CASE h = t
    BY <1>1, <1>10, <2>1 DEF Less
  <2>2. CASE h # t
    <3>1. /\ OnRing(m, h, R[h])
          /\ \A s \in R[h] : s \in Elems \ A
          /\ m.head[h] # e /\ h \in Heads /\ h # "elem"
      BY <1>0, <1>1, <1>2, <2>2, Constants DEF Layout, Sharing, OnRing
    <3>2. r.head[h] = m.head[h]
      BY <1>7, <1>8, <3>1
    <3>3. \A s \in R[h] : r.next[s] = m.next[s] /\ r.prev[s] = m.prev[s]
      BY <1>3, <1>5, <1>8, <3>1 DEF Unlinked
    <3>4. PICK D : D = R[h]
      OBVIOUS
    <3>5. OnRing(r, h, D)
      BY <3>1, <3>2, <3>3, <3>4, OnRingFrame
    <3> QED BY <2>2, <3>4, <3>5 DEF Less
  <2> QED BY <2>1, <2>2
<1>12. Sharing(Q, S \ {e})
  BY <1>0, SharingLess DEF Layout
<1>13. Cycle(r.next, r.prev, {e})
  <2>1. PICK nx, pv : nx = r.next /\ pv = r.prev
    OBVIOUS
  <2>2. nx[e] = e /\ pv[e] = e
    BY <1>5, <1>8, <2>1 DEF Unlinked
  <2>3. Cycle(nx, pv, {e})
    BY <2>2, CycleAlone
  <2> QED BY <2>1, <2>3
<1>14. Layout(r, Q, S \ {e}) /\ Loose(r, e)
  BY <1>2, <1>8, <1>9, <1>11, <1>12, <1>13 DEF Layout, Loose
<1> QED BY <1>14 DEF r

\* The element that malloc gives is linked to itself.
LEMMA NewLoose ==
  ASSUME NEW m, NEW R, NEW S, Layout(m, R, S), NEW e \in Elems, e \notin S
  PROVE  Layout(ring_link(m, e, e), R, S) /\ Loose(ring_link(m, e, e), e)
<1> DEFINE n == ring_link(m, e, e)
<1>1. n \in RingMemory(Heads, Elems) /\ Linked(Elems, m, e, e, n)
  BY LinkIs DEF Layout
<1> HIDE DEF n
<1>2. n.head = m.head /\ n.next[e] = e /\ n.prev[e] = e
  BY <1>1 DEF Linked
<1>3. Cycle(n.next, n.prev, {e})
  <2>1. PICK nx, pv : nx = n.next /\ pv = n.prev
    OBVIOUS
  <2>2. Cycle(nx, pv, {e})
    BY <1>2, <2>1, CycleAlone
  <2> QED BY <2>1, <2>2
<1>4. \A h \in RingNames : OnRing(n, h, R[h])
  <2> TAKE h \in RingNames
  <2>1. \A s \in R[h] : s \in Elems /\ s # e
    BY DEF Layout, Sharing
  <2>2. \A s \in R[h] : n.next[s] = m.next[s] /\ n.prev[s] = m.prev[s]
    BY <1>1, <2>1 DEF Linked
  <2>3. PICK D : D = R[h]
    OBVIOUS
  <2>4. OnRing(m, h, D) /\ n.head[h] = m.head[h]
    BY <1>2, <2>3 DEF Layout
  <2>5. OnRing(n, h, D)
    BY <2>2, <2>3, <2>4, OnRingFrame
  <2> QED BY <2>3, <2>5
<1>5. Layout(n, R, S) /\ Loose(n, e)
  BY <1>1, <1>2, <1>3, <1>4 DEF Layout, Loose
<1> QED BY <1>5 DEF n

\* The ring of young values is put at the end of the old ring.
LEMMA PromoteRings ==
  ASSUME NEW m, NEW R, NEW S, Layout(m, R, S), NEW Q,
         Q["young"] = {}, Q["old"] = R["young"] \cup R["old"], Q["free"] = R["free"]
  PROVE  Layout([ring_push_back(m, m.head["young"], "old") EXCEPT !.head["young"] = NULL], Q, S)
<1> DEFINE y == m.head["young"]
           p == ring_push_back(m, y, "old")
           n == [p EXCEPT !.head["young"] = NULL]
<1>0. RingNames = {"young", "old", "free"} /\ RingNames \subseteq Heads
  BY Constants DEF RingNames
<1>1. PICK A, B : A = R["old"] /\ B = R["young"]
  OBVIOUS
<1>2. /\ m \in RingMemory(Heads, Elems) /\ A \in SUBSET Elems /\ B \in SUBSET Elems
      /\ A \cap B = {} /\ OnRing(m, "old", A) /\ OnRing(m, "young", B)
  BY <1>0, <1>1 DEF Layout, Sharing
<1>3. /\ p \in RingMemory(Heads, Elems) /\ OnRing(p, "old", A \cup B)
      /\ Apart(Heads, Elems, m, "old", A \cup B, p)
  <2>1. CASE y = NULL
    <3>1. B = {} /\ p = m
      BY <1>2, <2>1, Constants DEF OnRing, ring_push_back
    <3>2. A \cup B = A
      BY <3>1
    <3> QED BY <1>2, <3>1, <3>2 DEF Apart
  <2>2. CASE y # NULL
    <3>1. y \in B /\ Cycle(m.next, m.prev, B)
      BY <1>2, <2>2 DEF OnRing
    <3>2. "old" \in Heads
      BY <1>0
    <3> QED BY <1>2, <3>1, <3>2, Constants, PushRing
  <2> QED BY <2>1, <2>2
<1> HIDE DEF p
<1>4. /\ n \in RingMemory(Heads, Elems) /\ n.next = p.next /\ n.prev = p.prev
      /\ \A h \in Heads : n.head[h] = IF h = "young" THEN NULL ELSE p.head[h]
  BY <1>3 DEF RingMemory
<1> HIDE DEF n
<1>5. n.head["elem"] = NULL
  BY <1>0, <1>3, <1>4, Constants DEF Layout, Apart
<1>6. OnRing(n, "young", Q["young"])
  BY <1>0, <1>4 DEF OnRing
<1>7. OnRing(n, "old", Q["old"])
  <2>1. Q["old"] = A \cup B
    BY <1>1
  <2>2. n.head["old"] = p.head["old"]
    BY <1>0, <1>4
  <2> QED BY <1>3, <1>4, <2>1, <2>2 DEF OnRing
<1>8. OnRing(n, "free", Q["free"])
  <2>1. PICK D : D = R["free"]
    OBVIOUS
  <2>2. /\ OnRing(m, "free", D) /\ \A s \in D : s \in Elems \ (A \cup B)
    BY <1>0, <1>1, <2>1 DEF Layout, Sharing
  <2>3. n.head["free"] = m.head["free"]
    BY <1>0, <1>3, <1>4 DEF Apart
  <2>4. \A s \in D : n.next[s] = m.next[s] /\ n.prev[s] = m.prev[s]
    BY <1>3, <1>4, <2>2 DEF Apart
  <2>5. OnRing(n, "free", D)
    BY <2>2, <2>3, <2>4, OnRingFrame
  <2> QED BY <2>1, <2>5
<1>9. Sharing(Q, S)
  BY <1>0 DEF Layout, Sharing
<1>10. Layout(n, Q, S)
  BY <1>0, <1>4, <1>5, <1>6, <1>7, <1>8, <1>9 DEF Layout
<1> QED BY <1>10 DEF n, p
Freed(m, names, freed) ==
  [head |-> [h \in Heads |-> IF h \in names THEN NULL ELSE m.head[h]],
   next |-> [e \in Elems |-> IF e \in freed THEN e ELSE m.next[e]],
   prev |-> [e \in Elems |-> IF e \in freed THEN e ELSE m.prev[e]]]
Emptied(Q, R, names) == \A h \in RingNames : Q[h] = IF h \in names THEN {} ELSE R[h]

\* Whole rings are freed.
LEMMA FreeRings ==
  ASSUME NEW m, NEW R, NEW S, Layout(m, R, S), NEW names \in SUBSET RingNames,
         NEW freed, freed = UNION {R[h] : h \in names},
         NEW n, n = Freed(m, names, freed),
         NEW Q, Emptied(Q, R, names)
  PROVE  Layout(n, Q, S \ freed)
<1>1. n \in RingMemory(Heads, Elems) /\ n.head["elem"] = NULL
  BY Constants DEF Layout, RingMemory, Freed
<1>2. \A h \in RingNames : h \notin names => R[h] \cap freed = {}
  <2> SUFFICES ASSUME NEW h \in RingNames, h \notin names, NEW s \in R[h], s \in freed
               PROVE  FALSE
    OBVIOUS
  <2>1. PICK k \in names : s \in R[k]
    OBVIOUS
  <2> QED BY <2>1 DEF Layout, Sharing
<1>3. \A h \in RingNames : OnRing(n, h, Q[h])
  <2> TAKE h \in RingNames
  <2>1. CASE h \in names
    BY <2>1, Constants DEF Emptied, OnRing, Freed
  <2>2. CASE h \notin names
    <3>1. PICK D : D = R[h]
      OBVIOUS
    <3>2. OnRing(m, h, D) /\ n.head[h] = m.head[h]
      BY <2>2, <3>1, Constants DEF Layout, Freed
    <3>3. \A s \in D : n.next[s] = m.next[s] /\ n.prev[s] = m.prev[s]
      <4>1. \A s \in D : s \in Elems /\ s \notin freed
        BY <1>2, <2>2, <3>1 DEF Layout, Sharing
      <4> QED BY <4>1 DEF Freed
    <3>4. OnRing(n, h, D)
      BY <3>2, <3>3, OnRingFrame
    <3> QED BY <2>2, <3>1, <3>4 DEF Emptied
  <2> QED BY <2>1, <2>2
<1>4. Sharing(Q, S \ freed)
  <2>1. ASSUME NEW h \in RingNames, NEW s \in Q[h] PROVE s \in S \ freed
    BY <1>2, <2>1 DEF Layout, Sharing, Emptied
  <2>2. ASSUME NEW h \in RingNames, NEW k \in RingNames, h # k, NEW s \in Q[h], s \in Q[k]
        PROVE  FALSE
    BY <2>2 DEF Layout, Sharing, Emptied
  <2>3. ASSUME NEW s \in S \ freed PROVE \E h \in RingNames : s \in Q[h]
    <3>1. PICK h \in RingNames : s \in R[h]
      BY <2>3 DEF Layout, Sharing
    <3>2. h \notin names
      BY <2>3, <3>1
    <3> QED BY <3>1, <3>2 DEF Emptied
  <2> QED BY <2>1, <2>2, <2>3 DEF Sharing
<1> QED BY <1>1, <1>3, <1>4 DEF Layout

-----------------------------------------------------------------------------
(* Every action preserves the invariant.                                   *)

LEMMA InitInv == Init => DllInv
<1> SUFFICES ASSUME Init PROVE DllInv
  OBVIOUS
<1> DEFINE R == [h \in RingNames |-> {}]
<1>1. Layout(rings, R, mapped)
  BY Constants DEF Init, Layout, RingMemory, OnRing, Sharing
<1>2. TypeOK
  BY Constants DEF Init, TypeOK
<1>3. Sorted(R) /\ Phases
  BY Constants DEF Init, Sorted, Phases, RingNames, Values, Ages
<1> HIDE DEF R
<1>4. R \in [RingNames -> SUBSET Elems]
  BY DEF R
<1> QED BY <1>1, <1>2, <1>3, <1>4 DEF DllInv, Held

Typed(n, S) ==
  /\ S \subseteq Elems /\ n.head["elem"] = NULL
  /\ n \in [head : [Heads -> S \cup {NULL}], next : [Elems -> Elems], prev : [Elems -> Elems]]

\* The rings after a step, once laid out, are well typed.
LEMMA RingsTyped ==
  ASSUME NEW n, NEW S, NEW R, Layout(n, R, S)
  PROVE  Typed(n, S)
BY LayoutTyped DEF Layout, Typed

LEMMA SetupKeeps == ASSUME DllInv, dll_boxroot_setup PROVE DllInv'
<1>1. PICK R \in [RingNames -> SUBSET Elems] : Held(R)
  BY DEF DllInv
<1>2. PICK m, S, n : m = rings /\ S = mapped /\ n = rings'
  OBVIOUS
<1>3. /\ S = {} /\ Layout(m, R, S) /\ mapped' = S
      /\ n = [m EXCEPT !.head = [h \in Heads |-> NULL]]
  BY <1>1, <1>2 DEF Held, Phases, dll_boxroot_setup
<1>4. /\ n \in RingMemory(Heads, Elems) /\ \A h \in Heads : n.head[h] = NULL
  BY <1>3 DEF Layout, RingMemory
<1>5. Layout(n, R, S)
  <2>1. \A h \in RingNames : R[h] = {}
    BY <1>3 DEF Layout, Sharing
  <2> QED BY <1>3, <1>4, <2>1, Constants DEF Layout, OnRing
<1>6. Layout(rings, R, mapped)' /\ Typed(rings, mapped)'
  BY <1>2, <1>3, <1>5, RingsTyped
<1>7. TypeOK' /\ Sorted(R)' /\ Phases'
  BY <1>1, <1>6 DEF Held, TypeOK, Typed, Sorted, Phases, dll_boxroot_setup
<1> QED BY <1>6, <1>7 DEF DllInv, Held

\* The rings stay.
LEMMA SameRings ==
  ASSUME NEW R \in [RingNames -> SUBSET Elems], Held(R), UNCHANGED <<rings, mapped>>,
         TypeOK', Sorted(R)', Phases'
  PROVE  DllInv'
<1>1. Layout(rings, R, mapped)'
  BY DEF Held
<1> QED BY <1>1 DEF DllInv, Held

LEMMA NoMemoryKeeps == ASSUME DllInv, CreateNoMemory PROVE DllInv'
<1>1. PICK R \in [RingNames -> SUBSET Elems] : Held(R)
  BY DEF DllInv
<1>2. TypeOK' /\ Sorted(R)' /\ Phases' /\ UNCHANGED <<rings, mapped>>
  BY <1>1 DEF Held, TypeOK, Sorted, Phases, CreateNoMemory
<1> QED BY <1>1, <1>2, SameRings

LEMMA StartKeeps == ASSUME DllInv, NEW k \in {"minor", "major"}, StartGC(k) PROVE DllInv'
<1>1. PICK R \in [RingNames -> SUBSET Elems] : Held(R)
  BY DEF DllInv
<1>2. TypeOK' /\ Sorted(R)' /\ Phases' /\ UNCHANGED <<rings, mapped>>
  BY <1>1 DEF Held, TypeOK, Sorted, Phases, StartGC
<1> QED BY <1>1, <1>2, SameRings

LEMMA EndKeeps == ASSUME DllInv, EndGC PROVE DllInv'
<1>1. PICK R \in [RingNames -> SUBSET Elems] : Held(R)
  BY DEF DllInv
<1>2. \A e \in Elems :
        /\ slot'[e] = IF slot[e] = "marked" THEN "old" ELSE slot[e]
        /\ slot'[e] \in Values \cup {NULL}
  BY <1>1 DEF Held, TypeOK, Phases, EndGC, Values, Ages
<1>3. slot' \in [Elems -> Values \cup {NULL}]
  BY <1>2 DEF EndGC
<1>4. TypeOK'
  BY <1>1, <1>3 DEF Held, TypeOK, EndGC
<1>5. Sorted(R)'
  <2>1. R["old"] \subseteq Elems
    BY DEF RingNames
  <2> QED BY <1>1, <1>2, <2>1, Constants DEF Held, Sorted, EndGC, Values, Ages
<1>6. Phases'
  BY <1>1, <1>2, Constants DEF Held, Phases, EndGC, Values, Ages
<1> QED BY <1>1, <1>4, <1>5, <1>6, SameRings DEF EndGC
LEMMA CreateKeeps == ASSUME DllInv, NEW v \in Ages, dll_boxroot_create(v) PROVE DllInv'
<1>1. PICK R \in [RingNames -> SUBSET Elems] : Held(R)
  BY DEF DllInv
<1>2. PICK c \in create_elem : /\ slot' = [slot EXCEPT ![c[1]] = v]
                               /\ rings' = track_elem(c[2], c[1], v)
                               /\ mapped' = mapped \cup {c[1]}
  BY DEF dll_boxroot_create
<1>3. PICK m, S, n : m = rings /\ S = mapped /\ n = c[2]
  OBVIOUS
<1>4. PICK e : e = c[1]
  OBVIOUS
<1> DEFINE R1 == [h \in RingNames |-> IF h = "free" THEN R[h] \ {e} ELSE R[h]]
           S1 == S \ {e}
           Q == [h \in RingNames |-> IF h = v THEN R1[h] \cup {e} ELSE R1[h]]
<1>5. Layout(m, R, S)
  BY <1>1, <1>3 DEF Held
<1>6. Layout(n, R1, S1) /\ Loose(n, e) /\ slot[e] = NULL /\ e \in Elems
  <2>1. CASE m.head["free"] # NULL
    <3>1. e = m.head["free"] /\ n = ring_pop(m, "free")
      BY <1>3, <1>4, <2>1 DEF create_elem
    <3>2. Less(R1, R, "free", e)
      BY DEF Less
    <3> HIDE DEF R1
    <3>3. Layout(n, R1, S \ {e}) /\ e \in R["free"] /\ Loose(n, e)
      BY <1>5, <2>1, <3>1, <3>2, PopFree
    <3>4. slot[e] = NULL
      BY <1>1, <3>3 DEF Held, Sorted, Loose
    <3> QED BY <3>3, <3>4 DEF Loose
  <2>2. CASE m.head["free"] = NULL
    <3>1. e \in Elems /\ e \notin S /\ n = ring_link(m, e, e)
      BY <1>3, <1>4, <2>2 DEF create_elem
    <3>2. Layout(n, R, S) /\ Loose(n, e)
      BY <1>5, <3>1, NewLoose
    <3>3. R1 = R /\ S1 = S
      BY <1>5, <3>1 DEF Layout, Sharing
    <3>4. slot[e] = NULL
      BY <1>1, <1>3, <3>1 DEF Held, Sorted
    <3> HIDE DEF R1, S1
    <3> QED BY <3>1, <3>2, <3>3, <3>4
  <2> QED BY <2>1, <2>2
<1>7. PICK p : p = track_elem(n, e, v)
  OBVIOUS
<1>8. Layout(p, Q, S1 \cup {e})
  <2>1. v \in RingNames /\ p = ring_push_back(n, e, v)
    BY <1>7 DEF Ages, RingNames, track_elem
  <2>2. More(Q, R1, v, e) /\ e \notin S1
    BY DEF More
  <2> HIDE DEF Q, R1, S1
  <2> QED BY <1>6, <2>1, <2>2, PushLoose
<1>9. Q \in [RingNames -> SUBSET Elems]
  BY <1>6
<1>10. rings' = p /\ mapped' = S1 \cup {e}
  BY <1>2, <1>3, <1>4, <1>7
<1>11. Layout(rings, Q, mapped)' /\ Typed(rings, mapped)'
  <2> HIDE DEF Q, S1
  <2> QED BY <1>8, <1>10, RingsTyped
<1>12. slot' = [slot EXCEPT ![e] = v] /\ v \in Values /\ v # NULL
  BY <1>2, <1>4, Constants DEF Values
<1>13. TypeOK'
  BY <1>1, <1>11, <1>12 DEF Held, TypeOK, Typed, dll_boxroot_create
<1>14. Sorted(Q)'
  <2>1. \A x \in Elems : slot'[x] = IF x = e THEN v ELSE slot[x]
    BY <1>1, <1>12 DEF Held, TypeOK
  <2>2. \A x \in Elems : x \in Q["free"] <=> x \in R["free"] /\ x # e
    BY <1>6 DEF RingNames, Ages
  <2>3. \A x \in Q["old"] : x \in Elems /\ (x \in R["old"] \/ (x = e /\ v = "old"))
    BY <1>6 DEF RingNames
  <2>4. \A x \in Elems : x \in mapped' <=> x \in mapped \/ x = e
    BY <1>2, <1>4
  <2> HIDE DEF Q
  <2>5. \A x \in Elems : slot'[x] = NULL <=> x \notin mapped' \/ x \in Q["free"]
    <3> TAKE x \in Elems
    <3>1. CASE x = e
      BY <1>12, <2>1, <2>2, <2>4, <3>1
    <3>2. CASE x # e
      BY <1>1, <2>1, <2>2, <2>4, <3>2 DEF Held, Sorted
    <3> QED BY <3>1, <3>2
  <2>6. \A x \in Q["old"] : slot'[x] # "young"
    <3> TAKE x \in Q["old"]
    <3>1. CASE x = e /\ v = "old"
      BY <2>1, <2>3, <3>1
    <3>2. CASE x \in R["old"]
      <4>1. slot[x] # "young" /\ slot[e] = NULL
        BY <1>1, <1>6, <3>2 DEF Held, Sorted
      <4>2. x # e
        <5>1. x \in mapped /\ x \notin R["free"]
          BY <1>3, <1>5, <3>2 DEF Layout, Sharing, RingNames
        <5> QED BY <1>1, <1>6, <5>1, <2>3 DEF Held, Sorted
      <4> QED BY <2>1, <2>3, <4>1, <4>2
    <3> QED BY <2>3, <3>1, <3>2
  <2> QED BY <2>5, <2>6 DEF Sorted
<1>15. Phases'
  <2>1. \A x \in Elems : slot'[x] = IF x = e THEN v ELSE slot[x]
    BY <1>1, <1>12 DEF Held, TypeOK
  <2> QED BY <1>1, <2>1 DEF Held, Phases, dll_boxroot_create, CanCall, Ages
<1> HIDE DEF Q
<1> QED BY <1>9, <1>11, <1>13, <1>14, <1>15 DEF DllInv, Held

\* A root is on the young ring or on the old one.
LEMMA RootOnRing ==
  ASSUME NEW R, Held(R), NEW e \in Live
  PROVE  e \in Elems /\ (e \in R["young"] \/ e \in R["old"])
<1>1. e \in mapped /\ e \in Elems /\ slot[e] # NULL
  BY DEF Live, Held, TypeOK
<1>2. PICK h \in RingNames : e \in R[h]
  BY <1>1 DEF Held, Layout, Sharing
<1>3. h # "free"
  BY <1>1, <1>2 DEF Held, Sorted
<1> QED BY <1>1, <1>2, <1>3 DEF RingNames

LEMMA DeleteKeeps == ASSUME DllInv, NEW e \in Elems, dll_boxroot_delete(e) PROVE DllInv'
<1>1. PICK R \in [RingNames -> SUBSET Elems] : Held(R)
  BY DEF DllInv
<1>2. PICK t \in Ages : e \in R[t]
  <2>1. e \in Live
    BY DEF dll_boxroot_delete
  <2> QED BY <1>1, <2>1, RootOnRing DEF Ages
<1>3. PICK m, S, n : m = rings /\ S = mapped /\ n = ring_pop_elem(m, e)
  OBVIOUS
<1>4. PICK p : p = ring_push_back(n, e, "free")
  OBVIOUS
<1> DEFINE R1 == [h \in RingNames |-> IF h = t THEN R[h] \ {e} ELSE R[h]]
           Q == [h \in RingNames |-> IF h = "free" THEN R1[h] \cup {e} ELSE R1[h]]
<1>5. rings' = p /\ slot' = [slot EXCEPT ![e] = NULL]
  BY <1>3, <1>4 DEF dll_boxroot_delete, delete_elem
<1>6. Layout(m, R, S) /\ e \in S
  BY <1>1, <1>3 DEF Held, dll_boxroot_delete, Live
<1>7. Layout(n, R1, S \ {e}) /\ Loose(n, e)
  <2>1. Less(R1, R, t, e)
    BY DEF Less
  <2> HIDE DEF R1
  <2> QED BY <1>2, <1>3, <1>6, <2>1, PopElem
<1>8. Layout(p, Q, (S \ {e}) \cup {e})
  <2>1. "free" \in RingNames /\ e \notin S \ {e} /\ More(Q, R1, "free", e)
    BY DEF RingNames, More
  <2>2. PICK S1 : S1 = S \ {e}
    OBVIOUS
  <2> HIDE DEF Q, R1
  <2>3. Layout(p, Q, S1 \cup {e})
    BY <1>4, <1>7, <2>1, <2>2, PushLoose
  <2> QED BY <2>2, <2>3
<1>9. mapped' = (S \ {e}) \cup {e} /\ mapped' = mapped
  BY <1>3, <1>6 DEF dll_boxroot_delete
<1>10. Q \in [RingNames -> SUBSET Elems]
  OBVIOUS
<1>11. Layout(rings, Q, mapped)' /\ Typed(rings, mapped)'
  <2> HIDE DEF Q
  <2> QED BY <1>5, <1>8, <1>9, RingsTyped
<1>12. \A x \in Elems : slot'[x] = IF x = e THEN NULL ELSE slot[x]
  BY <1>1, <1>5 DEF Held, TypeOK
<1>13. TypeOK'
  BY <1>1, <1>5, <1>11 DEF Held, TypeOK, Typed, dll_boxroot_delete
<1>14. Sorted(Q)'
  <2>1. \A x \in Elems : x \in Q["free"] <=> x \in R["free"] \/ x = e
    BY <1>2 DEF RingNames, Ages
  <2>2. Q["old"] \subseteq R["old"] /\ Q["old"] \subseteq Elems
    BY <1>2 DEF RingNames, Ages
  <2> HIDE DEF Q
  <2>3. \A x \in Elems : slot'[x] = NULL <=> x \notin mapped' \/ x \in Q["free"]
    BY <1>1, <1>9, <1>12, <2>1 DEF Held, Sorted
  <2>4. \A x \in Q["old"] : slot'[x] # "young"
    BY <1>1, <1>12, <2>2, Constants DEF Held, Sorted, Values, Ages
  <2> QED BY <2>3, <2>4 DEF Sorted
<1>15. Phases'
  BY <1>1, <1>12, Constants DEF Held, Phases, dll_boxroot_delete, Values, Ages
<1> HIDE DEF Q
<1> QED BY <1>10, <1>11, <1>13, <1>14, <1>15 DEF DllInv, Held
LEMMA ModifyKeeps ==
  ASSUME DllInv, NEW e \in Elems, NEW v \in Ages, dll_boxroot_modify(e, v) PROVE DllInv'
<1>1. PICK R \in [RingNames -> SUBSET Elems] : Held(R)
  BY DEF DllInv
<1>2. PICK t \in Ages : e \in R[t]
  <2>1. e \in Live
    BY DEF dll_boxroot_modify
  <2> QED BY <1>1, <2>1, RootOnRing DEF Ages
<1>3. /\ \A x \in Elems : slot'[x] = IF x = e THEN v ELSE slot[x]
      /\ slot' \in [Elems -> Values \cup {NULL}]
      /\ e \in mapped /\ slot[e] # NULL /\ v # NULL
  BY <1>1, Constants DEF Held, TypeOK, dll_boxroot_modify, Live, Values
<1>4. Phases'
  BY <1>1, <1>3 DEF Held, Phases, dll_boxroot_modify, CanCall, Ages
<1>5. CASE InPlace(slot[e], v)
  <2>1. TypeOK' /\ UNCHANGED <<rings, mapped>>
    BY <1>1, <1>3, <1>5 DEF Held, TypeOK, dll_boxroot_modify
  <2>2. Sorted(R)'
    <3>1. \A x \in Elems : slot'[x] = NULL <=> slot[x] = NULL
      BY <1>3
    <3>2. \A x \in R["old"] : x \in Elems
      BY DEF RingNames
    <3>3. \A x \in R["old"] : slot'[x] # "young"
      BY <1>1, <1>3, <1>5, <3>2 DEF Held, Sorted, InPlace
    <3> QED BY <1>1, <2>1, <3>1, <3>3 DEF Held, Sorted
  <2> QED BY <1>1, <1>4, <2>1, <2>2, SameRings
<1>6. CASE ~ InPlace(slot[e], v)
  <2>1. v = "young"
    BY <1>6 DEF InPlace
  <2>2. PICK m, S, n : m = rings /\ S = mapped /\ n = ring_pop_elem(m, e)
    OBVIOUS
  <2>3. PICK p : p = ring_push_back(n, e, "young")
    OBVIOUS
  <2> DEFINE R1 == [h \in RingNames |-> IF h = t THEN R[h] \ {e} ELSE R[h]]
             Q == [h \in RingNames |-> IF h = "young" THEN R1[h] \cup {e} ELSE R1[h]]
  <2>4. rings' = p
    BY <1>6, <2>1, <2>2, <2>3 DEF dll_boxroot_modify, track_elem
  <2>5. Layout(m, R, S) /\ e \in S
    BY <1>1, <1>3, <2>2 DEF Held
  <2>6. Layout(n, R1, S \ {e}) /\ Loose(n, e)
    <3>1. Less(R1, R, t, e)
      BY DEF Less
    <3> HIDE DEF R1
    <3> QED BY <1>2, <2>2, <2>5, <3>1, PopElem
  <2>7. Layout(p, Q, (S \ {e}) \cup {e})
    <3>1. "young" \in RingNames /\ e \notin S \ {e} /\ More(Q, R1, "young", e)
      BY DEF RingNames, More
    <3>2. PICK S1 : S1 = S \ {e}
      OBVIOUS
    <3> HIDE DEF Q, R1
    <3>3. Layout(p, Q, S1 \cup {e})
      BY <2>3, <2>6, <3>1, <3>2, PushLoose
    <3> QED BY <3>2, <3>3
  <2>8. mapped' = (S \ {e}) \cup {e} /\ mapped' = mapped
    BY <2>2, <2>5 DEF dll_boxroot_modify
  <2>9. Q \in [RingNames -> SUBSET Elems]
    OBVIOUS
  <2>10. Layout(rings, Q, mapped)' /\ Typed(rings, mapped)'
    <3> HIDE DEF Q
    <3> QED BY <2>4, <2>7, <2>8, RingsTyped
  <2>11. TypeOK'
    BY <1>1, <1>3, <2>10 DEF Held, TypeOK, Typed, dll_boxroot_modify
  <2>12. Sorted(Q)'
    <3>1. \A x \in Elems : x \in Q["free"] <=> x \in R["free"]
      BY <1>2 DEF RingNames, Ages
    <3>2. \A x \in Q["old"] : x \in R["old"] /\ x # e /\ x \in Elems
      <4>1. t = "old" \/ e \notin R["old"]
        BY <1>1, <1>2 DEF Held, Layout, Sharing, RingNames, Ages
      <4> QED BY <1>2, <4>1 DEF RingNames, Ages
    <3> HIDE DEF Q
    <3>3. \A x \in Elems : slot'[x] = NULL <=> slot[x] = NULL
      BY <1>3
    <3>4. \A x \in Elems : slot'[x] = NULL <=> x \notin mapped' \/ x \in Q["free"]
      BY <1>1, <2>8, <3>1, <3>3 DEF Held, Sorted
    <3>5. \A x \in Q["old"] : slot'[x] # "young"
      BY <1>1, <1>3, <3>2 DEF Held, Sorted
    <3> QED BY <3>4, <3>5 DEF Sorted
  <2> HIDE DEF Q
  <2> QED BY <1>4, <2>9, <2>10, <2>11, <2>12 DEF DllInv, Held
<1> QED BY <1>5, <1>6

\* free_rings(names) frees the elements of these rings.
LEMMA FreeRingsKeeps ==
  ASSUME NEW R \in [RingNames -> SUBSET Elems], Held(R), NEW names \in SUBSET RingNames,
         free_rings(names), NEW Q \in [RingNames -> SUBSET Elems], Emptied(Q, R, names)
  PROVE  /\ Layout(rings, Q, mapped)' /\ Typed(rings, mapped)'
         /\ mapped' = mapped \ UNION {R[h] : h \in names}
<1>1. PICK m, S, n : m = rings /\ S = mapped /\ n = rings'
  OBVIOUS
<1>2. PICK freed : freed = UNION {Ring(m, h) : h \in names}
  OBVIOUS
<1>3. Layout(m, R, S)
  BY <1>1 DEF Held
<1>4. freed = UNION {R[h] : h \in names}
  <2>1. \A h \in RingNames : Ring(m, h) = R[h]
    BY <1>3, LayoutIsRings
  <2> QED BY <1>2, <2>1
<1>5. /\ mapped' = S \ freed
      /\ n = Freed(m, names, freed)
  BY <1>1, <1>2 DEF free_rings, Freed
<1>6. Layout(n, Q, S \ freed)
  BY <1>3, <1>4, <1>5, FreeRings
<1>7. Layout(rings, Q, mapped)' /\ Typed(rings, mapped)'
  BY <1>1, <1>5, <1>6, RingsTyped
<1> QED BY <1>1, <1>4, <1>5, <1>7

LEMMA TeardownKeeps == ASSUME DllInv, dll_boxroot_teardown PROVE DllInv'
<1>1. PICK R \in [RingNames -> SUBSET Elems] : Held(R)
  BY DEF DllInv
<1> DEFINE Q == [h \in RingNames |-> {}]
<1>2. Q \in [RingNames -> SUBSET Elems] /\ Emptied(Q, R, RingNames)
  BY DEF Emptied
<1>3. Q["old"] = {}
  BY DEF RingNames
<1> HIDE DEF Q
<1>4. /\ Layout(rings, Q, mapped)' /\ Typed(rings, mapped)'
      /\ mapped' = mapped \ UNION {R[h] : h \in RingNames}
  BY <1>1, <1>2, FreeRingsKeeps DEF dll_boxroot_teardown
<1>5. mapped' = {}
  <2>1. \A e \in mapped : \E h \in RingNames : e \in R[h]
    BY <1>1 DEF Held, Layout, Sharing
  <2> QED BY <1>4, <2>1
<1>6. slot' = [e \in Elems |-> NULL]
  BY <1>5 DEF dll_boxroot_teardown
<1>7. TypeOK'
  BY <1>1, <1>4, <1>6 DEF Held, TypeOK, Typed, dll_boxroot_teardown
<1>8. Sorted(Q)' /\ Phases'
  BY <1>1, <1>3, <1>5, <1>6, Constants DEF Held, Sorted, Phases, dll_boxroot_teardown, Values, Ages
<1> QED BY <1>2, <1>4, <1>7, <1>8 DEF DllInv, Held

\* What the collector makes of the values of the elements.
ScannedBy(X) ==
  /\ slot' \in [Elems -> Values \cup {NULL}]
  /\ \A e \in Elems :
       slot'[e] = IF e \notin X THEN slot[e]
                  ELSE IF gc = "minor" /\ slot[e] = "young" THEN "old"
                  ELSE IF gc = "major" /\ slot[e] = "old" THEN "marked" ELSE slot[e]

LEMMA ScanReads ==
  ASSUME NEW R \in [RingNames -> SUBSET Elems], Held(R), NEW names \in SUBSET RingNames,
         scan_ring(names)
  PROVE  ScannedBy(UNION {R[h] : h \in names})
<1>1. PICK m, S : m = rings /\ S = mapped
  OBVIOUS
<1>2. \A h \in RingNames : Ring(m, h) = R[h]
  <2>1. Layout(m, R, S)
    BY <1>1 DEF Held
  <2> QED BY <2>1, LayoutIsRings
<1>3. \A e \in Elems : (\A h \in names : e \notin Ring(rings, h)) <=> e \notin UNION {R[h] : h \in names}
  BY <1>1, <1>2
<1>4. \A e \in Elems :
        slot'[e] = IF e \notin UNION {R[h] : h \in names} THEN slot[e]
                   ELSE IF gc = "minor" /\ slot[e] = "young" THEN "old"
                   ELSE IF gc = "major" /\ slot[e] = "old" THEN "marked" ELSE slot[e]
  BY <1>3 DEF scan_ring
<1>5. slot' \in [Elems -> Values \cup {NULL}]
  <2>1. \A e \in Elems : slot'[e] \in Values \cup {NULL}
    BY <1>4 DEF Held, TypeOK, Values, Ages
  <2> QED BY <2>1 DEF scan_ring
<1> QED BY <1>4, <1>5 DEF ScannedBy

LEMMA ScanKeeps == ASSUME DllInv, scanning_callback PROVE DllInv'
<1>1. PICK R \in [RingNames -> SUBSET Elems] : Held(R)
  BY DEF DllInv
<1>2. CASE setup /\ hooks = "installed" /\ gc = "minor"
  <2>1. scan_ring({"young"}) /\ rings' = Promoted /\ UNCHANGED <<mapped, setup, hooks, gc>> /\ scanned'
    BY <1>2 DEF scanning_callback, scan_roots
  <2>2. ScannedBy(R["young"])
    <3>1. ScannedBy(UNION {R[h] : h \in {"young"}})
      BY <1>1, <2>1, ScanReads DEF RingNames
    <3>2. UNION {R[h] : h \in {"young"}} = R["young"]
      OBVIOUS
    <3> QED BY <3>1, <3>2
  <2> DEFINE Q == [h \in RingNames |-> IF h = "young" THEN {}
                                      ELSE IF h = "old" THEN R["young"] \cup R["old"] ELSE R["free"]]
  <2>3. PICK m, S, n : m = rings /\ S = mapped /\ n = rings'
    OBVIOUS
  <2>4. /\ Q["young"] = {} /\ Q["old"] = R["young"] \cup R["old"] /\ Q["free"] = R["free"]
        /\ Q \in [RingNames -> SUBSET Elems]
    BY DEF RingNames
  <2> HIDE DEF Q
  <2>5. Layout(n, Q, S)
    <3>1. n = [ring_push_back(m, m.head["young"], "old") EXCEPT !.head["young"] = NULL]
      BY <2>1, <2>3 DEF Promoted
    <3>2. Layout(m, R, S)
      BY <1>1, <2>3 DEF Held
    <3>3. Layout([ring_push_back(m, m.head["young"], "old") EXCEPT !.head["young"] = NULL], Q, S)
      BY <2>4, <3>2, PromoteRings
    <3> QED BY <3>1, <3>3
  <2>6. Layout(rings, Q, mapped)' /\ Typed(rings, mapped)'
    BY <2>1, <2>3, <2>5, RingsTyped
  <2>7. TypeOK'
    BY <1>1, <2>1, <2>2, <2>6 DEF Held, TypeOK, Typed, ScannedBy
  <2>8. \A e \in Elems : slot'[e] # "young"
    <3> TAKE e \in Elems
    <3>1. CASE slot[e] # "young"
      BY <2>2, <3>1 DEF ScannedBy
    <3>2. CASE slot[e] = "young"
      <4>1. e \in Live
        BY <1>1, <3>2, Constants DEF Held, Sorted, Live, Values, Ages
      <4>2. e \in R["young"]
        BY <1>1, <3>2, <4>1, RootOnRing DEF Held, Sorted
      <4> QED BY <1>2, <2>2, <3>2, <4>2 DEF ScannedBy
    <3> QED BY <3>1, <3>2
  <2>9. Sorted(Q)'
    <3>1. \A e \in Elems : slot'[e] = NULL <=> slot[e] = NULL
      BY <2>2, Constants DEF ScannedBy, Values, Ages
    <3>2. \A e \in Q["old"] : e \in Elems
      BY <2>4 DEF RingNames
    <3> QED BY <1>1, <2>1, <2>4, <2>8, <3>1, <3>2 DEF Held, Sorted
  <2>10. Phases'
    BY <1>1, <1>2, <2>1, <2>2, <2>8 DEF Held, Phases, ScannedBy
  <2> QED BY <2>4, <2>6, <2>7, <2>9, <2>10 DEF DllInv, Held
<1>3. CASE setup /\ hooks = "installed" /\ gc = "major"
  <2>1. /\ scan_ring({"young", "old"}) /\ free_rings({"free"})
        /\ UNCHANGED <<setup, hooks, gc>> /\ scanned'
    BY <1>3 DEF scanning_callback, scan_roots
  <2>2. ScannedBy(R["young"] \cup R["old"])
    <3>1. ScannedBy(UNION {R[h] : h \in {"young", "old"}})
      BY <1>1, <2>1, ScanReads DEF RingNames
    <3>2. UNION {R[h] : h \in {"young", "old"}} = R["young"] \cup R["old"]
      OBVIOUS
    <3> QED BY <3>1, <3>2
  <2> DEFINE Q == [h \in RingNames |-> IF h = "free" THEN {} ELSE R[h]]
  <2>3. /\ Q["old"] = R["old"] /\ Q["free"] = {} /\ Emptied(Q, R, {"free"})
        /\ Q \in [RingNames -> SUBSET Elems]
    BY DEF RingNames, Emptied
  <2> HIDE DEF Q
  <2>4. /\ Layout(rings, Q, mapped)' /\ Typed(rings, mapped)'
        /\ mapped' = mapped \ R["free"]
    <3>1. {"free"} \in SUBSET RingNames /\ UNION {R[h] : h \in {"free"}} = R["free"]
      BY DEF RingNames
    <3> QED BY <1>1, <2>1, <2>3, <3>1, FreeRingsKeeps
  <2>5. TypeOK'
    BY <1>1, <2>1, <2>2, <2>4 DEF Held, TypeOK, Typed, ScannedBy
  <2>6. \A e \in Elems : slot'[e] # "young" /\ slot'[e] # "old" /\ slot'[e] # "dead"
    <3> TAKE e \in Elems
    <3>1. CASE slot[e] = "old"
      <4>1. e \in Live
        BY <1>1, <3>1, Constants DEF Held, Sorted, Live, Values, Ages
      <4> QED BY <1>1, <1>3, <2>2, <3>1, <4>1, RootOnRing DEF ScannedBy
    <3>2. CASE slot[e] # "old"
      BY <1>1, <1>3, <2>2, <3>2 DEF ScannedBy, Held, Phases
    <3> QED BY <3>1, <3>2
  <2>7. Sorted(Q)'
    <3>1. \A e \in Elems : slot'[e] = NULL <=> slot[e] = NULL
      BY <2>2, Constants DEF ScannedBy, Values, Ages
    <3>2. \A e \in Q["old"] : e \in Elems
      BY <2>3 DEF RingNames
    <3> QED BY <1>1, <2>3, <2>4, <2>6, <3>1, <3>2 DEF Held, Sorted
  <2>8. Phases'
    BY <1>1, <1>3, <2>1, <2>6 DEF Held, Phases
  <2> QED BY <2>3, <2>4, <2>5, <2>7, <2>8 DEF DllInv, Held
<1>4. CASE ~ (setup /\ hooks = "installed")
  <2>1. /\ UNCHANGED <<rings, slot, mapped, setup, gc>> /\ gc # "none"
        /\ \/ hooks = "itself" /\ hooks' = "crashed" /\ UNCHANGED scanned
           \/ hooks # "itself" /\ UNCHANGED hooks /\ scanned' = TRUE
    BY <1>4 DEF scanning_callback
  <2>2. CASE hooks = "itself"
    <3>1. TypeOK' /\ Sorted(R)' /\ Phases'
      BY <1>1, <2>1, <2>2 DEF Held, TypeOK, Sorted, Phases
    <3> QED BY <1>1, <2>1, <3>1, SameRings
  <2>3. CASE hooks # "itself"
    <3>1. ~ setup
      BY <1>1, <1>4, <2>3 DEF Held, TypeOK, Phases, scanning_callback
    <3>2. \A e \in Elems : slot[e] = NULL
      BY <1>1, <3>1 DEF Held, Sorted, Phases
    <3>3. TypeOK' /\ Sorted(R)'
      BY <1>1, <2>1, <2>3 DEF Held, TypeOK, Sorted
    <3>4. Phases'
      BY <1>1, <2>1, <2>3, <3>2, Constants DEF Held, Phases, Values, Ages
    <3> QED BY <1>1, <2>1, <3>3, <3>4, SameRings
  <2> QED BY <2>2, <2>3
<1>5. gc = "minor" \/ gc = "major"
  BY <1>1 DEF Held, TypeOK, scanning_callback
<1> QED BY <1>2, <1>3, <1>4, <1>5
LEMMA NextInv == DllInv /\ [Next]_vars => DllInv'
<1> SUFFICES ASSUME DllInv, [Next]_vars PROVE DllInv'
  OBVIOUS
<1>1. CASE dll_boxroot_setup
  BY <1>1, SetupKeeps
<1>2. CASE CreateNoMemory
  BY <1>2, NoMemoryKeeps
<1>3. CASE dll_boxroot_teardown
  BY <1>3, TeardownKeeps
<1>4. CASE \E v \in Ages : dll_boxroot_create(v)
  BY <1>4, CreateKeeps
<1>5. CASE \E e \in Elems : dll_boxroot_delete(e)
  BY <1>5, DeleteKeeps
<1>6. CASE \E e \in Elems, v \in Ages : dll_boxroot_modify(e, v)
  BY <1>6, ModifyKeeps
<1>7. CASE \E kind \in {"minor", "major"} : StartGC(kind)
  BY <1>7, StartKeeps
<1>8. CASE scanning_callback
  BY <1>8, ScanKeeps
<1>9. CASE EndGC
  BY <1>9, EndKeeps
<1>10. CASE UNCHANGED vars
  <2>1. PICK R \in [RingNames -> SUBSET Elems] : Held(R)
    BY DEF DllInv
  <2>2. TypeOK' /\ Sorted(R)' /\ Phases' /\ UNCHANGED <<rings, mapped>>
    BY <1>10, <2>1 DEF Held, TypeOK, Sorted, Phases, vars
  <2> QED BY <2>1, <2>2, SameRings
<1> QED BY <1>1, <1>2, <1>3, <1>4, <1>5, <1>6, <1>7, <1>8, <1>9, <1>10 DEF Next

\* The inductive invariant holds in every reachable state.
LEMMA DllInvariance == Spec => []DllInv
<1>1. DllInv /\ [Next]_vars => DllInv'
  BY NextInv
<1> QED BY <1>1, InitInv, PTL DEF Spec

\* The sets of the layout are the rings that the properties read.
LEMMA HeldIsRead ==
  ASSUME NEW R, Held(R)
  PROVE  \A h \in RingNames : Ring(rings, h) = R[h]
<1>1. PICK m, S : m = rings /\ S = mapped
  OBVIOUS
<1>2. Layout(m, R, S)
  BY <1>1 DEF Held
<1>3. \A h \in RingNames : Ring(m, h) = R[h]
  BY <1>2, LayoutIsRings
<1> QED BY <1>1, <1>3

-----------------------------------------------------------------------------
(* The theorems.                                                           *)

\* The state is well typed, no head is freed memory, and the elements that
\* malloc has given are on the three rings, each on one of them, whatever is
\* unlinked from the middle of a ring or appended to another one.
THEOREM RingsDisjoint == Spec => []RingsAreDisjointCycles
<1>1. DllInv => RingsAreDisjointCycles
  <2> SUFFICES ASSUME DllInv PROVE RingsAreDisjointCycles
    OBVIOUS
  <2>1. PICK R \in [RingNames -> SUBSET Elems] : Held(R)
    BY DEF DllInv
  <2>2. \A h \in RingNames : Ring(rings, h) = R[h]
    BY <2>1, HeldIsRead
  <2>3. UNION {Ring(rings, l) : l \in RingNames} = mapped
    BY <2>1, <2>2 DEF Held, Layout, Sharing
  <2>4. ASSUME NEW p \in mapped PROVE rings.prev[rings.next[p]] = p
    <3>1. PICK h \in RingNames : p \in R[h]
      BY <2>1 DEF Held, Layout, Sharing
    <3>2. Cycle(rings.next, rings.prev, R[h])
      BY <2>1, <3>1 DEF Held, Layout, OnRing
    <3> QED BY <3>1, <3>2 DEF Cycle
  <2>5. \A l, k \in RingNames : l # k => Ring(rings, l) \cap Ring(rings, k) = {}
    BY <2>1, <2>2 DEF Held, Layout, Sharing
  <2>6. TypeOK
    BY <2>1 DEF Held
  <2> QED BY <2>3, <2>4, <2>5, <2>6 DEF RingsAreDisjointCycles, DisjointCycles
<1> QED BY <1>1, DllInvariance, PTL

\* The old ring has no young value, and the free ring has the elements without
\* a value: validate_all_rings never fails.
THEOREM RingsSorted == Spec => []RingsValid
<1>1. DllInv => RingsValid
  <2> SUFFICES ASSUME DllInv PROVE RingsValid
    OBVIOUS
  <2>1. PICK R \in [RingNames -> SUBSET Elems] : Held(R)
    BY DEF DllInv
  <2>2. Ring(rings, "old") = R["old"] /\ Ring(rings, "free") = R["free"]
    BY <2>1, HeldIsRead DEF RingNames
  <2>3. R["free"] = mapped \ Live
    <3>1. R["free"] \subseteq mapped /\ mapped \subseteq Elems
      BY <2>1 DEF Held, Layout, Sharing, RingNames
    <3> QED BY <2>1, <3>1 DEF Held, Sorted, Live
  <2> QED BY <2>1, <2>2, <2>3 DEF RingsValid, Held, Sorted
<1> QED BY <1>1, DllInvariance, PTL

-----------------------------------------------------------------------------
(* Refinement.                                                             *)

\* The value of each root, before and after a step, as the table has it.
Table1(e, v) ==
  [x \in Elems |-> Seen(x)]' = [[x \in Elems |-> Seen(x)] EXCEPT ![e] = v]

\* One element changes.
LEMMA OneEntry ==
  ASSUME DllInv, NEW e \in Elems, NEW v \in Ages \cup {NULL}, slot' = [slot EXCEPT ![e] = v]
  PROVE  Table1(e, IF v = NULL THEN "free" ELSE v)
<1>1. \A x \in Elems : slot'[x] = IF x = e THEN v ELSE slot[x]
  BY DEF DllInv, Held, TypeOK
<1>2. \A x \in Elems : Seen(x)' = IF x = e THEN (IF v = NULL THEN "free" ELSE v) ELSE Seen(x)
  BY <1>1, Constants DEF Seen, Values, Ages
<1> QED BY <1>2 DEF Table1

\* No element changes.
LEMMA NoEntry ==
  ASSUME \A x \in Elems : Seen(x)' = Seen(x), gc' = gc
  PROVE  UNCHANGED Table!tableVars
BY DEF Table!tableVars

LEMMA CreateStep ==
  ASSUME DllInv, DllInv', NEW v \in Ages, dll_boxroot_create(v)
  PROVE  Table!TableNext
<1>1. PICK R \in [RingNames -> SUBSET Elems] : Held(R)
  BY DEF DllInv
<1>2. PICK c \in create_elem : slot' = [slot EXCEPT ![c[1]] = v]
  BY DEF dll_boxroot_create
<1>3. PICK e : e = c[1]
  OBVIOUS
<1>4. e \in Elems /\ slot[e] = NULL
  <2>1. CASE rings.head["free"] # NULL
    <3>1. e = rings.head["free"]
      BY <1>2, <1>3, <2>1 DEF create_elem
    <3>2. OnRing(rings, "free", R["free"]) /\ R["free"] \subseteq Elems
      BY <1>1 DEF Held, Layout, RingNames
    <3>3. e \in R["free"]
      BY <2>1, <3>1, <3>2 DEF OnRing
    <3> QED BY <1>1, <3>2, <3>3 DEF Held, Sorted
  <2>2. CASE rings.head["free"] = NULL
    <3>1. e \in Elems \ mapped
      BY <1>2, <1>3, <2>2 DEF create_elem
    <3> QED BY <1>1, <3>1 DEF Held, Sorted
  <2> QED BY <2>1, <2>2
<1>5. v # NULL
  BY Constants DEF Values
<1>6. Table1(e, v)
  <2>1. v \in Ages \cup {NULL} /\ slot' = [slot EXCEPT ![e] = v]
    BY <1>2, <1>3
  <2>2. Table1(e, IF v = NULL THEN "free" ELSE v)
    BY <1>4, <2>1, OneEntry
  <2> QED BY <1>5, <2>2
<1>7. gc = "none" /\ gc' = gc /\ Seen(e) = "free"
  BY <1>4 DEF dll_boxroot_create, CanCall, Seen
<1>8. Table!CreateRoot(e, v)
  BY <1>4, <1>6, <1>7 DEF Table1, Table!CreateRoot
<1> QED BY <1>4, <1>8 DEF Table!TableNext, Table!Ages, Ages

LEMMA DeleteStep ==
  ASSUME DllInv, NEW e \in Elems, dll_boxroot_delete(e)
  PROVE  Table!TableNext
<1>1. slot' = [slot EXCEPT ![e] = NULL] /\ gc' = gc /\ slot[e] # NULL
  BY DEF dll_boxroot_delete, delete_elem, Live
<1>2. Table1(e, "free")
  <2>1. PICK v \in Ages \cup {NULL} : v = NULL
    OBVIOUS
  <2>2. slot' = [slot EXCEPT ![e] = v]
    BY <1>1, <2>1
  <2>3. Table1(e, IF v = NULL THEN "free" ELSE v)
    BY <2>2, OneEntry
  <2> QED BY <2>1, <2>3
<1>3. Seen(e) # "free"
  <2>1. slot[e] \in Values
    BY <1>1 DEF DllInv, Held, TypeOK
  <2> QED BY <1>1, <2>1 DEF Seen, Values, Ages
<1>4. Table!DeleteRoot(e)
  BY <1>1, <1>2, <1>3 DEF Table1, Table!DeleteRoot
<1> QED BY <1>4 DEF Table!TableNext

LEMMA ModifyStep ==
  ASSUME DllInv, NEW e \in Elems, NEW v \in Ages, dll_boxroot_modify(e, v)
  PROVE  Table!TableNext
<1>1. slot' = [slot EXCEPT ![e] = v] /\ gc = "none" /\ gc' = gc /\ slot[e] # NULL
  BY DEF dll_boxroot_modify, Live, CanCall
<1>2. Table1(e, v)
  <2>1. v \in Ages \cup {NULL} /\ v # NULL
    BY Constants DEF Values
  <2>2. Table1(e, IF v = NULL THEN "free" ELSE v)
    BY <1>1, <2>1, OneEntry
  <2> QED BY <2>1, <2>2
<1>3. Seen(e) # "free"
  <2>1. slot[e] \in Values
    BY <1>1 DEF DllInv, Held, TypeOK
  <2> QED BY <1>1, <2>1 DEF Seen, Values, Ages
<1>4. Table!ModifyRoot(e, v)
  BY <1>1, <1>2, <1>3 DEF Table1, Table!ModifyRoot
<1> QED BY <1>4 DEF Table!TableNext, Table!Ages, Ages

LEMMA TeardownStep == ASSUME DllInv, DllInv', dll_boxroot_teardown PROVE Table!TableNext
<1>1. \A e \in Elems : slot'[e] = NULL
  BY DEF DllInv, Held, Sorted, Phases, dll_boxroot_teardown
<1>2. [x \in Elems |-> Seen(x)]' = [x \in Elems |-> "free"]
  BY <1>1 DEF Seen
<1> QED BY <1>2 DEF dll_boxroot_teardown, CanCall, Table!TableNext, Table!Release

LEMMA ScanStep ==
  ASSUME DllInv, scanning_callback
  PROVE  [Table!TableNext]_(Table!tableVars)
<1>1. PICK R \in [RingNames -> SUBSET Elems] : Held(R)
  BY DEF DllInv
<1>2. gc' = gc /\ gc # "none"
  BY DEF scanning_callback
<1>3. CASE UNCHANGED slot
  BY <1>2, <1>3, NoEntry DEF Seen
<1>4. CASE gc = "minor" /\ setup /\ hooks = "installed"
  <2>1. PICK X : ScannedBy(X)
    BY <1>1, <1>4, ScanReads DEF scanning_callback, scan_roots, RingNames
  <2>2. \A e \in Elems : slot'[e] = slot[e] \/ (slot[e] = "young" /\ slot'[e] = "old")
    BY <1>4, <2>1 DEF ScannedBy
  <2>3. \A e \in Elems : Seen(e)' = Seen(e) \/ (Seen(e) = "young" /\ Seen(e)' = "old")
    BY <2>2, Constants DEF Seen, Values, Ages
  <2>4. \A e \in Elems : Seen(e)' \in {"young", "old", "free"}
    <3>1. \A e \in Elems : Seen(e) \in {"young", "old", "free"}
      BY <1>1 DEF Held, TypeOK, Phases, Seen, Values, Ages
    <3> QED BY <2>3, <3>1
  <2>5. Table!Promote
    BY <1>2, <1>4, <2>3, <2>4 DEF Table!Promote, Table!Ages
  <2> QED BY <2>5 DEF Table!TableNext
<1>5. CASE gc = "major" /\ setup /\ hooks = "installed"
  <2>1. PICK X : ScannedBy(X)
    BY <1>1, <1>5, ScanReads DEF scanning_callback, scan_roots, RingNames
  <2>2. \A e \in Elems : Seen(e)' = Seen(e)
    BY <1>5, <2>1, Constants DEF ScannedBy, Seen, Values, Ages
  <2> QED BY <1>2, <2>2, NoEntry
<1>6. UNCHANGED slot \/ ((gc = "minor" \/ gc = "major") /\ setup /\ hooks = "installed")
  BY <1>1, <1>2 DEF Held, TypeOK, scanning_callback
<1> QED BY <1>3, <1>4, <1>5, <1>6

LEMMA EndStep == ASSUME DllInv, EndGC PROVE Table!TableNext
<1>1. PICK R \in [RingNames -> SUBSET Elems] : Held(R)
  BY DEF DllInv
<1>2. \A e \in Elems : slot'[e] = IF slot[e] = "marked" THEN "old" ELSE slot[e]
  BY <1>1 DEF Held, TypeOK, Phases, EndGC
<1>3. \A e \in Elems : Seen(e)' = Seen(e)
  BY <1>2, Constants DEF Seen, Values, Ages
<1>4. gc = "minor" => \A e \in Elems : Seen(e) # "young"
  BY <1>1 DEF Held, Phases, EndGC, Seen
<1> QED BY <1>3, <1>4 DEF EndGC, Table!TableNext, Table!EndCollection

\* Every step of the prototype is a step of the table of GC roots, or changes
\* nothing that its user sees: no value of a root is reclaimed, and a minor
\* collection that scans the young ring only promotes every young root.
THEOREM DllImplementsTable == Spec => ImplementsRootTable
<1>1. Init => Table!TableInit
  BY DEF Init, Table!TableInit, Seen
<1>2. DllInv /\ DllInv' /\ [Next]_vars => [Table!TableNext]_(Table!tableVars)
  <2> SUFFICES ASSUME DllInv, DllInv', [Next]_vars
               PROVE  [Table!TableNext]_(Table!tableVars)
    OBVIOUS
  <2>1. CASE dll_boxroot_setup \/ CreateNoMemory \/ UNCHANGED vars
    BY <2>1, NoEntry DEF dll_boxroot_setup, CreateNoMemory, vars, Seen
  <2>2. CASE dll_boxroot_teardown
    BY <2>2, TeardownStep
  <2>3. CASE \E v \in Ages : dll_boxroot_create(v)
    BY <2>3, CreateStep
  <2>4. CASE \E e \in Elems : dll_boxroot_delete(e)
    BY <2>4, DeleteStep
  <2>5. CASE \E e \in Elems, v \in Ages : dll_boxroot_modify(e, v)
    BY <2>5, ModifyStep
  <2>6. CASE \E kind \in {"minor", "major"} : StartGC(kind)
    <3>1. \A e \in Elems : Seen(e)' = Seen(e)
      BY <2>6 DEF StartGC, Seen
    <3> QED BY <2>6, <3>1 DEF StartGC, Table!TableNext, Table!BeginCollection
  <2>7. CASE scanning_callback
    BY <2>7, ScanStep
  <2>8. CASE EndGC
    BY <2>8, EndStep
  <2> QED BY <2>1, <2>2, <2>3, <2>4, <2>5, <2>6, <2>7, <2>8 DEF Next
<1> QED BY <1>1, <1>2, DllInvariance, PTL DEF Spec, ImplementsRootTable, Table!TableSpec
=============================================================================
