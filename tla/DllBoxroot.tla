----------------------------- MODULE DllBoxroot -----------------------------
(***************************************************************************)
(* boxroot/dll_boxroot.c: the prototype whose roots are the elements of    *)
(* three doubly linked rings, for young values, old values and free        *)
(* elements.  It has no mutex: its calls are made by one domain, with its  *)
(* lock, and each is one step; the rings are as in memory (module Rings).  *)
(***************************************************************************)
EXTENDS Rings

CONSTANT Elems   \* addresses malloc may return

ASSUME ElemAssumption == NULL \notin Elems /\ IsFiniteSet(Elems)

VARIABLES
  rings,   \* the heads of the rings, and the links of the elements
  slot,    \* the age of the value in each element, NULL if there is none
  mapped,  \* the elements malloc has given
  setup,   \* the flag of the library
  hooks,   \* the scanning hook: not installed, installed, or its own previous one
  gc,      \* runtime: the collection under way
  scanned  \* runtime: the scanning hook has returned

vars == <<rings, slot, mapped, setup, hooks, gc, scanned>>

RingNames == {"young", "old", "free"}
Ages == {"young", "old"}

\* A value that a major collection has marked, and one it has reclaimed under
\* its root.
Values == Ages \cup {"marked", "dead"}
ASSUME NullAssumption == NULL \notin Values

\* The head "elem" is the local variable of ring_pop_elem.
Heads == RingNames \cup {"elem"}

TypeOK ==
  /\ rings \in [head : [Heads -> mapped \cup {NULL}],
                next : [Elems -> Elems], prev : [Elems -> Elems]]
  /\ rings.head["elem"] = NULL
  /\ slot \in [Elems -> Values \cup {NULL}]
  /\ mapped \subseteq Elems
  /\ setup \in BOOLEAN
  /\ hooks \in {"none", "installed", "itself", "crashed"}
  /\ gc \in {"none", "minor", "major"}
  /\ scanned \in BOOLEAN

Init ==
  /\ rings = [head |-> [h \in Heads |-> NULL],
              next |-> [e \in Elems |-> e], prev |-> [e \in Elems |-> e]]
  /\ slot = [e \in Elems |-> NULL]
  /\ mapped = {}
  /\ setup = FALSE /\ hooks = "none"
  /\ gc = "none" /\ scanned = FALSE

-----------------------------------------------------------------------------
(* Elements.                                                               *)

\* MUTANT: the heads of the rings do not follow.
Mut_ring_pop_elem(m, e) ==
  [ring_pop([m EXCEPT !.head["elem"] = e], "elem") EXCEPT !.head["elem"] = NULL]

\* Take e out of its ring; the next element, or NULL, replaces it as a head.
ring_pop_elem(m, e) ==
  LET n == ring_pop([m EXCEPT !.head["elem"] = e], "elem")
  IN [n EXCEPT !.head = [h \in Heads |-> IF h \in Ages /\ n.head[h] = e THEN n.head["elem"]
                                         ELSE IF h = "elem" THEN NULL ELSE n.head[h]]]

track_elem(m, e, v) == ring_push_back(m, e, IF v = "young" THEN "young" ELSE "old")

\* MUTANT: the value stays in the element.
Mut_delete_elem(m, e) ==
  /\ rings' = ring_push_back(m, e, "free")
  /\ UNCHANGED slot

delete_elem(m, e) ==
  /\ slot' = [slot EXCEPT ![e] = NULL]
  /\ rings' = ring_push_back(m, e, "free")

-----------------------------------------------------------------------------
(* The interface.                                                          *)

CanCall == setup /\ gc = "none" /\ hooks # "crashed"
Live == {e \in mapped : slot[e] # NULL}

\* A second setup, after a teardown, installs the hook over itself.
dll_boxroot_setup ==
  /\ ~ setup /\ gc = "none" /\ hooks # "crashed"
  /\ rings' = [rings EXCEPT !.head = [h \in Heads |-> NULL]]
  /\ hooks' = IF hooks = "none" THEN "installed" ELSE "itself"
  /\ setup' = TRUE
  /\ UNCHANGED <<slot, mapped, gc, scanned>>

\* An element of the free ring, or one from malloc, and the rings without it.
create_elem ==
  IF rings.head["free"] # NULL THEN {<<rings.head["free"], ring_pop(rings, "free")>>}
  ELSE {<<e, ring_link(rings, e, e)>> : e \in Elems \ mapped}

dll_boxroot_create(v) ==
  /\ CanCall
  /\ \E c \in create_elem :
       /\ slot' = [slot EXCEPT ![c[1]] = v]
       /\ rings' = track_elem(c[2], c[1], v)
       /\ mapped' = mapped \cup {c[1]}
  /\ UNCHANGED <<setup, hooks, gc, scanned>>

\* create_elem returns NULL, and the value is stored through it.
CreateNoMemory ==
  /\ CanCall /\ rings.head["free"] = NULL
  /\ hooks' = "crashed"
  /\ UNCHANGED <<rings, slot, mapped, setup, gc, scanned>>

dll_boxroot_delete(e) ==
  /\ CanCall /\ e \in Live
  /\ delete_elem(ring_pop_elem(rings, e), e)
  /\ UNCHANGED <<mapped, setup, hooks, gc, scanned>>

\* MUTANT: the ring of the element is not looked at.
Mut_InPlace(old, new) == TRUE
InPlace(old, new) == old = "young" \/ new # "young"

dll_boxroot_modify(e, v) ==
  /\ CanCall /\ e \in Live
  /\ slot' = [slot EXCEPT ![e] = v]
  /\ rings' = IF InPlace(slot[e], v) THEN rings
              ELSE track_elem(ring_pop_elem(rings, e), e, v)
  /\ UNCHANGED <<mapped, setup, hooks, gc, scanned>>

\* free_ring of the rings `names`: nothing is left of their elements.
free_rings(names) ==
  LET freed == UNION {Ring(rings, h) : h \in names}
  IN /\ mapped' = mapped \ freed
     /\ rings' = [head |-> [h \in Heads |-> IF h \in names THEN NULL ELSE rings.head[h]],
                  next |-> [e \in Elems |-> IF e \in freed THEN e ELSE rings.next[e]],
                  prev |-> [e \in Elems |-> IF e \in freed THEN e ELSE rings.prev[e]]]

dll_boxroot_teardown ==
  /\ CanCall
  /\ setup' = FALSE
  /\ free_rings(RingNames)
  /\ slot' = [e \in Elems |-> IF e \in mapped' THEN slot[e] ELSE NULL]
  /\ UNCHANGED <<hooks, gc, scanned>>

-----------------------------------------------------------------------------
(* Collections.                                                            *)

\* A major collection scans the roots once young values have been promoted.
StartGC(kind) ==
  /\ gc = "none" /\ hooks # "crashed"
  /\ kind = "major" => \A e \in Elems : slot[e] # "young"
  /\ gc' = kind /\ scanned' = FALSE
  /\ UNCHANGED <<rings, slot, mapped, setup, hooks>>

\* The action of the collector on the values of the rings `names`.
scan_ring(names) ==
  slot' = [e \in Elems |->
             IF \A h \in names : e \notin Ring(rings, h) THEN slot[e]
             ELSE CASE gc = "minor" /\ slot[e] = "young" -> "old"
                    [] gc = "major" /\ slot[e] = "old" -> "marked"
                    [] OTHER -> slot[e]]

\* The young ring becomes the end of the old one.
Promoted == [ring_push_back(rings, rings.head["young"], "old") EXCEPT !.head["young"] = NULL]

scan_roots ==
  IF gc = "minor"
  THEN scan_ring({"young"}) /\ rings' = Promoted /\ UNCHANGED mapped
  ELSE scan_ring({"young", "old"}) /\ free_rings({"free"})

\* A hook that is its own previous hook never returns.
scanning_callback ==
  /\ gc # "none" /\ ~ scanned /\ hooks # "crashed"
  /\ IF setup /\ hooks = "installed" THEN scan_roots ELSE UNCHANGED <<rings, slot, mapped>>
  /\ IF hooks = "itself" THEN hooks' = "crashed" /\ UNCHANGED scanned
     ELSE UNCHANGED hooks /\ scanned' = TRUE
  /\ UNCHANGED <<setup, gc>>

\* What has not been reached is reclaimed.
EndGC ==
  /\ gc # "none" /\ scanned
  /\ slot' = [e \in Elems |->
                CASE slot[e] = "young" -> "dead"
                  [] slot[e] = "old" /\ gc = "major" -> "dead"
                  [] slot[e] = "marked" -> "old"
                  [] OTHER -> slot[e]]
  /\ gc' = "none"
  /\ UNCHANGED <<rings, mapped, setup, hooks, scanned>>

Next ==
  \/ dll_boxroot_setup \/ CreateNoMemory \/ dll_boxroot_teardown
  \/ \E v \in Ages : dll_boxroot_create(v)
  \/ \E e \in Elems : dll_boxroot_delete(e)
  \/ \E e \in Elems, v \in Ages : dll_boxroot_modify(e, v)
  \/ \E kind \in {"minor", "major"} : StartGC(kind)
  \/ scanning_callback \/ EndGC

Spec == Init /\ [][Next]_vars

-----------------------------------------------------------------------------
(* Properties.                                                             *)

\* The state is well typed, no head is freed memory, and the elements that malloc
\* has given are on the three rings, each on one of them: the heads follow when an element is taken from the middle of a ring
\* (ring_pop_elem), and no ring is lost when one is appended to another.
RingsAreDisjointCycles == TypeOK /\ DisjointCycles(rings, RingNames, mapped)

\* What validate_all_rings asserts before and after each scan, here in every
\* state: the old ring has no young value, the free ring no value; and the
\* roots are on the two others.
RingsValid ==
  /\ \A e \in Ring(rings, "old") : slot[e] # "young"
  /\ Ring(rings, "free") = mapped \ Live

\* The age of the value of a root, as the user knows it.
Seen(e) == IF slot[e] = NULL THEN "free" ELSE IF slot[e] = "marked" THEN "old" ELSE slot[e]

Table == INSTANCE RootTable WITH
  Root <- Elems, table <- [e \in Elems |-> Seen(e)], phase <- gc

\* The prototype is a table of GC roots: no value of a root is reclaimed, and a
\* minor collection, which scans the young ring only, promotes every young root.
ImplementsRootTable == Table!TableSpec
=============================================================================
