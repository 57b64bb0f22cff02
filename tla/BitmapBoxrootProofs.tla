------------------------- MODULE BitmapBoxrootProofs -------------------------
(* The rings and the roots of bitmap_boxroot, for any number of domains and  *)
(* chunks, and chunks of any size.                                           *)
EXTENDS BitmapBoxroot, ListLemmas

Constants == CHUNK_SIZE \in Nat /\ CHUNK_SIZE # 0 /\ NULL \notin Domains /\ NULL \notin Slots

LEMMA ConstantsHold == Constants
BY SizeAssumption, NullAssumption DEF Constants

LEMMA SomeIndex == Indices # {}
<1>1. 0 \in Indices
  BY ConstantsHold DEF Constants, Indices
<1> QED BY <1>1

LEMMA SlotIs ==
  ASSUME NEW s \in Slots
  PROVE  s = <<s[1], s[2]>> /\ s[1] \in Chunks /\ s[2] \in Indices /\ s # NULL
BY ConstantsHold DEF Slots, Constants

-----------------------------------------------------------------------------
(* The invariant.                                                          *)

Types ==
  /\ status \in {"not_setup", "setup", "tore_down", "crashed", "use after free"}
  /\ mapped \subseteq Chunks
  /\ is_young \in [Chunks -> BOOLEAN]
  /\ free \in [Chunks -> SUBSET Indices]
  /\ slot \in [Slots -> Ages \cup {"marked", "dead"}]
  /\ lock \in Domains \cup {NULL}
  /\ at \in [Domains -> {"idle", "reclassify", "delete", "modify", "create"}]
  /\ root \in [Domains -> Slots \cup {NULL}]
  /\ gc \in [kind : {"none", "minor", "major"}, scanned : BOOLEAN]

\* A chunk is on the ring of its class.
YoungOnes == {c \in mapped : is_young[c]}
OldOnes == {c \in mapped : ~ is_young[c]}
RingsOK == Enumerates(young, YoungOnes) /\ Enumerates(old, OldOnes)

\* The allocator gives chunks that have no root.
FreeChunks ==
  /\ status = "not_setup" => mapped = {}
  /\ status # "tore_down" => \A c \in Chunks : c \notin mapped => free[c] = Indices

\* The root of a domain that is to reclassify a chunk; it is its own if it
\* holds the mutex.
Places ==
  /\ \A d \in Domains : at[d] \in {"idle", "create"} <=> root[d] = NULL
  /\ \A d \in Domains : at[d] = "reclassify" => lock = d /\ Allocated(root[d])
  /\ gc.kind # "none" => /\ \A d \in Domains : at[d] = "idle"
                         /\ status \in {"not_setup", "setup"}

\* A domain has freed a slot of b, or filled a.
AboutToMove(a, b) ==
  \E d \in Domains : /\ root[d] # NULL
                     /\ root[d][1] = b \/ (at[d] = "reclassify" /\ root[d][1] = a)

FullBehind ==
  \A a, b \in Chunks : Before(young, a, b) /\ chunk_is_full(a) /\ ~ chunk_is_full(b) =>
                         AboutToMove(a, b)

\* No root is young in an old chunk, and a collection that has scanned the roots
\* has met all of them.
AgeOK(s) ==
  /\ slot[s] # "dead"
  /\ slot[s] = "young" => is_young[s[1]]
  /\ gc.scanned /\ gc.kind = "minor" => slot[s] # "young"
  /\ gc.scanned /\ gc.kind = "major" => slot[s] # "old"
AgesOK == \A s \in Slots : Allocated(s) => AgeOK(s)

BitInv == Types /\ RingsOK /\ FreeChunks /\ Places /\ FullBehind /\ AgesOK

LEMMA InitHolds == ASSUME Init PROVE BitInv
<1> USE DEF Init
<1>1. Types
  BY DEF Types, Ages
<1>2. YoungOnes = {} /\ OldOnes = {}
  BY DEF YoungOnes, OldOnes
<1>3. RingsOK
  BY <1>2, EnumeratesNone DEF RingsOK
<1>4. FreeChunks /\ Places /\ AgesOK
  BY DEF FreeChunks, Places, AgesOK, Allocated
<1>5. \A a, b : ~ Before(young, a, b)
  BY DEF Before
<1>6. FullBehind
  BY <1>5 DEF FullBehind
<1> QED BY <1>1, <1>3, <1>4, <1>6 DEF BitInv

LEMMA RingTypes ==
  ASSUME RingsOK
  PROVE  young \in Seq(mapped) /\ old \in Seq(mapped) /\ ToSet(young) = YoungOnes /\ ToSet(old) = OldOnes
<1>1. young \in Seq(YoungOnes) /\ old \in Seq(OldOnes)
  BY DEF RingsOK, Enumerates
<1>2. YoungOnes \subseteq mapped /\ OldOnes \subseteq mapped
  BY DEF YoungOnes, OldOnes
<1> QED BY <1>1, <1>2, EnumeratesToSet DEF RingsOK

\* The order matters only between chunks.
LEMMA FullBehindBecomes ==
  ASSUME FullBehind,
         \A a, b \in Chunks : Before(young', a, b) /\ chunk_is_full(a)' /\ ~ chunk_is_full(b)' =>
            \/ AboutToMove(a, b)'
            \/ /\ Before(young, a, b) /\ chunk_is_full(a) /\ ~ chunk_is_full(b)
               /\ AboutToMove(a, b) => AboutToMove(a, b)'
  PROVE  FullBehind'
BY DEF FullBehind

-----------------------------------------------------------------------------
(* Allocation.                                                             *)

LEMMA GetChunk ==
  ASSUME BitInv, NEW c \in Chunks, get_available_chunk(c)
  PROVE  /\ RingsOK' /\ young' # << >> /\ Head(young') = c
         /\ mapped' = mapped \cup {c}
         /\ is_young' \in [Chunks -> BOOLEAN] /\ is_young'[c]
         /\ \A x \in Chunks : x # c => is_young'[x] = is_young[x]
         /\ \A a, b : Before(young', a, b) => Before(young, a, b) \/ a = c
<1>0. /\ Enumerates(young, YoungOnes) /\ Enumerates(old, OldOnes)
      /\ is_young \in [Chunks -> BOOLEAN] /\ mapped \subseteq Chunks
  BY DEF BitInv, RingsOK, Types
<1>1. CASE HasRoom(young)
  <2>1. young # << >> /\ c = Head(young) /\ UNCHANGED <<young, old, mapped, is_young>>
    BY <1>1 DEF HasRoom, get_available_chunk
  <2>2. c \in YoungOnes
    BY <1>0, <2>1, EnumeratesTail
  <2>3. c \in mapped /\ is_young[c]
    BY <2>2 DEF YoungOnes
  <2> QED BY <1>0, <2>1, <2>3 DEF RingsOK, YoungOnes, OldOnes
<1>2. CASE ~ HasRoom(young)
  <2>1. /\ young' = <<c>> \o young /\ is_young' = [is_young EXCEPT ![c] = TRUE]
        /\ \/ HasRoom(old) /\ c = Head(old) /\ old' = Tail(old) /\ mapped' = mapped
           \/ c \notin mapped /\ mapped' = mapped \cup {c} /\ old' = old
    BY <1>2 DEF get_available_chunk
  <2>2. /\ is_young' \in [Chunks -> BOOLEAN] /\ is_young'[c]
        /\ \A x \in Chunks : x # c => is_young'[x] = is_young[x]
    BY <1>0, <2>1
  <2>3. \/ old # << >> /\ c = Head(old) /\ c \in OldOnes /\ old' = Tail(old) /\ mapped' = mapped
        \/ c \notin mapped /\ mapped' = mapped \cup {c} /\ old' = old
    <3>1. HasRoom(old) => old # << >>
      BY DEF HasRoom
    <3>2. old # << >> => Head(old) \in OldOnes
      BY <1>0, EnumeratesTail
    <3> QED BY <2>1, <3>1, <3>2
  <2>4. c \notin YoungOnes /\ mapped' = mapped \cup {c}
    BY <2>3 DEF YoungOnes, OldOnes
  <2>5. YoungOnes' = YoungOnes \cup {c}
    BY <1>0, <2>2, <2>4 DEF YoungOnes
  <2>6. Enumerates(young', YoungOnes')
    <3>1. Enumerates(<<c>> \o young, YoungOnes \cup {c})
      BY <1>0, <2>4, EnumeratesCons
    <3> QED BY <2>1, <2>5, <3>1
  <2>7. OldOnes' = OldOnes \ {c}
    BY <1>0, <2>2, <2>4 DEF OldOnes
  <2>8. Enumerates(old', OldOnes')
    <3>1. CASE old # << >> /\ c = Head(old) /\ old' = Tail(old)
      <4>1. Enumerates(Tail(old), OldOnes \ {Head(old)})
        BY <1>0, <3>1, EnumeratesTail
      <4> QED BY <2>7, <3>1, <4>1
    <3>2. CASE c \notin mapped /\ old' = old
      <4>1. OldOnes' = OldOnes
        BY <2>7, <3>2 DEF OldOnes
      <4> QED BY <1>0, <3>2, <4>1
    <3> QED BY <2>3, <3>1, <3>2
  <2>9. young \in Seq(YoungOnes)
    BY <1>0 DEF Enumerates
  <2>10. young' # << >> /\ Head(young') = c
    BY <2>1, <2>9
  <2>11. ASSUME NEW a, NEW b, Before(young', a, b) PROVE Before(young, a, b) \/ a = c
    <3>1. Before(<<c>> \o young, a, b)
      BY <2>1, <2>11
    <3> QED BY <2>9, <3>1, BeforeCons
  <2> QED BY <2>2, <2>4, <2>6, <2>8, <2>10, <2>11 DEF RingsOK
<1> QED BY <1>1, <1>2

\* What an allocation has done.
Allocates(d, s, v) ==
  /\ ~ Allocated(s) /\ \A x \in Slots : Allocated(x)' <=> Allocated(x) \/ x = s
  /\ slot' = [slot EXCEPT ![s] = v]
  /\ free' \in [Chunks -> SUBSET Indices]
  /\ \A x \in Chunks : x # s[1] => free'[x] = free[x]
  /\ free[s[1]] # {}
  /\ \/ /\ free'[s[1]] # {} /\ lock' = NULL /\ root' = [root EXCEPT ![d] = NULL]
        /\ at' = [at EXCEPT ![d] = "idle"]
     \/ /\ free'[s[1]] = {} /\ lock' = d /\ root' = [root EXCEPT ![d] = s]
        /\ at' = [at EXCEPT ![d] = "reclassify"]
  /\ UNCHANGED <<status, gc>>

LEMMA AllocDoes ==
  ASSUME BitInv, status = "setup", NEW d \in Domains, NEW c \in Chunks, NEW v \in Ages, Alloc(d, c, v)
  PROVE  lock = NULL /\ get_available_chunk(c) /\ \E s \in Slots : s[1] = c /\ Allocates(d, s, v)
<1>1. lock = NULL /\ get_available_chunk(c) /\ UNCHANGED <<status, gc>>
  BY DEF Alloc
<1>2. PICK i \in free[c] :
        /\ slot' = [slot EXCEPT ![<<c, i>>] = v]
        /\ free' = [free EXCEPT ![c] = @ \ {i}]
        /\ lock' = IF free[c] = {i} THEN d ELSE NULL
        /\ at' = [at EXCEPT ![d] = IF free[c] = {i} THEN "reclassify" ELSE "idle"]
        /\ root' = [root EXCEPT ![d] = IF free[c] = {i} THEN <<c, i>> ELSE NULL]
  BY DEF Alloc
<1>3. free \in [Chunks -> SUBSET Indices] /\ i \in Indices
  BY DEF BitInv, Types
<1>4. PICK s \in Slots : s = <<c, i>>
  BY <1>3 DEF Slots
<1>5. s[1] = c /\ s[2] = i
  BY <1>4
<1>6. /\ free' \in [Chunks -> SUBSET Indices] /\ free'[c] = free[c] \ {i}
      /\ \A x \in Chunks : x # c => free'[x] = free[x]
  BY <1>2, <1>3
<1>7. mapped' = mapped \cup {c} /\ (c \notin mapped => free[c] = Indices)
  BY <1>1, GetChunk DEF BitInv, FreeChunks
<1>8. ~ Allocated(s) /\ \A x \in Slots : Allocated(x)' <=> Allocated(x) \/ x = s
  <2>1. ~ Allocated(s)
    BY <1>5 DEF Allocated
  <2>2. ASSUME NEW x \in Slots PROVE Allocated(x)' <=> Allocated(x) \/ x = s
    <3>1. x[1] \in Chunks /\ x[2] \in Indices /\ (x = s <=> x[1] = c /\ x[2] = i)
      BY <1>5, SlotIs
    <3> QED BY <1>6, <1>7, <3>1 DEF Allocated
  <2> QED BY <2>1, <2>2
<1>9. slot' = [slot EXCEPT ![s] = v]
  BY <1>2, <1>4
<1>10. CASE free[c] = {i}
  <2>1. /\ free'[c] = {} /\ lock' = d /\ root' = [root EXCEPT ![d] = s]
        /\ at' = [at EXCEPT ![d] = "reclassify"]
    BY <1>2, <1>4, <1>6, <1>10
  <2> QED BY <1>1, <1>2, <1>5, <1>6, <1>8, <1>9, <2>1 DEF Allocates
<1>11. CASE free[c] # {i}
  <2>1. /\ free'[c] # {} /\ lock' = NULL /\ root' = [root EXCEPT ![d] = NULL]
        /\ at' = [at EXCEPT ![d] = "idle"]
    BY <1>2, <1>6, <1>11
  <2> QED BY <1>1, <1>2, <1>5, <1>6, <1>8, <1>9, <2>1 DEF Allocates
<1> QED BY <1>10, <1>11

\* The chunk is at the head of the young ring: if it is full now, the domain is
\* about to move it.
LEMMA AllocKeeps ==
  ASSUME BitInv, status = "setup", gc.kind = "none", NEW d \in Domains, root[d] = NULL,
         NEW c \in Chunks, NEW v \in Ages, Alloc(d, c, v)
  PROVE  BitInv'
<1> USE DEF BitInv
<1>1. lock = NULL /\ get_available_chunk(c)
  BY AllocDoes
<1>2. PICK s \in Slots : s[1] = c /\ Allocates(d, s, v)
  BY AllocDoes
<1>3. /\ RingsOK' /\ young' # << >> /\ Head(young') = c
      /\ mapped' = mapped \cup {c}
      /\ is_young' \in [Chunks -> BOOLEAN] /\ is_young'[c]
      /\ \A x \in Chunks : x # c => is_young'[x] = is_young[x]
      /\ \A a, b : Before(young', a, b) => Before(young, a, b) \/ a = c
  BY <1>1, GetChunk
<1>4. /\ s # NULL /\ d # NULL /\ UNCHANGED <<status, gc>>
      /\ slot' = [slot EXCEPT ![s] = v]
      /\ free' \in [Chunks -> SUBSET Indices]
      /\ \A x \in Chunks : x # c => free'[x] = free[x]
      /\ free[c] # {}
      /\ \A x \in Slots : Allocated(x)' <=> Allocated(x) \/ x = s
  BY <1>2, SlotIs, ConstantsHold DEF Allocates, Constants
<1>5. \/ /\ free'[c] # {} /\ lock' = NULL /\ root' = [root EXCEPT ![d] = NULL]
         /\ at' = [at EXCEPT ![d] = "idle"]
      \/ /\ free'[c] = {} /\ lock' = d /\ root' = [root EXCEPT ![d] = s]
         /\ at' = [at EXCEPT ![d] = "reclassify"]
  BY <1>2 DEF Allocates
<1>6. Types'
  <2>1. mapped' \subseteq Chunks /\ slot' \in [Slots -> Ages \cup {"marked", "dead"}]
    BY <1>3, <1>4 DEF Types
  <2>2. lock' \in Domains \cup {NULL} /\ root' \in [Domains -> Slots \cup {NULL}]
        /\ at' \in [Domains -> {"idle", "reclassify", "delete", "modify", "create"}]
    BY <1>5 DEF Types
  <2> QED BY <1>3, <1>4, <2>1, <2>2 DEF Types
<1>7. FreeChunks'
  BY <1>3, <1>4 DEF FreeChunks
<1>8. at \in [Domains -> {"idle", "reclassify", "delete", "modify", "create"}]
      /\ root \in [Domains -> Slots \cup {NULL}]
  BY DEF Types
<1>9. \A e \in Domains : e # d => at'[e] = at[e] /\ root'[e] = root[e]
  BY <1>5, <1>8
<1>10. \A e \in Domains : at[e] # "reclassify"
  BY <1>1, ConstantsHold DEF Places, Constants
<1>11. Places'
  <2>1. \A e \in Domains : at'[e] \in {"idle", "create"} <=> root'[e] = NULL
    <3> TAKE e \in Domains
    <3>1. CASE e = d
      BY <1>4, <1>5, <1>8, <3>1
    <3>2. CASE e # d
      BY <1>9, <3>2 DEF Places
    <3> QED BY <3>1, <3>2
  <2>2. \A e \in Domains : at'[e] = "reclassify" => lock' = e /\ Allocated(root[e])'
    <3> SUFFICES ASSUME NEW e \in Domains, at'[e] = "reclassify" PROVE lock' = e /\ Allocated(root[e])'
      OBVIOUS
    <3>1. e = d
      BY <1>9, <1>10
    <3>2. lock' = d /\ root'[d] = s
      BY <1>5, <1>8, <3>1
    <3>3. Allocated(s)'
      BY <1>4
    <3> QED BY <3>1, <3>2, <3>3 DEF Allocated
  <2> QED BY <1>4, <2>1, <2>2 DEF Places
<1>12. FullBehind'
  <2> SUFFICES ASSUME NEW a \in Chunks, NEW b \in Chunks, Before(young', a, b),
                      free'[a] = {}, free'[b] # {}, ~ AboutToMove(a, b)'
               PROVE  /\ Before(young, a, b) /\ free[a] = {} /\ free[b] # {}
                      /\ AboutToMove(a, b) => AboutToMove(a, b)'
    BY FullBehindBecomes DEF chunk_is_full
  <2>1. a # c
    <3> SUFFICES ASSUME a = c PROVE FALSE
      OBVIOUS
    <3>1. at'[d] = "reclassify" /\ root'[d] = s
      BY <1>5, <1>8
    <3> QED BY <1>2, <1>4, <3>1 DEF AboutToMove
  <2>2. b # c
    BY <1>3, BeforeHead DEF RingsOK
  <2>3. Before(young, a, b) /\ free[a] = {} /\ free[b] # {}
    BY <1>3, <1>4, <2>1, <2>2
  <2>4. AboutToMove(a, b) => AboutToMove(a, b)'
    <3> SUFFICES ASSUME NEW e \in Domains, root[e] # NULL,
                        root[e][1] = b \/ (at[e] = "reclassify" /\ root[e][1] = a)
                 PROVE  AboutToMove(a, b)'
      BY DEF AboutToMove
    <3>1. e # d /\ root'[e] = root[e] /\ at'[e] = at[e]
      BY <1>9
    <3> QED BY <3>1 DEF AboutToMove
  <2> QED BY <2>3, <2>4
<1>13. AgesOK'
  <2> SUFFICES ASSUME NEW x \in Slots, Allocated(x)' PROVE AgeOK(x)'
    BY DEF AgesOK
  <2>1. CASE x = s
    <3>1. slot'[x] = v /\ is_young'[x[1]] /\ gc'.kind = "none"
      BY <1>2, <1>3, <1>4, <2>1 DEF Types
    <3> QED BY <3>1 DEF AgeOK, Ages
  <2>2. CASE x # s
    <3>1. Allocated(x) /\ slot'[x] = slot[x] /\ gc' = gc
      BY <1>4, <2>2 DEF Types
    <3>2. is_young[x[1]] => is_young'[x[1]]
      BY <1>3, SlotIs
    <3> QED BY <3>1, <3>2 DEF AgesOK, AgeOK
  <2> QED BY <2>1, <2>2
<1> QED BY <1>3, <1>6, <1>7, <1>11, <1>12, <1>13

-----------------------------------------------------------------------------
(* Deletion and the moves of chunks.                                       *)

\* What a deletion has done, without the mutex.
LEMMA RemoveDoes ==
  ASSUME BitInv, NEW d \in Domains, NEW s \in Slots, Allocated(s), NEW pending, NEW next,
         RemoveFromChunk(d, s, pending, next)
  PROVE  /\ \A x \in Slots : Allocated(x)' <=> Allocated(x) /\ x # s
         /\ free' \in [Chunks -> SUBSET Indices] /\ free'[s[1]] # {} /\ s[1] \in mapped
         /\ \A x \in Chunks : x # s[1] => free'[x] = free[x]
         /\ \/ /\ free[s[1]] # {}
               /\ at' = [at EXCEPT ![d] = next] /\ root' = [root EXCEPT ![d] = NULL]
            \/ at' = [at EXCEPT ![d] = pending] /\ root' = [root EXCEPT ![d] = s]
<1>1. /\ free' = [free EXCEPT ![s[1]] = @ \cup {s[2]}] /\ mapped' = mapped
      /\ \/ /\ free[s[1]] # {}
            /\ at' = [at EXCEPT ![d] = next] /\ root' = [root EXCEPT ![d] = NULL]
         \/ at' = [at EXCEPT ![d] = pending] /\ root' = [root EXCEPT ![d] = s]
  BY DEF RemoveFromChunk
<1>2. free \in [Chunks -> SUBSET Indices] /\ s[1] \in Chunks /\ s[2] \in Indices
  BY SlotIs DEF BitInv, Types
<1>3. /\ free' \in [Chunks -> SUBSET Indices] /\ free'[s[1]] = free[s[1]] \cup {s[2]}
      /\ \A x \in Chunks : x # s[1] => free'[x] = free[x]
  BY <1>1, <1>2
<1>4. ASSUME NEW x \in Slots PROVE Allocated(x)' <=> Allocated(x) /\ x # s
  <2>1. x[1] \in Chunks /\ (x = s <=> x[1] = s[1] /\ x[2] = s[2])
    BY SlotIs
  <2> QED BY <1>1, <1>3, <2>1 DEF Allocated
<1>5. s[1] \in mapped
  BY DEF Allocated
<1> QED BY <1>1, <1>3, <1>4, <1>5

LEMMA RemoveKeeps ==
  ASSUME BitInv, NEW d \in Domains, NEW s \in Slots, CanCall(d), Rooted(s),
         NEW pending \in {"delete", "modify"}, NEW next \in {"idle", "create"},
         RemoveFromChunk(d, s, pending, next)
  PROVE  BitInv'
<1> USE DEF BitInv
<1> DEFINE c == s[1]
<1>1. /\ \A x \in Slots : Allocated(x)' <=> Allocated(x) /\ x # s
      /\ free' \in [Chunks -> SUBSET Indices] /\ free'[c] # {} /\ c \in mapped
      /\ \A x \in Chunks : x # c => free'[x] = free[x]
      /\ \/ /\ free[c] # {}
            /\ at' = [at EXCEPT ![d] = next] /\ root' = [root EXCEPT ![d] = NULL]
         \/ at' = [at EXCEPT ![d] = pending] /\ root' = [root EXCEPT ![d] = s]
  BY RemoveDoes DEF Rooted
<1>2. s # NULL /\ UNCHANGED <<status, young, old, mapped, is_young, slot, lock, gc>>
  BY SlotIs DEF RemoveFromChunk
<1>3. status = "setup" /\ gc.kind = "none" /\ at[d] = "idle" /\ root[d] = NULL
  BY DEF CanCall, Places
<1> HIDE DEF c
<1>4. at \in [Domains -> {"idle", "reclassify", "delete", "modify", "create"}]
      /\ root \in [Domains -> Slots \cup {NULL}]
  BY DEF Types
<1>5. \A e \in Domains : e # d => at'[e] = at[e] /\ root'[e] = root[e]
  BY <1>1, <1>4
<1>6. \/ at'[d] = next /\ root'[d] = NULL /\ free[c] # {}
      \/ at'[d] = pending /\ root'[d] = s
  BY <1>1, <1>4
<1>7. Types'
  <2>1. root' \in [Domains -> Slots \cup {NULL}]
        /\ at' \in [Domains -> {"idle", "reclassify", "delete", "modify", "create"}]
    BY <1>1, <1>4
  <2> QED BY <1>1, <1>2, <2>1 DEF Types
<1>8. RingsOK'
  BY <1>2 DEF RingsOK, YoungOnes, OldOnes
<1>9. FreeChunks'
  BY <1>1, <1>2 DEF FreeChunks
<1>10. Places'
  <2>1. \A e \in Domains : at'[e] \in {"idle", "create"} <=> root'[e] = NULL
    BY <1>2, <1>5, <1>6 DEF Places
  <2>2. \A e \in Domains : at'[e] = "reclassify" => lock' = e /\ Allocated(root[e])'
    <3> SUFFICES ASSUME NEW e \in Domains, at'[e] = "reclassify" PROVE lock' = e /\ Allocated(root[e])'
      OBVIOUS
    <3>1. e # d /\ at[e] = "reclassify" /\ root'[e] = root[e]
      BY <1>5, <1>6
    <3>2. lock = e /\ Allocated(root[e]) /\ root[e] # s
      BY <3>1 DEF Places, Rooted
    <3>3. root[e] \in Slots
      BY <1>4, <3>1 DEF Places
    <3>4. PICK x \in Slots : x = root[e]
      BY <3>3
    <3>5. Allocated(x)'
      BY <1>1, <3>2, <3>4
    <3> QED BY <1>2, <3>1, <3>2, <3>4, <3>5 DEF Allocated
  <2> QED BY <1>2, <1>3, <2>1, <2>2 DEF Places
<1>11. FullBehind'
  <2> SUFFICES ASSUME NEW a \in Chunks, NEW b \in Chunks, Before(young', a, b),
                      free'[a] = {}, free'[b] # {}, ~ AboutToMove(a, b)'
               PROVE  /\ Before(young, a, b) /\ free[a] = {} /\ free[b] # {}
                      /\ AboutToMove(a, b) => AboutToMove(a, b)'
    BY FullBehindBecomes DEF chunk_is_full
  <2>1. a # c /\ free[a] = {}
    BY <1>1
  <2>2. free[b] # {}
    <3>1. CASE b # c
      BY <1>1, <3>1
    <3>2. CASE b = c /\ free[c] = {}
      <4>1. root'[d] = s
        BY <1>6, <3>2
      <4> QED BY <1>2, <3>2, <4>1 DEF AboutToMove, c
    <3> QED BY <3>1, <3>2
  <2>3. AboutToMove(a, b) => AboutToMove(a, b)'
    <3> SUFFICES ASSUME NEW e \in Domains, root[e] # NULL,
                        root[e][1] = b \/ (at[e] = "reclassify" /\ root[e][1] = a)
                 PROVE  AboutToMove(a, b)'
      BY DEF AboutToMove
    <3>1. e # d /\ root'[e] = root[e] /\ at'[e] = at[e]
      BY <1>3, <1>5
    <3> QED BY <3>1 DEF AboutToMove
  <2> QED BY <1>2, <2>1, <2>2, <2>3
<1>12. AgesOK'
  <2> SUFFICES ASSUME NEW x \in Slots, Allocated(x)' PROVE AgeOK(x)'
    BY DEF AgesOK
  <2>1. Allocated(x)
    BY <1>1
  <2> QED BY <1>2, <2>1 DEF AgesOK, AgeOK
<1> QED BY <1>7, <1>8, <1>9, <1>10, <1>11, <1>12

\* A move loses no chunk and changes the order around the chunk alone.
LEMMA ReclassifyDoes ==
  ASSUME BitInv, NEW c \in mapped, reclassify_chunk(c), UNCHANGED <<is_young, free>>
  PROVE  /\ RingsOK' /\ mapped' \subseteq mapped
         /\ \A x \in mapped : x \notin mapped' => free[x] = Indices
         /\ \A a, b : Before(young', a, b) =>
               \/ Before(young, a, b) /\ a # c /\ b # c
               \/ a = c /\ free[c] # {}
               \/ b = c /\ free[c] = {}
<1> DEFINE wy == Without(young, {c})
           wo == Without(old, {c})
           deleted == free[c] = Indices
<1>0. Enumerates(young, YoungOnes) /\ Enumerates(old, OldOnes) /\ young \in Seq(YoungOnes)
  BY DEF BitInv, RingsOK, Enumerates
<1>1. Enumerates(wy, YoungOnes \ {c}) /\ Enumerates(wo, OldOnes \ {c})
  BY <1>0, EnumeratesWithout
<1>2. \A a, b : Before(wy, a, b) => Before(young, a, b) /\ a # c /\ b # c
  BY <1>0, BeforeWithout
<1>3. /\ young' = IF is_young[c] /\ ~ deleted
                  THEN IF free[c] = {} THEN wy \o <<c>> ELSE <<c>> \o wy
                  ELSE wy
      /\ old' = IF ~ is_young[c] /\ ~ deleted
                THEN IF free[c] = {} THEN wo \o <<c>> ELSE <<c>> \o wo
                ELSE wo
      /\ mapped' = IF deleted THEN mapped \ {c} ELSE mapped
  BY DEF reclassify_chunk, chunk_is_full
<1>4. is_young[c] \in BOOLEAN /\ (c \in YoungOnes <=> is_young[c]) /\ (c \in OldOnes <=> ~ is_young[c])
  BY DEF BitInv, Types, YoungOnes, OldOnes
<1> HIDE DEF wy, wo
<1>5. mapped' \subseteq mapped /\ \A x \in mapped : x \notin mapped' => free[x] = Indices
  BY <1>3
<1>6. Enumerates(young', YoungOnes')
  <2>1. CASE is_young[c] /\ ~ deleted
    <3>1. YoungOnes' = (YoungOnes \ {c}) \cup {c}
      BY <1>3, <1>4, <2>1 DEF YoungOnes
    <3>2. Enumerates(wy \o <<c>>, (YoungOnes \ {c}) \cup {c})
      <4>1. Enumerates(Append(wy, c), (YoungOnes \ {c}) \cup {c})
        BY <1>1, EnumeratesAppend
      <4>2. Append(wy, c) = wy \o <<c>>
        BY <1>1 DEF Enumerates
      <4> QED BY <4>1, <4>2
    <3>3. Enumerates(<<c>> \o wy, (YoungOnes \ {c}) \cup {c})
      BY <1>1, EnumeratesCons
    <3> QED BY <1>3, <2>1, <3>1, <3>2, <3>3
  <2>2. CASE ~ (is_young[c] /\ ~ deleted)
    <3>1. YoungOnes' = YoungOnes \ {c}
      BY <1>3, <1>4, <2>2 DEF YoungOnes
    <3> QED BY <1>1, <1>3, <2>2, <3>1
  <2> QED BY <2>1, <2>2
<1>7. Enumerates(old', OldOnes')
  <2>1. CASE ~ is_young[c] /\ ~ deleted
    <3>1. OldOnes' = (OldOnes \ {c}) \cup {c}
      BY <1>3, <1>4, <2>1 DEF OldOnes
    <3>2. Enumerates(wo \o <<c>>, (OldOnes \ {c}) \cup {c})
      <4>1. Enumerates(Append(wo, c), (OldOnes \ {c}) \cup {c})
        BY <1>1, EnumeratesAppend
      <4>2. Append(wo, c) = wo \o <<c>>
        BY <1>1 DEF Enumerates
      <4> QED BY <4>1, <4>2
    <3>3. Enumerates(<<c>> \o wo, (OldOnes \ {c}) \cup {c})
      BY <1>1, EnumeratesCons
    <3> QED BY <1>3, <2>1, <3>1, <3>2, <3>3
  <2>2. CASE ~ (~ is_young[c] /\ ~ deleted)
    <3>1. OldOnes' = OldOnes \ {c}
      BY <1>3, <1>4, <2>2 DEF OldOnes
    <3> QED BY <1>1, <1>3, <2>2, <3>1
  <2> QED BY <2>1, <2>2
<1>8. ASSUME NEW a, NEW b, Before(young', a, b)
      PROVE  \/ Before(young, a, b) /\ a # c /\ b # c
             \/ a = c /\ free[c] # {}
             \/ b = c /\ free[c] = {}
  <2>0. wy \in Seq(YoungOnes \ {c})
    BY <1>1 DEF Enumerates
  <2>1. CASE young' = wy
    BY <1>2, <1>8, <2>1
  <2>2. CASE free[c] = {} /\ young' = wy \o <<c>>
    <3>1. Before(wy \o <<c>>, a, b)
      BY <1>8, <2>2
    <3>2. Before(wy, a, b) \/ b = c
      BY <2>0, <3>1, BeforeAppend
    <3> QED BY <1>2, <2>2, <3>2
  <2>3. CASE free[c] # {} /\ young' = <<c>> \o wy
    <3>1. Before(<<c>> \o wy, a, b)
      BY <1>8, <2>3
    <3>2. Before(wy, a, b) \/ a = c
      BY <2>0, <3>1, BeforeCons
    <3> QED BY <1>2, <2>3, <3>2
  <2> QED BY <1>3, <2>1, <2>2, <2>3
<1> QED BY <1>5, <1>6, <1>7, <1>8 DEF RingsOK

\* No root is lost: a chunk that is freed has none.
LEMMA SameRoots ==
  ASSUME BitInv, UNCHANGED free, mapped' \subseteq mapped,
         \A x \in mapped : x \notin mapped' => free[x] = Indices
  PROVE  \A x \in Slots : Allocated(x)' <=> Allocated(x)
<1> TAKE x \in Slots
<1>1. x[2] \in Indices
  BY SlotIs
<1> QED BY <1>1 DEF Allocated

\* A domain has moved its chunk.
LEMMA MoveKeeps ==
  ASSUME BitInv, status = "setup", NEW d \in Domains, root[d] # NULL,
         RingsOK', mapped' \subseteq mapped,
         \A x \in mapped : x \notin mapped' => free[x] = Indices,
         \A a, b \in Chunks : /\ Before(young', a, b) /\ free[a] = {} /\ free[b] # {}
                              => /\ Before(young, a, b) /\ b # root[d][1]
                                 /\ at[d] = "reclassify" => a # root[d][1],
         \A e \in Domains : at[e] = "reclassify" => e = d,
         status' \in {"setup", "use after free"}, lock' \in Domains \cup {NULL},
         root' = [root EXCEPT ![d] = NULL], NEW next \in {"idle", "create"},
         at' = [at EXCEPT ![d] = next], UNCHANGED <<is_young, free, slot, gc>>
  PROVE  BitInv'
<1> USE DEF BitInv
<1>1. /\ root \in [Domains -> Slots \cup {NULL}] /\ gc.kind = "none"
      /\ at \in [Domains -> {"idle", "reclassify", "delete", "modify", "create"}]
  BY DEF Types, Places
<1>2. /\ root'[d] = NULL /\ at'[d] = next
      /\ \A e \in Domains : e # d => at'[e] = at[e] /\ root'[e] = root[e]
  BY <1>1
<1>3. Types'
  <2>1. /\ root' \in [Domains -> Slots \cup {NULL}]
        /\ at' \in [Domains -> {"idle", "reclassify", "delete", "modify", "create"}]
    BY <1>1
  <2> QED BY <2>1 DEF Types
<1>4. FreeChunks'
  BY DEF FreeChunks
<1>5. Places'
  <2>1. \A e \in Domains : at'[e] \in {"idle", "create"} <=> root'[e] = NULL
    BY <1>2 DEF Places
  <2>2. \A e \in Domains : at'[e] # "reclassify"
    BY <1>2
  <2> QED BY <1>1, <2>1, <2>2 DEF Places
<1>6. FullBehind'
  <2> SUFFICES ASSUME NEW a \in Chunks, NEW b \in Chunks, Before(young', a, b),
                      free'[a] = {}, free'[b] # {}
               PROVE  /\ Before(young, a, b) /\ free[a] = {} /\ free[b] # {}
                      /\ AboutToMove(a, b) => AboutToMove(a, b)'
    BY FullBehindBecomes DEF chunk_is_full
  <2>1. /\ Before(young, a, b) /\ b # root[d][1] /\ free[a] = {} /\ free[b] # {}
        /\ at[d] = "reclassify" => a # root[d][1]
    OBVIOUS
  <2>2. AboutToMove(a, b) => AboutToMove(a, b)'
    <3> SUFFICES ASSUME NEW e \in Domains, root[e] # NULL,
                        root[e][1] = b \/ (at[e] = "reclassify" /\ root[e][1] = a)
                 PROVE  AboutToMove(a, b)'
      BY DEF AboutToMove
    <3>1. e # d /\ root'[e] = root[e] /\ at'[e] = at[e]
      BY <1>2, <2>1
    <3> QED BY <3>1 DEF AboutToMove
  <2> QED BY <2>1, <2>2
<1>7. AgesOK'
  <2>1. \A x \in Slots : Allocated(x)' <=> Allocated(x)
    BY SameRoots
  <2> QED BY <2>1 DEF AgesOK, AgeOK
<1> QED BY <1>3, <1>4, <1>5, <1>6, <1>7

LEMMA AllocReclassifyKeeps ==
  ASSUME BitInv, NEW d \in Domains, AllocReclassify(d) PROVE BitInv'
<1> DEFINE c == root[d][1]
<1>1. /\ status = "setup" /\ at[d] = "reclassify" /\ reclassify_chunk(c)
      /\ lock' = NULL /\ at' = [at EXCEPT ![d] = "idle"] /\ root' = [root EXCEPT ![d] = NULL]
      /\ UNCHANGED <<status, is_young, free, slot, gc>>
  BY DEF AllocReclassify
<1>2. lock = d /\ Allocated(root[d]) /\ root[d] # NULL /\ \A e \in Domains : at[e] = "reclassify" => e = d
  BY <1>1 DEF BitInv, Places
<1>3. c \in mapped
  BY <1>2 DEF Allocated
<1>4. /\ RingsOK' /\ mapped' \subseteq mapped
      /\ \A x \in mapped : x \notin mapped' => free[x] = Indices
      /\ \A a, b : Before(young', a, b) =>
            \/ Before(young, a, b) /\ a # c /\ b # c
            \/ a = c /\ free[c] # {}
            \/ b = c /\ free[c] = {}
  BY <1>1, <1>3, ReclassifyDoes
<1>5. \A a, b \in Chunks : /\ Before(young', a, b) /\ free[a] = {} /\ free[b] # {}
                           => Before(young, a, b) /\ a # c /\ b # c
  BY <1>4
<1> QED BY <1>1, <1>2, <1>4, <1>5, MoveKeeps

\* A chunk at the head of its ring stays there: nothing is before it.
LEMMA DeleteReclassifyKeeps ==
  ASSUME BitInv, NEW d \in Domains, DeleteReclassify(d) PROVE BitInv'
<1> USE DEF BitInv
<1> DEFINE c == root[d][1]
           next == IF at[d] = "delete" THEN "idle" ELSE "create"
<1>1. /\ status = "setup" /\ at[d] \in {"delete", "modify"} /\ lock = NULL
      /\ root' = [root EXCEPT ![d] = NULL] /\ UNCHANGED <<is_young, free, slot, lock, gc>>
      /\ at' = [at EXCEPT ![d] = next]
      /\ \/ IsHead(c) /\ UNCHANGED <<status, young, old, mapped>>
         \/ c \notin mapped /\ status' = "use after free" /\ UNCHANGED <<young, old, mapped>>
         \/ c \in mapped /\ reclassify_chunk(c) /\ UNCHANGED status
  BY DEF DeleteReclassify
<1>2. root[d] # NULL /\ \A e \in Domains : at[e] # "reclassify"
  BY <1>1, ConstantsHold DEF Places, Constants
<1> HIDE DEF c
<1>3. status' \in {"setup", "use after free"} /\ lock' \in Domains \cup {NULL} /\ next \in {"idle", "create"}
  BY <1>1
<1>4. Enumerates(young, YoungOnes) /\ Enumerates(old, OldOnes) /\ young \in Seq(YoungOnes)
  BY DEF RingsOK, Enumerates
<1>5. /\ RingsOK' /\ mapped' \subseteq mapped
      /\ \A x \in mapped : x \notin mapped' => free[x] = Indices
      /\ \A a, b \in Chunks : /\ Before(young', a, b) /\ free[a] = {} /\ free[b] # {}
                              => Before(young, a, b) /\ b # c
  <2>1. CASE c \in mapped /\ reclassify_chunk(c)
    <3>1. /\ RingsOK' /\ mapped' \subseteq mapped
          /\ \A x \in mapped : x \notin mapped' => free[x] = Indices
          /\ \A a, b : Before(young', a, b) =>
                \/ Before(young, a, b) /\ a # c /\ b # c
                \/ a = c /\ free[c] # {}
                \/ b = c /\ free[c] = {}
      BY <1>1, <2>1, ReclassifyDoes
    <3> QED BY <3>1
  <2>2. CASE UNCHANGED <<young, old, mapped>> /\ (IsHead(c) \/ c \notin mapped)
    <3>1. RingsOK'
      BY <1>1, <2>2 DEF RingsOK, YoungOnes, OldOnes
    <3> SUFFICES ASSUME NEW a \in Chunks, NEW b \in Chunks,
                        Before(young, a, b), free[a] = {}, free[b] # {}
                 PROVE  b # c
      BY <2>2, <3>1
    <3>2. PICK i \in 1 .. Len(young), j \in 1 .. Len(young) : i < j /\ young[j] = b
      BY DEF Before
    <3>3. b \in YoungOnes
      BY <1>4, <3>2
    <3>4. CASE young # << >> /\ c = Head(young)
      BY <1>4, <3>4, BeforeHead
    <3>5. CASE old # << >> /\ c = Head(old)
      <4>1. c \in OldOnes
        BY <1>4, <3>5, EnumeratesTail
      <4> QED BY <3>3, <4>1 DEF YoungOnes, OldOnes
    <3>6. CASE c \notin mapped
      BY <3>3, <3>6 DEF YoungOnes
    <3> QED BY <2>2, <3>4, <3>5, <3>6 DEF IsHead
  <2> QED BY <1>1, <2>1, <2>2
<1>6. at[d] # "reclassify"
  BY <1>1
<1> QED BY <1>1, <1>2, <1>3, <1>5, <1>6, MoveKeeps DEF c

-----------------------------------------------------------------------------
(* The other steps.                                                        *)

LEMMA CreateKeeps ==
  ASSUME BitInv, NEW d \in Domains, NEW v \in Ages,
         bitmap_boxroot_create(d, v) \/ (ModifyCreates(d) /\ v = "young")
  PROVE  /\ status = "setup" /\ gc.kind = "none" /\ root[d] = NULL
         /\ \E c \in Chunks : Alloc(d, c, v)
         /\ BitInv'
<1>1. status = "setup" /\ at[d] \in {"idle", "create"} /\ (at[d] = "idle" => gc.kind = "none")
  BY DEF bitmap_boxroot_create, CanCall, ModifyCreates
<1>2. root[d] = NULL /\ gc.kind = "none"
  BY <1>1 DEF BitInv, Places
<1>3. PICK c \in Chunks : Alloc(d, c, v)
  BY DEF bitmap_boxroot_create, ModifyCreates
<1>4. BitInv'
  BY <1>1, <1>2, <1>3, AllocKeeps
<1> QED BY <1>1, <1>2, <1>3, <1>4

\* A step that leaves the chunks and the places of the domains alone.
LEMMA HeapSame ==
  ASSUME BitInv, UNCHANGED <<young, old, mapped, is_young, free, lock, at, root>>
  PROVE  /\ RingsOK' /\ FullBehind'
         /\ \A x \in Slots : Allocated(x)' <=> Allocated(x)
<1>1. RingsOK'
  BY DEF BitInv, RingsOK, YoungOnes, OldOnes
<1>2. FullBehind'
  BY DEF BitInv, FullBehind, AboutToMove, chunk_is_full
<1> QED BY <1>1, <1>2 DEF Allocated

LEMMA InPlaceKeeps ==
  ASSUME BitInv, NEW d \in Domains, NEW s \in Slots, NEW v \in Ages, CanCall(d), InPlace(s, v),
         slot' = [slot EXCEPT ![s] = v], Rooted(s),
         UNCHANGED <<status, young, old, mapped, is_young, free, lock, at, root, gc>>
  PROVE  BitInv'
<1> USE DEF BitInv
<1>1. RingsOK' /\ FullBehind' /\ \A x \in Slots : Allocated(x)' <=> Allocated(x)
  BY HeapSame
<1>2. Types' /\ FreeChunks'
  BY DEF Types, FreeChunks
<1>3. Places'
  BY DEF Places, Allocated
<1>4. AgesOK'
  <2> SUFFICES ASSUME NEW x \in Slots, Allocated(x) PROVE AgeOK(x)'
    BY <1>1 DEF AgesOK
  <2>1. slot'[x] = IF x = s THEN v ELSE slot[x]
    BY DEF Types
  <2>2. AgeOK(x) /\ gc.kind = "none"
    BY DEF AgesOK, CanCall
  <2> QED BY <2>1, <2>2 DEF AgeOK, InPlace, Ages
<1> QED BY <1>1, <1>2, <1>3, <1>4

LEMMA StatusKeeps ==
  ASSUME BitInv, bitmap_boxroot_setup \/ \E d \in Domains : NoMemory(d)
  PROVE  BitInv'
<1> USE DEF BitInv
<1>1. /\ status \in {"not_setup", "setup"} /\ status' \in {"setup", "crashed"} /\ gc.kind = "none"
      /\ UNCHANGED <<young, old, mapped, is_young, free, slot, lock, at, root, gc>>
  BY DEF bitmap_boxroot_setup, NoMemory, CanCall, heap, Places
<1>2. RingsOK' /\ FullBehind' /\ \A x \in Slots : Allocated(x)' <=> Allocated(x)
  BY <1>1, HeapSame
<1>3. Types' /\ FreeChunks'
  BY <1>1 DEF Types, FreeChunks
<1>4. Places'
  BY <1>1 DEF Places, Allocated
<1>5. AgesOK'
  BY <1>1, <1>2 DEF AgesOK, AgeOK
<1> QED BY <1>2, <1>3, <1>4, <1>5

LEMMA TeardownKeeps ==
  ASSUME BitInv, bitmap_boxroot_teardown
  PROVE  mapped' = {} /\ BitInv'
<1> USE DEF BitInv
<1>1. /\ status' = "tore_down" /\ gc.kind = "none" /\ \A d \in Domains : at[d] = "idle"
      /\ young' = << >> /\ old' = << >> /\ mapped' = mapped \ ToSet(young \o old)
      /\ UNCHANGED <<is_young, free, slot, lock, at, root, gc>>
  BY DEF bitmap_boxroot_teardown
<1>2. mapped' = {}
  <2>1. YoungOnes \cap OldOnes = {} /\ YoungOnes \cup OldOnes = mapped
    BY DEF YoungOnes, OldOnes
  <2>2. Enumerates(young \o old, YoungOnes \cup OldOnes)
    BY <2>1, EnumeratesJoin DEF RingsOK
  <2>3. ToSet(young \o old) = mapped
    BY <2>1, <2>2, EnumeratesToSet
  <2> QED BY <1>1, <2>3
<1>3. Types'
  BY <1>1, <1>2 DEF Types
<1>4. RingsOK'
  <2>1. YoungOnes' = {} /\ OldOnes' = {}
    BY <1>2 DEF YoungOnes, OldOnes
  <2> QED BY <1>1, <2>1, EnumeratesNone DEF RingsOK
<1>5. FreeChunks' /\ AgesOK'
  BY <1>1, <1>2 DEF FreeChunks, AgesOK, Allocated
<1>6. Places'
  BY <1>1 DEF Places
<1>7. FullBehind'
  BY <1>1 DEF FullBehind, Before
<1> QED BY <1>2, <1>3, <1>4, <1>5, <1>6, <1>7

LEMMA StartKeeps ==
  ASSUME BitInv, NEW kind \in {"minor", "major"}, StartGC(kind) PROVE BitInv'
<1> USE DEF BitInv
<1>1. /\ status \in {"not_setup", "setup"} /\ \A d \in Domains : at[d] = "idle"
      /\ gc' = [kind |-> kind, scanned |-> FALSE]
      /\ UNCHANGED <<status, young, old, mapped, is_young, free, slot, lock, at, root>>
  BY DEF StartGC, heap
<1>2. RingsOK' /\ FullBehind' /\ \A x \in Slots : Allocated(x)' <=> Allocated(x)
  BY <1>1, HeapSame
<1>3. Types' /\ FreeChunks'
  BY <1>1 DEF Types, FreeChunks
<1>4. Places'
  BY <1>1 DEF Places
<1>5. AgesOK'
  BY <1>1, <1>2 DEF AgesOK, AgeOK
<1> QED BY <1>2, <1>3, <1>4, <1>5

\* A scan meets every chunk of its rings: a minor one those that have young
\* roots.
LEMMA ScanDoes ==
  ASSUME BitInv, scan_roots
  PROVE  /\ gc.kind # "none" /\ gc'.kind = gc.kind /\ gc'.scanned /\ UNCHANGED <<mapped, free>>
         /\ \A s \in Slots : Allocated(s)' <=> Allocated(s)
         /\ slot' \in [Slots -> Ages \cup {"marked", "dead"}]
         /\ gc.kind = "minor" => \A s \in Slots : Allocated(s) =>
              slot'[s] = IF slot[s] = "young" THEN "old" ELSE slot[s]
         /\ gc.kind = "major" => is_young' = is_young /\ \A s \in Slots : Allocated(s) =>
              slot'[s] = IF slot[s] = "old" THEN "marked" ELSE slot[s]
<1> USE DEF BitInv
<1>1. /\ gc.kind \in {"minor", "major"} /\ gc'.kind = gc.kind /\ gc'.scanned
      /\ UNCHANGED <<mapped, free>>
  BY DEF scan_roots, heap, promote, Types
<1>2. \A s \in Slots : Allocated(s)' <=> Allocated(s)
  BY <1>1 DEF Allocated
<1>3. YoungOnes \cup OldOnes = mapped /\ YoungOnes = {c \in mapped : is_young[c]}
  BY DEF YoungOnes, OldOnes
<1>4. CASE status # "setup"
  <2>1. mapped = {} /\ UNCHANGED <<slot, is_young>>
    BY <1>1, <1>4 DEF Places, FreeChunks, scan_roots, heap
  <2> QED BY <1>1, <1>2, <2>1 DEF Allocated, Types
<1>5. CASE status = "setup" /\ gc.kind = "minor"
  <2>1. slot' = [s \in Slots |->
                   IF s[1] \in ToSet(young) /\ Allocated(s) /\ slot[s] = "young"
                   THEN "old" ELSE slot[s]]
    BY <1>5 DEF scan_roots
  <2>2. \A s \in Slots : Allocated(s) /\ slot[s] = "young" => s[1] \in ToSet(young)
    BY <1>3, RingTypes DEF AgesOK, AgeOK, Allocated
  <2>3. slot' \in [Slots -> Ages \cup {"marked", "dead"}]
    BY <2>1 DEF Types, Ages
  <2>4. \A s \in Slots : Allocated(s) => slot'[s] = IF slot[s] = "young" THEN "old" ELSE slot[s]
    BY <2>1, <2>2
  <2> QED BY <1>1, <1>2, <1>5, <2>3, <2>4
<1>6. CASE status = "setup" /\ gc.kind = "major"
  <2>1. /\ slot' = [s \in Slots |->
                      IF s[1] \in ToSet(young \o old) /\ Allocated(s) /\ slot[s] = "old"
                      THEN "marked" ELSE slot[s]]
        /\ is_young' = is_young
    BY <1>6 DEF scan_roots
  <2>2. ToSet(young \o old) = mapped
    <3>1. Enumerates(young \o old, YoungOnes \cup OldOnes)
      <4>1. YoungOnes \cap OldOnes = {}
        BY DEF YoungOnes, OldOnes
      <4> QED BY <4>1, EnumeratesJoin DEF RingsOK
    <3> QED BY <1>3, <3>1, EnumeratesToSet
  <2>3. slot' \in [Slots -> Ages \cup {"marked", "dead"}]
    BY <2>1 DEF Types, Ages
  <2>4. \A s \in Slots : Allocated(s) => slot'[s] = IF slot[s] = "old" THEN "marked" ELSE slot[s]
    BY <2>1, <2>2 DEF Allocated
  <2> QED BY <1>1, <1>2, <1>6, <2>1, <2>3, <2>4
<1> QED BY <1>1, <1>4, <1>5, <1>6

\* A promotion leaves the young ring empty.
LEMMA PromoteDoes ==
  ASSUME BitInv, promote, UNCHANGED mapped
  PROVE  RingsOK' /\ young' = << >> /\ is_young' \in [Chunks -> BOOLEAN]
<1>1. Enumerates(young, YoungOnes) /\ Enumerates(old, OldOnes) /\ mapped \subseteq Chunks
      /\ is_young \in [Chunks -> BOOLEAN]
  BY DEF BitInv, RingsOK, Types
<1>2. young' = << >> /\ old' = old \o young
      /\ is_young' = [c \in Chunks |-> is_young[c] /\ c \notin YoungOnes]
  BY <1>1, EnumeratesToSet DEF promote
<1>3. \A c \in mapped : ~ is_young'[c]
  BY <1>1, <1>2 DEF YoungOnes
<1>4. YoungOnes' = {} /\ OldOnes' = OldOnes \cup YoungOnes /\ OldOnes \cap YoungOnes = {}
  BY <1>3 DEF YoungOnes, OldOnes
<1>5. Enumerates(old \o young, OldOnes \cup YoungOnes)
  BY <1>1, <1>4, EnumeratesJoin
<1>6. is_young' \in [Chunks -> BOOLEAN]
  BY <1>1, <1>2
<1> QED BY <1>2, <1>4, <1>5, <1>6, EnumeratesNone DEF RingsOK

LEMMA ScanKeeps == ASSUME BitInv, scan_roots PROVE BitInv'
<1> USE DEF BitInv
<1>1. /\ gc.kind # "none" /\ gc'.kind = gc.kind /\ gc'.scanned /\ UNCHANGED <<mapped, free>>
      /\ \A s \in Slots : Allocated(s)' <=> Allocated(s)
      /\ slot' \in [Slots -> Ages \cup {"marked", "dead"}]
      /\ gc.kind = "minor" => \A s \in Slots : Allocated(s) =>
           slot'[s] = IF slot[s] = "young" THEN "old" ELSE slot[s]
      /\ gc.kind = "major" => is_young' = is_young /\ \A s \in Slots : Allocated(s) =>
           slot'[s] = IF slot[s] = "old" THEN "marked" ELSE slot[s]
  BY ScanDoes
<1>2. UNCHANGED <<status, lock, at, root>> /\ gc' = [gc EXCEPT !.scanned = TRUE]
  BY DEF scan_roots
<1>3. gc.kind \in {"minor", "major"} /\ gc' \in [kind : {"none", "minor", "major"}, scanned : BOOLEAN]
  BY <1>1, <1>2 DEF Types
<1>4. \/ UNCHANGED <<young, old, mapped, is_young, free, lock, at, root>>
      \/ promote
  BY <1>1, <1>2 DEF scan_roots, heap
<1>5. RingsOK' /\ FullBehind' /\ is_young' \in [Chunks -> BOOLEAN]
  <2>1. CASE UNCHANGED <<young, old, mapped, is_young, free, lock, at, root>>
    BY <2>1, HeapSame DEF Types
  <2>2. CASE promote
    <3>1. RingsOK' /\ young' = << >> /\ is_young' \in [Chunks -> BOOLEAN]
      BY <1>1, <2>2, PromoteDoes
    <3> QED BY <3>1 DEF FullBehind, Before
  <2> QED BY <1>4, <2>1, <2>2
<1>6. Types'
  BY <1>1, <1>2, <1>3, <1>5 DEF Types
<1>7. FreeChunks' /\ Places'
  BY <1>1, <1>2 DEF FreeChunks, Places, Allocated
<1>8. AgesOK'
  <2> SUFFICES ASSUME NEW s \in Slots, Allocated(s) PROVE AgeOK(s)'
    BY <1>1 DEF AgesOK
  <2>1. AgeOK(s)
    BY DEF AgesOK
  <2> QED BY <1>1, <1>3, <2>1 DEF AgeOK
<1> QED BY <1>5, <1>6, <1>7, <1>8

\* Nothing that a root of a live slot reaches is reclaimed.
LEMMA EndDoes ==
  ASSUME BitInv, EndGC
  PROVE  /\ \A s \in Slots : Allocated(s)' <=> Allocated(s)
         /\ slot' \in [Slots -> Ages \cup {"marked", "dead"}]
         /\ \A s \in Slots : Allocated(s) =>
              slot'[s] = IF slot[s] = "marked" THEN "old" ELSE slot[s]
<1>1. UNCHANGED <<mapped, free>> /\ gc.scanned /\ gc.kind # "none"
  BY DEF EndGC
<1>2. \A s \in Slots : Allocated(s)' <=> Allocated(s)
  BY <1>1 DEF Allocated
<1>3. slot' = [s \in Slots |->
                 CASE ~ Allocated(s) -> "old"
                   [] slot[s] = "marked" -> "old"
                   [] slot[s] = "young" /\ gc.kind = "minor" -> "dead"
                   [] slot[s] = "old" /\ gc.kind = "major" -> "dead"
                   [] OTHER -> slot[s]]
  BY DEF EndGC
<1>4. \A s \in Slots : /\ slot'[s] \in {"old", "dead", slot[s]}
                       /\ Allocated(s) /\ ~ (slot[s] = "young" /\ gc.kind = "minor")
                            /\ ~ (slot[s] = "old" /\ gc.kind = "major") =>
                          slot'[s] = IF slot[s] = "marked" THEN "old" ELSE slot[s]
  BY <1>3
<1>5. slot' \in [Slots -> Ages \cup {"marked", "dead"}]
  BY <1>3, <1>4 DEF BitInv, Types, Ages
<1>6. ASSUME NEW s \in Slots, Allocated(s)
      PROVE  slot'[s] = IF slot[s] = "marked" THEN "old" ELSE slot[s]
  <2>1. AgeOK(s)
    BY <1>6 DEF BitInv, AgesOK
  <2> QED BY <1>1, <1>4, <1>6, <2>1 DEF AgeOK
<1> QED BY <1>2, <1>5, <1>6

LEMMA EndKeeps == ASSUME BitInv, EndGC PROVE BitInv'
<1> USE DEF BitInv
<1>1. /\ gc' = [kind |-> "none", scanned |-> FALSE]
      /\ UNCHANGED <<status, young, old, mapped, is_young, free, lock, at, root>>
  BY DEF EndGC
<1>2. RingsOK' /\ FullBehind' /\ \A x \in Slots : Allocated(x)' <=> Allocated(x)
  BY <1>1, HeapSame
<1>3. Types' /\ FreeChunks'
  BY <1>1, EndDoes DEF Types, FreeChunks
<1>4. Places'
  BY <1>1 DEF Places, Allocated
<1>5. AgesOK'
  <2> SUFFICES ASSUME NEW s \in Slots, Allocated(s) PROVE AgeOK(s)'
    BY <1>2 DEF AgesOK
  <2>1. AgeOK(s) /\ slot'[s] = IF slot[s] = "marked" THEN "old" ELSE slot[s]
    BY EndDoes DEF AgesOK
  <2> QED BY <1>1, <2>1 DEF AgeOK
<1> QED BY <1>2, <1>3, <1>4, <1>5

-----------------------------------------------------------------------------
(* The invariants.                                                         *)

LEMMA DeleteKeeps ==
  ASSUME BitInv, NEW d \in Domains, NEW s \in Slots, bitmap_boxroot_delete(d, s)
  PROVE  BitInv'
<1>1. CanCall(d) /\ Rooted(s) /\ RemoveFromChunk(d, s, "delete", "idle")
  BY DEF bitmap_boxroot_delete
<1> QED BY <1>1, RemoveKeeps

LEMMA ModifyKeeps ==
  ASSUME BitInv, NEW d \in Domains, NEW s \in Slots, NEW v \in Ages, bitmap_boxroot_modify(d, s, v)
  PROVE  BitInv'
<1>1. CASE InPlace(s, v)
  BY <1>1, InPlaceKeeps DEF bitmap_boxroot_modify
<1>2. CASE ~ InPlace(s, v)
  <2>1. CanCall(d) /\ Rooted(s) /\ RemoveFromChunk(d, s, "modify", "create")
    BY <1>2 DEF bitmap_boxroot_modify
  <2> QED BY <2>1, RemoveKeeps
<1> QED BY <1>1, <1>2

\* The invariant is inductive.
THEOREM BitInvariance == Spec => []BitInv
<1>1. Init => BitInv
  BY InitHolds
<1>2. BitInv /\ [Next]_vars => BitInv'
  <2> SUFFICES ASSUME BitInv, [Next]_vars PROVE BitInv'
    OBVIOUS
  <2>1. CASE bitmap_boxroot_setup \/ \E d \in Domains : NoMemory(d)
    BY <2>1, StatusKeeps
  <2>2. ASSUME NEW d \in Domains, NEW v \in Ages, bitmap_boxroot_create(d, v) PROVE BitInv'
    BY <2>2, CreateKeeps
  <2>3. ASSUME NEW d \in Domains, NEW s \in Slots, bitmap_boxroot_delete(d, s) PROVE BitInv'
    BY <2>3, DeleteKeeps
  <2>4. ASSUME NEW d \in Domains, NEW s \in Slots, NEW v \in Ages, bitmap_boxroot_modify(d, s, v)
        PROVE  BitInv'
    BY <2>4, ModifyKeeps
  <2>5. ASSUME NEW d \in Domains, AllocReclassify(d) PROVE BitInv'
    BY <2>5, AllocReclassifyKeeps
  <2>6. ASSUME NEW d \in Domains, DeleteReclassify(d) PROVE BitInv'
    BY <2>6, DeleteReclassifyKeeps
  <2>7. ASSUME NEW d \in Domains, ModifyCreates(d) PROVE BitInv'
    <3>1. "young" \in Ages
      BY DEF Ages
    <3> QED BY <2>7, <3>1, CreateKeeps
  <2>8. CASE bitmap_boxroot_teardown
    BY <2>8, TeardownKeeps
  <2>9. CASE \E kind \in {"minor", "major"} : StartGC(kind)
    BY <2>9, StartKeeps
  <2>10. CASE scan_roots
    BY <2>10, ScanKeeps
  <2>11. CASE EndGC
    BY <2>11, EndKeeps
  <2>12. CASE UNCHANGED vars
    <3>1. UNCHANGED <<status, young, old, mapped, is_young, free, slot, lock, at, root, gc>>
      BY <2>12 DEF vars
    <3>2. RingsOK' /\ FullBehind' /\ \A x \in Slots : Allocated(x)' <=> Allocated(x)
      BY <3>1, HeapSame
    <3>3. Types' /\ FreeChunks' /\ Places' /\ AgesOK'
      BY <3>1, <3>2 DEF BitInv, Types, FreeChunks, Places, Allocated, AgesOK, AgeOK
    <3> QED BY <3>2, <3>3 DEF BitInv
  <2> QED BY <2>1, <2>2, <2>3, <2>4, <2>5, <2>6, <2>7, <2>8, <2>9, <2>10, <2>11, <2>12 DEF Next
<1> QED BY <1>1, <1>2, PTL DEF Spec

\* Whoever moves the chunks, and whatever was deleted without the mutex, every
\* chunk that the system has given is once on the ring of its class.
THEOREM ChunksOnRings == Spec => []ChunksOnTheirRing
<1>1. BitInv => ChunksOnTheirRing
  <2> SUFFICES ASSUME BitInv PROVE ChunksOnTheirRing
    OBVIOUS
  <2>1. /\ young \in Seq(mapped) /\ old \in Seq(mapped)
        /\ ToSet(young) = YoungOnes /\ ToSet(old) = OldOnes
    BY RingTypes DEF BitInv
  <2>2. IsInjective(young \o old)
    <3>1. YoungOnes \cap OldOnes = {}
      BY DEF YoungOnes, OldOnes
    <3>2. Enumerates(young \o old, YoungOnes \cup OldOnes)
      BY <3>1, EnumeratesJoin DEF BitInv, RingsOK
    <3> QED BY <3>2, EnumeratesToSet
  <2> QED BY <2>1, <2>2 DEF BitInv, Types, ChunksOnTheirRing, TypeOK, YoungOnes, OldOnes
<1> QED BY <1>1, BitInvariance, PTL

\* A full chunk is before one with room in the young ring only as long as a
\* domain is about to move one of the two.
THEOREM NonFullFirst == Spec => []NonFullAtTheStart
<1>1. BitInv => NonFullAtTheStart
  <2> SUFFICES ASSUME BitInv, NEW i \in DOMAIN young, NEW j \in DOMAIN young,
                      i < j, chunk_is_full(young[i]), ~ chunk_is_full(young[j])
               PROVE  \E d \in Domains : root[d] # NULL /\ root[d][1] \in {young[i], young[j]}
    BY DEF NonFullAtTheStart
  <2>1. young \in Seq(Chunks)
    <3>1. young \in Seq(mapped) /\ mapped \subseteq Chunks
      BY RingTypes DEF BitInv, Types
    <3> QED BY <3>1
  <2>2. DOMAIN young = 1 .. Len(young) /\ young[i] \in Chunks /\ young[j] \in Chunks
    BY <2>1
  <2>3. Before(young, young[i], young[j])
    BY <2>2 DEF Before
  <2>4. AboutToMove(young[i], young[j])
    BY <2>2, <2>3 DEF BitInv, FullBehind
  <2> QED BY <2>4 DEF AboutToMove
<1> QED BY <1>1, BitInvariance, PTL

-----------------------------------------------------------------------------
(* The table of GC roots.                                                  *)

Seen1(s, v) == [x \in Slots |-> Seen(x)]' = [[x \in Slots |-> Seen(x)] EXCEPT ![s] = v]

LEMMA Seen1Is ==
  ASSUME NEW s \in Slots, NEW v, \A x \in Slots : Seen(x)' = IF x = s THEN v ELSE Seen(x)
  PROVE  Seen1(s, v)
BY DEF Seen1

\* No root changes.
LEMMA NoRoot ==
  ASSUME \A x \in Slots : Seen(x)' = Seen(x), gc'.kind = gc.kind
  PROVE  UNCHANGED Table!tableVars
BY DEF Table!tableVars

\* A creation is complete for the table when the slot is taken: its chunk may
\* have to move yet.
LEMMA CreateStep ==
  ASSUME BitInv, NEW d \in Domains, NEW v \in Ages,
         bitmap_boxroot_create(d, v) \/ (ModifyCreates(d) /\ v = "young")
  PROVE  Table!TableNext
<1>1. status = "setup" /\ gc.kind = "none" /\ \E c \in Chunks : Alloc(d, c, v)
  BY CreateKeeps
<1>2. PICK s \in Slots : Allocates(d, s, v)
  BY <1>1, AllocDoes
<1>3. /\ ~ Allocated(s) /\ \A x \in Slots : Allocated(x)' <=> Allocated(x) \/ x = s
      /\ slot' = [slot EXCEPT ![s] = v] /\ gc' = gc
  BY <1>2 DEF Allocates
<1>4. \A x \in Slots : slot'[x] = IF x = s THEN v ELSE slot[x]
  BY <1>3 DEF BitInv, Types
<1>5. \A x \in Slots : Seen(x)' = IF x = s THEN v ELSE Seen(x)
  BY <1>3, <1>4 DEF Seen, Ages
<1>6. Seen1(s, v)
  BY <1>5, Seen1Is
<1>7. Seen(s) = "free"
  BY <1>3 DEF Seen
<1>8. Table!CreateRoot(s, v)
  BY <1>1, <1>3, <1>6, <1>7 DEF Seen1, Table!CreateRoot
<1> QED BY <1>8 DEF Table!TableNext, Table!Ages, Ages

LEMMA RemoveStep ==
  ASSUME BitInv, NEW d \in Domains, NEW s \in Slots, Rooted(s), NEW pending, NEW next,
         RemoveFromChunk(d, s, pending, next)
  PROVE  Table!TableNext
<1>1. Allocated(s) /\ \A x \in Slots : Allocated(x)' <=> Allocated(x) /\ x # s
  BY RemoveDoes DEF Rooted
<1>2. slot' = slot /\ gc' = gc
  BY DEF RemoveFromChunk
<1>3. \A x \in Slots : Seen(x)' = IF x = s THEN "free" ELSE Seen(x)
  BY <1>1, <1>2 DEF Seen
<1>4. Seen1(s, "free")
  BY <1>3, Seen1Is
<1>5. Seen(s) # "free"
  BY <1>1 DEF Seen, BitInv, Types, Ages
<1>6. Table!DeleteRoot(s)
  BY <1>2, <1>4, <1>5 DEF Seen1, Table!DeleteRoot
<1> QED BY <1>6 DEF Table!TableNext

LEMMA ModifyStep ==
  ASSUME BitInv, NEW d \in Domains, NEW s \in Slots, NEW v \in Ages, bitmap_boxroot_modify(d, s, v)
  PROVE  Table!TableNext
<1>0. CanCall(d) /\ Rooted(s)
  BY DEF bitmap_boxroot_modify
<1>1. CASE InPlace(s, v)
  <2>1. /\ slot' = [slot EXCEPT ![s] = v] /\ UNCHANGED <<mapped, free, gc>>
        /\ gc.kind = "none" /\ Allocated(s)
    BY <1>0, <1>1 DEF bitmap_boxroot_modify, CanCall, Rooted
  <2>2. \A x \in Slots : slot'[x] = IF x = s THEN v ELSE slot[x]
    BY <2>1 DEF BitInv, Types
  <2>3. \A x \in Slots : Allocated(x)' <=> Allocated(x)
    BY <2>1 DEF Allocated
  <2>4. \A x \in Slots : Seen(x)' = IF x = s THEN v ELSE Seen(x)
    BY <2>1, <2>2, <2>3 DEF Seen, Ages
  <2>5. Seen1(s, v)
    BY <2>4, Seen1Is
  <2>6. Seen(s) # "free"
    BY <2>1 DEF Seen, BitInv, Types, Ages
  <2>7. Table!ModifyRoot(s, v)
    BY <2>1, <2>5, <2>6 DEF Seen1, Table!ModifyRoot
  <2> QED BY <2>7 DEF Table!TableNext, Table!Ages, Ages
<1>2. CASE ~ InPlace(s, v)
  <2>1. RemoveFromChunk(d, s, "modify", "create")
    BY <1>2 DEF bitmap_boxroot_modify
  <2> QED BY <1>0, <2>1, RemoveStep
<1> QED BY <1>1, <1>2

LEMMA MoveStep ==
  ASSUME BitInv, NEW d \in Domains, AllocReclassify(d) \/ DeleteReclassify(d)
  PROVE  UNCHANGED Table!tableVars
<1> DEFINE c == root[d][1]
<1>1. UNCHANGED <<is_young, free, slot, gc>>
  BY DEF AllocReclassify, DeleteReclassify
<1>2. mapped' = mapped \/ (c \in mapped /\ reclassify_chunk(c))
  <2>1. CASE AllocReclassify(d)
    <3>1. Allocated(root[d]) /\ reclassify_chunk(c)
      BY <2>1 DEF AllocReclassify, BitInv, Places
    <3> QED BY <3>1 DEF Allocated
  <2>2. CASE DeleteReclassify(d)
    BY <2>2 DEF DeleteReclassify
  <2> QED BY <2>1, <2>2
<1> HIDE DEF c
<1>3. \A x \in Slots : Allocated(x)' <=> Allocated(x)
  <2>1. mapped' \subseteq mapped /\ \A x \in mapped : x \notin mapped' => free[x] = Indices
    BY <1>1, <1>2, ReclassifyDoes
  <2> QED BY <1>1, <2>1, SameRoots
<1>4. \A x \in Slots : Seen(x)' = Seen(x)
  BY <1>1, <1>3 DEF Seen
<1> QED BY <1>1, <1>4, NoRoot

LEMMA SeenType ==
  ASSUME BitInv
  PROVE  \A x \in Slots : Seen(x) \in {"young", "old", "free"}
BY DEF BitInv, Types, AgesOK, AgeOK, Seen, Ages

LEMMA ScanStep ==
  ASSUME BitInv, scan_roots PROVE [Table!TableNext]_(Table!tableVars)
<1>1. gc.kind \in {"minor", "major"} /\ gc'.kind = gc.kind /\ \A s \in Slots : Allocated(s)' <=> Allocated(s)
  BY ScanDoes DEF BitInv, Types
<1>2. CASE gc.kind = "minor"
  <2>1. \A s \in Slots : Allocated(s) => slot'[s] = IF slot[s] = "young" THEN "old" ELSE slot[s]
    BY <1>2, ScanDoes
  <2>2. \A s \in Slots : Seen(s)' = Seen(s) \/ (Seen(s) = "young" /\ Seen(s)' = "old")
    BY <1>1, <2>1 DEF Seen
  <2>3. \A s \in Slots : Seen(s)' \in {"young", "old", "free"}
    BY <2>2, SeenType
  <2>4. Table!Promote
    BY <1>1, <1>2, <2>2, <2>3 DEF Table!Promote, Table!Ages
  <2> QED BY <2>4 DEF Table!TableNext
<1>3. CASE gc.kind = "major"
  <2>1. \A s \in Slots : Allocated(s) => slot'[s] = IF slot[s] = "old" THEN "marked" ELSE slot[s]
    BY <1>3, ScanDoes
  <2>2. \A s \in Slots : Seen(s)' = Seen(s)
    BY <1>1, <2>1 DEF Seen
  <2> QED BY <1>1, <2>2, NoRoot
<1> QED BY <1>1, <1>2, <1>3

LEMMA EndStep == ASSUME BitInv, EndGC PROVE Table!TableNext
<1>1. gc.kind # "none" /\ gc.scanned /\ gc'.kind = "none"
  BY DEF EndGC
<1>2. \A s \in Slots : /\ Allocated(s)' <=> Allocated(s)
                       /\ Allocated(s) => slot'[s] = IF slot[s] = "marked" THEN "old" ELSE slot[s]
  BY EndDoes
<1>3. \A s \in Slots : Seen(s)' = Seen(s)
  BY <1>2 DEF Seen
<1>4. gc.kind = "minor" => \A s \in Slots : Seen(s) # "young"
  BY <1>1 DEF BitInv, AgesOK, AgeOK, Seen
<1>5. Table!EndCollection
  BY <1>1, <1>3, <1>4 DEF Table!EndCollection
<1> QED BY <1>5 DEF Table!TableNext

\* Every step of the prototype is a step of the table of GC roots, or changes
\* nothing that its user sees: a minor collection, which scans the young ring
\* only, promotes every young value of a root, and no value of a root is
\* reclaimed.
THEOREM BitmapImplementsTable == Spec => ImplementsRootTable
<1>1. Init => Table!TableInit
  BY DEF Init, Table!TableInit, Seen, Allocated
<1>2. BitInv /\ [Next]_vars => [Table!TableNext]_(Table!tableVars)
  <2> SUFFICES ASSUME BitInv, [Next]_vars
               PROVE  [Table!TableNext]_(Table!tableVars)
    OBVIOUS
  <2>1. CASE bitmap_boxroot_setup \/ (\E d \in Domains : NoMemory(d)) \/ UNCHANGED vars
    <3>1. UNCHANGED <<mapped, free, slot, gc>>
      BY <2>1 DEF bitmap_boxroot_setup, NoMemory, vars, heap
    <3> QED BY <3>1, NoRoot DEF Seen, Allocated
  <2>2. ASSUME NEW d \in Domains, NEW v \in Ages, bitmap_boxroot_create(d, v)
        PROVE  Table!TableNext
    BY <2>2, CreateStep
  <2>3. ASSUME NEW d \in Domains, NEW s \in Slots, bitmap_boxroot_delete(d, s)
        PROVE  Table!TableNext
    <3>1. Rooted(s) /\ RemoveFromChunk(d, s, "delete", "idle")
      BY <2>3 DEF bitmap_boxroot_delete
    <3> QED BY <3>1, RemoveStep
  <2>4. ASSUME NEW d \in Domains, NEW s \in Slots, NEW v \in Ages, bitmap_boxroot_modify(d, s, v)
        PROVE  Table!TableNext
    BY <2>4, ModifyStep
  <2>5. ASSUME NEW d \in Domains, AllocReclassify(d) \/ DeleteReclassify(d)
        PROVE  UNCHANGED Table!tableVars
    BY <2>5, MoveStep
  <2>6. ASSUME NEW d \in Domains, ModifyCreates(d) PROVE Table!TableNext
    <3>1. "young" \in Ages
      BY DEF Ages
    <3> QED BY <2>6, <3>1, CreateStep
  <2>7. CASE bitmap_boxroot_teardown
    <3>1. [x \in Slots |-> Seen(x)]' = [x \in Slots |-> "free"]
      BY <2>7, TeardownKeeps DEF Seen, Allocated
    <3> QED BY <2>7, <3>1 DEF bitmap_boxroot_teardown, Table!TableNext, Table!Release
  <2>8. CASE \E kind \in {"minor", "major"} : StartGC(kind)
    <3>1. UNCHANGED <<mapped, free, slot>> /\ gc.kind = "none" /\ gc'.kind \in {"minor", "major"}
      BY <2>8 DEF StartGC, heap
    <3>2. \A s \in Slots : Seen(s)' = Seen(s)
      BY <3>1 DEF Seen, Allocated
    <3> QED BY <3>1, <3>2 DEF Table!TableNext, Table!BeginCollection
  <2>9. CASE scan_roots
    BY <2>9, ScanStep
  <2>10. CASE EndGC
    BY <2>10, EndStep
  <2> QED BY <2>1, <2>2, <2>3, <2>4, <2>5, <2>6, <2>7, <2>8, <2>9, <2>10 DEF Next
<1> QED BY <1>1, <1>2, BitInvariance, PTL DEF Spec, ImplementsRootTable, Table!TableSpec
=============================================================================
