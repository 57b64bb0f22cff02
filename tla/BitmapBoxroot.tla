---------------------------- MODULE BitmapBoxroot ----------------------------
(***************************************************************************)
(* boxroot/bitmap_boxroot.c: the prototype with one atomic bitmap per      *)
(* chunk.  The rings have a mutex; a deletion changes the bitmap without   *)
(* it, and takes it afterwards if the chunk may have to move.  What a      *)
(* thread does between two changes of a bitmap under the mutex is one step.*)
(*                                                                         *)
(* A ring is the sequence of its chunks, head first.  Every thread holds   *)
(* the lock of a domain, so that a collection finds it outside of the      *)
(* library.                                                                *)
(***************************************************************************)
EXTENDS Integers, Sequences, SequencesExt, RingSequences, Null

CONSTANTS
  Domains,
  Chunks,         \* addresses the allocator may return
  CHUNK_SIZE

ASSUME SizeAssumption == CHUNK_SIZE \in Nat \ {0}

Indices == 0 .. CHUNK_SIZE - 1
Slots == Chunks \X Indices
ASSUME NullAssumption == NULL \notin Domains \cup Slots

VARIABLES
  status,   \* of the library: `setup`, or the way it has crashed
  young,    \* rings.young
  old,      \* rings.old
  mapped,   \* the chunks that the system has given
  is_young, \* of each chunk
  free,     \* the bitmap of each chunk: the indices of its free slots
  slot,     \* the age of the value in each slot
  lock,     \* who holds rings_mutex
  at,       \* where each domain is
  root,     \* the slot it works on
  gc        \* runtime: the collection under way, once scanned or not

vars == <<status, young, old, mapped, is_young, free, slot, lock, at, root, gc>>
heap == <<young, old, mapped, is_young, free, slot>>

Ages == {"young", "old"}

TypeOK ==
  /\ status \in {"not_setup", "setup", "tore_down", "crashed", "use after free"}
  /\ young \in Seq(mapped) /\ old \in Seq(mapped)
  /\ IsInjective(young \o old)
  /\ mapped \subseteq Chunks
  /\ is_young \in [Chunks -> BOOLEAN]
  /\ free \in [Chunks -> SUBSET Indices]
  /\ slot \in [Slots -> Ages \cup {"marked", "dead"}]
  /\ lock \in Domains \cup {NULL}
  /\ at \in [Domains -> {"idle", "reclassify", "delete", "modify", "create"}]
  /\ root \in [Domains -> Slots \cup {NULL}]
  /\ gc \in [kind : {"none", "minor", "major"}, scanned : BOOLEAN]

Init ==
  /\ status = "not_setup"
  /\ young = <<>> /\ old = <<>> /\ mapped = {}
  /\ is_young = [c \in Chunks |-> FALSE]
  /\ free = [c \in Chunks |-> Indices]
  /\ slot = [s \in Slots |-> "old"]
  /\ lock = NULL
  /\ at = [d \in Domains |-> "idle"]
  /\ root = [d \in Domains |-> NULL]
  /\ gc = [kind |-> "none", scanned |-> FALSE]

-----------------------------------------------------------------------------
(* Chunks and rings.                                                       *)

chunk_is_full(c) == free[c] = {}
Allocated(s) == s[1] \in mapped /\ s[2] \notin free[s[1]]

\* A root that the user has: not the one that a creation under way will return.
Rooted(s) == Allocated(s) /\ ~ \E d \in Domains : at[d] = "reclassify" /\ root[d] = s

IsHead(c) == \E ring \in {young, old} : ring # <<>> /\ c = Head(ring)
HasRoom(ring) == ring # <<>> /\ ~ chunk_is_full(Head(ring))

\* The chunk and the rings once get_available_chunk is done: the head of the
\* young ring, the head of the old one, demoted, or a new chunk.
get_available_chunk(c) ==
  IF HasRoom(young)
  THEN c = Head(young) /\ UNCHANGED <<young, old, mapped, is_young>>
  ELSE /\ young' = <<c>> \o young
       /\ is_young' = [is_young EXCEPT ![c] = TRUE]
       /\ IF HasRoom(old)
          THEN c = Head(old) /\ old' = Tail(old) /\ UNCHANGED mapped
          ELSE c \notin mapped /\ mapped' = mapped \cup {c} /\ UNCHANGED old

\* MUTANT: a chunk with a free slot goes to the back of its ring too.
Mut_reclassify_chunk(c) ==
  LET Move(ring) == Without(ring, {c}) \o <<c>>
      deleted == free[c] = Indices
  IN /\ young' = IF is_young[c] /\ ~ deleted THEN Move(young) ELSE Without(young, {c})
     /\ old' = IF ~ is_young[c] /\ ~ deleted THEN Move(old) ELSE Without(old, {c})
     /\ mapped' = IF deleted THEN mapped \ {c} ELSE mapped

\* Requires the mutex. An empty chunk is freed, a full one goes to the back of
\* its ring, another one to the front.
reclassify_chunk(c) ==
  LET Move(ring) == IF chunk_is_full(c) THEN Without(ring, {c}) \o <<c>>
                    ELSE <<c>> \o Without(ring, {c})
      deleted == free[c] = Indices
  IN /\ young' = IF is_young[c] /\ ~ deleted THEN Move(young) ELSE Without(young, {c})
     /\ old' = IF ~ is_young[c] /\ ~ deleted THEN Move(old) ELSE Without(old, {c})
     /\ mapped' = IF deleted THEN mapped \ {c} ELSE mapped

-----------------------------------------------------------------------------
(* The interface.                                                          *)

bitmap_boxroot_setup ==
  /\ status = "not_setup" /\ gc.kind = "none"
  /\ status' = "setup"
  /\ UNCHANGED <<heap, lock, at, root, gc>>

CanCall(d) == status = "setup" /\ gc.kind = "none" /\ at[d] = "idle"

\* Take the mutex and allocate.  The slot was the lowest one when the bitmap was
\* read; deletions since make it any free one.  The mutex is kept if the chunk
\* has become full.
Alloc(d, c, v) ==
  /\ lock = NULL
  /\ get_available_chunk(c)
  /\ \E i \in free[c] :
       LET is_full == free[c] = {i}
       IN /\ slot' = [slot EXCEPT ![<<c, i>>] = v]
          /\ free' = [free EXCEPT ![c] = @ \ {i}]
          /\ lock' = IF is_full THEN d ELSE NULL
          /\ at' = [at EXCEPT ![d] = IF is_full THEN "reclassify" ELSE "idle"]
          /\ root' = [root EXCEPT ![d] = IF is_full THEN <<c, i>> ELSE NULL]
  /\ UNCHANGED <<status, gc>>

bitmap_boxroot_create(d, v) ==
  /\ CanCall(d)
  /\ \E c \in Chunks : Alloc(d, c, v)

\* create_chunk returns NULL, which get_available_chunk dereferences.
NoMemory(d) ==
  /\ CanCall(d) \/ (status = "setup" /\ at[d] = "create")
  /\ lock = NULL
  /\ ~ HasRoom(young) /\ ~ HasRoom(old)
  /\ status' = "crashed"
  /\ UNCHANGED <<heap, lock, at, root, gc>>

\* The end of alloc_from_chunk, on a chunk where roots may have been freed since.
AllocReclassify(d) ==
  /\ status = "setup" /\ at[d] = "reclassify"
  /\ reclassify_chunk(root[d][1])
  /\ lock' = NULL
  /\ at' = [at EXCEPT ![d] = "idle"]
  /\ root' = [root EXCEPT ![d] = NULL]
  /\ UNCHANGED <<status, is_young, free, slot, gc>>

\* remove_from_chunk, without the mutex: `next` if the chunk need not move.
RemoveFromChunk(d, s, pending, next) ==
  LET c == s[1]
      was_full == free[c] = {}
      is_empty == free'[c] = Indices
  IN /\ free' = [free EXCEPT ![c] = @ \cup {s[2]}]
     /\ at' = [at EXCEPT ![d] = IF was_full \/ is_empty THEN pending ELSE next]
     /\ root' = [root EXCEPT ![d] = IF was_full \/ is_empty THEN s ELSE NULL]
     /\ UNCHANGED <<status, young, old, mapped, is_young, slot, lock, gc>>

bitmap_boxroot_delete(d, s) ==
  /\ CanCall(d) /\ Rooted(s)
  /\ RemoveFromChunk(d, s, "delete", "idle")

\* Then the mutex is taken and the chunk, which other threads have had in the
\* meantime, reclassified unless it is at the head of a ring.
DeleteReclassify(d) ==
  LET c == root[d][1]
  IN /\ status = "setup" /\ at[d] \in {"delete", "modify"} /\ lock = NULL
     /\ IF IsHead(c) THEN UNCHANGED <<status, young, old, mapped>>
        ELSE IF c \notin mapped
             THEN status' = "use after free" /\ UNCHANGED <<young, old, mapped>>
        ELSE reclassify_chunk(c) /\ UNCHANGED status
     /\ at' = [at EXCEPT ![d] = IF @ = "delete" THEN "idle" ELSE "create"]
     /\ root' = [root EXCEPT ![d] = NULL]
     /\ UNCHANGED <<is_young, free, slot, lock, gc>>

\* MUTANT: a root is overwritten whatever its value.
Mut_InPlace(s, v) == TRUE

InPlace(s, v) == v = "old" \/ slot[s] = "young"

bitmap_boxroot_modify(d, s, v) ==
  /\ CanCall(d) /\ Rooted(s)
  /\ IF InPlace(s, v)
     THEN slot' = [slot EXCEPT ![s] = v] /\
          UNCHANGED <<status, young, old, mapped, is_young, free, lock, at, root, gc>>
     ELSE RemoveFromChunk(d, s, "modify", "create")

\* The creation in bitmap_boxroot_modify, of a young value.
ModifyCreates(d) ==
  /\ status = "setup" /\ at[d] = "create"
  /\ \E c \in Chunks : Alloc(d, c, "young")

bitmap_boxroot_teardown ==
  /\ status = "setup" /\ gc.kind = "none"
  /\ \A d \in Domains : at[d] = "idle"
  /\ status' = "tore_down"
  /\ young' = <<>> /\ old' = <<>> /\ mapped' = mapped \ ToSet(young \o old)
  /\ UNCHANGED <<is_young, free, slot, lock, at, root, gc>>

-----------------------------------------------------------------------------
(* Collections.                                                            *)

StartGC(kind) ==
  /\ status \in {"not_setup", "setup"} /\ gc.kind = "none"
  /\ \A d \in Domains : at[d] = "idle"
  /\ gc' = [kind |-> kind, scanned |-> FALSE]
  /\ UNCHANGED <<status, heap, lock, at, root>>

\* MUTANT: the chunks keep their class.
Mut_promote == young' = <<>> /\ old' = old \o young /\ UNCHANGED is_young

promote ==
  /\ young' = <<>> /\ old' = old \o young
  /\ is_young' = [c \in Chunks |-> is_young[c] /\ c \notin ToSet(young)]

\* Each domain calls scanning_callback, one after the other.
scan_roots ==
  /\ gc.kind # "none"
  /\ gc' = [gc EXCEPT !.scanned = TRUE]
  /\ IF status # "setup" THEN UNCHANGED heap
     ELSE IF gc.kind = "minor"
     THEN /\ slot' = [s \in Slots |->
                        IF s[1] \in ToSet(young) /\ Allocated(s) /\ slot[s] = "young"
                        THEN "old" ELSE slot[s]]
          /\ promote
          /\ UNCHANGED <<mapped, free>>
     ELSE /\ slot' = [s \in Slots |->
                        IF s[1] \in ToSet(young \o old) /\ Allocated(s) /\ slot[s] = "old"
                        THEN "marked" ELSE slot[s]]
          /\ UNCHANGED <<young, old, mapped, is_young, free>>
  /\ UNCHANGED <<status, lock, at, root>>

\* What has not been reached is reclaimed; what is left in a free slot does not
\* matter.
EndGC ==
  /\ gc.kind # "none" /\ gc.scanned
  /\ gc' = [kind |-> "none", scanned |-> FALSE]
  /\ slot' = [s \in Slots |->
                CASE ~ Allocated(s) -> "old"
                  [] slot[s] = "marked" -> "old"
                  [] slot[s] = "young" /\ gc.kind = "minor" -> "dead"
                  [] slot[s] = "old" /\ gc.kind = "major" -> "dead"
                  [] OTHER -> slot[s]]
  /\ UNCHANGED <<status, young, old, mapped, is_young, free, lock, at, root>>

Next ==
  \/ bitmap_boxroot_setup
  \/ \E d \in Domains :
       \/ \E v \in Ages : bitmap_boxroot_create(d, v)
       \/ \E s \in Slots : bitmap_boxroot_delete(d, s)
       \/ \E s \in Slots, v \in Ages : bitmap_boxroot_modify(d, s, v)
       \/ AllocReclassify(d) \/ DeleteReclassify(d) \/ ModifyCreates(d) \/ NoMemory(d)
  \/ bitmap_boxroot_teardown
  \/ \E kind \in {"minor", "major"} : StartGC(kind)
  \/ scan_roots \/ EndGC

Spec == Init /\ [][Next]_vars

-----------------------------------------------------------------------------
(* Properties.                                                             *)

\* The state is well typed, and a chunk is on the ring its class says, and there
\* once, whoever moves it: none is lost, or freed and still on a ring.
ChunksOnTheirRing ==
  /\ TypeOK
  /\ ToSet(young) = {c \in mapped : is_young[c]}
  /\ ToSet(old) = {c \in mapped : ~ is_young[c]}

\* "All non-full chunks at the start" (bitmap_boxroot.c) of the young ring, but
\* for the chunks that a thread is about to move: a creation that looks at the
\* head only finds room if there is some.
NonFullAtTheStart ==
  \A i, j \in DOMAIN young :
    i < j /\ chunk_is_full(young[i]) /\ ~ chunk_is_full(young[j]) =>
      \E d \in Domains : root[d] # NULL /\ root[d][1] \in {young[i], young[j]}

\* The age of the value of a root, as the user knows it.
Seen(s) == IF ~ Allocated(s) THEN "free"
           ELSE IF slot[s] = "marked" THEN "old" ELSE slot[s]

Table == INSTANCE RootTable WITH
  Root <- Slots, table <- [s \in Slots |-> Seen(s)], phase <- gc.kind

\* The prototype is a table of GC roots, though a minor collection scans the
\* young ring only.
ImplementsRootTable == Table!TableSpec

\* "Hotspot JNI is thread-safe" (bitmap_boxroot.c): a thread that waits for the
\* mutex to reclassify a chunk finds it there.
NoUseAfterFree == status # "use after free"
=============================================================================
