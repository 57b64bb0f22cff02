-------------------------------- MODULE Arena --------------------------------
(***************************************************************************)
(* boxroot/arena.h and arena.c: local roots in arenas that are chained to  *)
(* the local roots of the runtime, with a free list through the slots.     *)
(*                                                                         *)
(* An arena is its number in the chain of Caml_state->local_roots, oldest  *)
(* first, a slot the number of its arena and its index.  A deleted slot    *)
(* holds the next one of the free list, tagged so that the collector takes *)
(* it for an integer; the tag is left out, as what it does to a pointer is *)
(* undone when it is read.                                                 *)
(***************************************************************************)
EXTENDS Naturals, Sequences

CONSTANTS
  START_ITEMS,
  Blocks,      \* OCaml values that are pointers, to blocks of the OCaml heap
  Unit,        \* an OCaml value that is not: 1, that is 0 without its tag
  NULL,
  MaxArenas    \* bound: the length of the chain

VARIABLES
  local_roots, \* the chain of arenas
  slot,        \* what the slots of the arenas hold
  refs         \* the references the user holds

vars == <<local_roots, slot, refs>>

Init == local_roots = <<>> /\ slot = <<>> /\ refs = {}

Top == Len(local_roots)
Slots(chain) == UNION {{<<a, i>> : i \in 1 .. chain[a].size} : a \in DOMAIN chain}

\* A new arena on top; `initial` if it is one of init_arena.
bxr_init_arena_with_size(size, next_index, initial) ==
  Append(local_roots, [size |-> size, next_index |-> next_index,
                       free_list |-> NULL, initial |-> initial])

init_arena ==
  /\ Top < MaxArenas
  /\ local_roots' = bxr_init_arena_with_size(START_ITEMS, 0, TRUE)
  /\ UNCHANGED <<slot, refs>>

\* The arenas down to the last initial one, with their roots.
drop_arena ==
  LET initial == CHOOSE a \in DOMAIN local_roots :
                   /\ local_roots[a].initial
                   /\ \A b \in a + 1 .. Top : ~ local_roots[b].initial
      chain == SubSeq(local_roots, 1, initial - 1)
  IN /\ Top > 0
     /\ local_roots' = chain
     /\ refs' = refs \cap Slots(chain)
     /\ slot' = [s \in DOMAIN slot \cap Slots(chain) |-> slot[s]]

\* PTR_OF_VALUE(p) does not expand to its argument but to `v`, which in
\* alloc_local_ref is the value to be rooted: a block without a tag is itself.
PTR_OF_VALUE(p, v) == IF v = Unit THEN NULL ELSE v

\* *res = v: a field of the block is overwritten if res is one.
Store(res, v, chain) ==
  /\ slot' = [s \in DOMAIN slot \cup ({res} \cap Slots(chain)) |->
                IF s = res THEN v ELSE slot[s]]
  /\ refs' = refs \cup {res}
  /\ local_roots' = chain

alloc_local_ref(v) ==
  LET ad == local_roots[Top]
      res == ad.free_list
  IN /\ Top > 0
     /\ IF res # NULL
        THEN LET content == IF res \in DOMAIN slot THEN slot[res] ELSE NULL
             IN Store(res, v, [local_roots EXCEPT ![Top].free_list = PTR_OF_VALUE(content, v)])
        ELSE IF ad.next_index # ad.size
        THEN Store(<<Top, ad.next_index + 1>>, v,
                   [local_roots EXCEPT ![Top].next_index = @ + 1])
        ELSE /\ Top < MaxArenas
             /\ Store(<<Top + 1, 1>>, v, bxr_init_arena_with_size(2 * ad.size, 1, FALSE))

\* The slot goes to the free list of the arena on top, be it of another one.
delete_local_ref(l) ==
  /\ Top > 0 /\ l \in refs
  /\ slot' = [slot EXCEPT ![l] = local_roots[Top].free_list]
  /\ local_roots' = [local_roots EXCEPT ![Top].free_list = l]
  /\ refs' = refs \ {l}

Next ==
  \/ init_arena \/ drop_arena
  \/ \E v \in Blocks \cup {Unit} : alloc_local_ref(v)
  \/ \E l \in refs : delete_local_ref(l)

Spec == Init /\ [][Next]_vars

-----------------------------------------------------------------------------
\* A reference is to a slot of an arena of the chain, where the collector looks
\* for roots: arena.h takes its free list for one of slots ("value *free_list").
RefsAreSlots == refs \subseteq Slots(local_roots)
=============================================================================
