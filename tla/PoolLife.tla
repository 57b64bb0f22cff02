------------------------------- MODULE PoolLife -------------------------------
(***************************************************************************)
(* The life of the pools of boxroot/boxroot.c, whatever the rings and the  *)
(* counts: the ring a pool is on (`place`), the domain it belongs to, and  *)
(* whether it holds a root.  A pool comes from the system to be the        *)
(* current pool of a domain, is retired to the young pools, grows old in a *)
(* minor collection, is reused or freed once it is empty, and may lose its *)
(* domain and find another.                                                *)
(*                                                                         *)
(* Which steps may move which pools is the synchronisation the comments    *)
(* "ownership required" of the code ask for: a domain moves the pools of   *)
(* its own rings, and orphaned pools move in collections only.             *)
(***************************************************************************)
CONSTANTS
  Pools, Domains,
  Nobody          \* the owner of a pool that is orphaned, or not mapped

VARIABLES
  place,  \* where each pool is
  owner,  \* the domain whose rings hold it
  held,   \* the pools with a live root
  gc      \* the collection under way

lifeVars == <<place, owner, held, gc>>

Places == {"none", "current", "young", "old", "free", "orphan_young", "orphan_old"}

LifeInit ==
  /\ place = [q \in Pools |-> "none"] /\ owner = [q \in Pools |-> Nobody]
  /\ held = {} /\ gc = "none"

Stays(q) == place'[q] = place[q] /\ owner'[q] = owner[q]
\* Pool q of domain d moves between the rings of d.
Moves(q, d, from, to) == /\ place[q] \in from /\ place'[q] = to
                         /\ owner[q] = d /\ owner'[q] = d

Retire(q, d) == Moves(q, d, {"current"}, "young")
Empty(q, d) == q \notin held' /\ Moves(q, d, {"current", "young", "old"}, "free")
Reuse(q, d) == Moves(q, d, {"young", "old", "free"}, "current")
Map(q, d) == /\ place[q] = "none" /\ place'[q] = "current"
             /\ owner[q] = Nobody /\ owner'[q] = d
Unmap(q) == /\ q \notin held /\ place'[q] = "none" /\ owner'[q] = Nobody

\* A creation by d, or a part of it: what roots are created, are in the current
\* pool, of which there is one at most.
Create(d) ==
  /\ gc = "none"
  /\ \A q \in Pools : Stays(q) \/ Retire(q, d) \/ Empty(q, d) \/ Reuse(q, d) \/ Map(q, d)
  /\ held \subseteq held'
  /\ \A q \in held' \ held : place'[q] = "current" /\ owner'[q] = d
  /\ \A q, r \in Pools : place'[q] = "current" /\ place'[r] = "current"
                           /\ owner'[q] = owner'[r] => q = r
  /\ UNCHANGED gc

\* A deletion, at any time; the domain of the pool may find it empty.
Delete(q) ==
  /\ q \in held /\ held' \in {held, held \ {q}}
  /\ \/ gc = "none" /\ place[q] # "current" /\ Empty(q, owner[q])
     \/ Stays(q)
  /\ \A r \in Pools \ {q} : Stays(r)
  /\ UNCHANGED gc

\* The domain terminates: none of its pools stays behind, none with a root is
\* lost.
Orphan(q) == /\ owner'[q] = Nobody
             /\ \/ place[q] \in {"current", "young"} /\ place'[q] = "orphan_young"
                \/ place[q] = "old" /\ place'[q] = "orphan_old"
Terminate(d) ==
  /\ gc = "none"
  /\ \A q \in Pools : IF owner[q] = d THEN Orphan(q) \/ Unmap(q) ELSE Stays(q)
  /\ UNCHANGED <<held, gc>>

BeginCollection == gc = "none" /\ gc' \in {"minor", "major"} /\ UNCHANGED <<place, owner, held>>

\* In a collection d retires and empties pools, and adopts all the orphans.
Adopt(q, d) ==
  /\ owner[q] = Nobody /\ owner'[q] = d
  /\ \/ place[q] = "orphan_young" /\ place'[q] = "young"
     \/ place[q] = "orphan_old" /\ place'[q] = "old"
Ready(d) ==
  /\ gc # "none"
  /\ \A q \in Pools : Stays(q) \/ Retire(q, d) \/ Empty(q, d) \/ Adopt(q, d)
  /\ \A q, r \in Pools : Adopt(q, d) => place'[r] \notin {"orphan_young", "orphan_old"}
  /\ UNCHANGED <<held, gc>>

\* All its young pools grow old, or its free pools go back to the system.
Promote(d) ==
  /\ gc = "minor"
  /\ \A q \in Pools : IF place[q] = "young" /\ owner[q] = d
                      THEN Moves(q, d, {"young"}, "old") ELSE Stays(q)
  /\ UNCHANGED <<held, gc>>
Release(d) ==
  /\ gc = "major"
  /\ \A q \in Pools : IF place[q] = "free" /\ owner[q] = d THEN Unmap(q) ELSE Stays(q)
  /\ UNCHANGED <<held, gc>>

\* A collection ends once every domain has done its part, and no orphan is left.
EndCollection ==
  /\ gc # "none" /\ gc' = "none"
  /\ \A q \in Pools : place[q] \in IF gc = "minor" THEN {"none", "old", "free"}
                                                   ELSE {"none", "young", "old"}
  /\ UNCHANGED <<place, owner, held>>

Teardown ==
  /\ gc = "none"
  /\ \A q \in Pools : place'[q] = "none" /\ owner'[q] = Nobody
  /\ held' = {} /\ UNCHANGED gc

LifeNext ==
  \/ \E d \in Domains : Create(d) \/ Terminate(d) \/ Ready(d) \/ Promote(d) \/ Release(d)
  \/ \E q \in Pools : Delete(q)
  \/ BeginCollection \/ EndCollection \/ Teardown

LifeSpec == LifeInit /\ [][LifeNext]_lifeVars
=============================================================================
