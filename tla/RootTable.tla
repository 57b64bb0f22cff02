------------------------------ MODULE RootTable ------------------------------
(***************************************************************************)
(* What boxroot promises its users, whatever the implementation: a table   *)
(* of GC roots.  A root is created, read, modified and deleted; as long as *)
(* it lives its value is considered as a root by the collector, so that a  *)
(* minor collection ends only once every young value of the table has been *)
(* promoted, and the value of a live root is never lost.                   *)
(*                                                                         *)
(* boxroot/boxroot.h, lines 12 to 55, read as a specification.             *)
(***************************************************************************)
CONSTANTS
  Root      \* the roots the table can hold

VARIABLES
  table,    \* the age of the value of each root, or "free"
  phase     \* the collection under way

tableVars == <<table, phase>>

Ages == {"young", "old"}

TableType == /\ table \in [Root -> Ages \cup {"free"}]
             /\ phase \in {"none", "minor", "major"}

TableInit == /\ table = [r \in Root |-> "free"]
             /\ phase = "none"

\* boxroot_create needs the domain lock: it waits for the end of a collection.
CreateRoot(r, v) ==
  /\ phase = "none" /\ table[r] = "free"
  /\ table' = [table EXCEPT ![r] = v]
  /\ UNCHANGED phase

\* boxroot_delete may happen at any time, even during a collection.
DeleteRoot(r) ==
  /\ table[r] # "free"
  /\ table' = [table EXCEPT ![r] = "free"]
  /\ UNCHANGED phase

\* boxroot_modify in place; a reallocation is a creation, then a deletion.
ModifyRoot(r, v) ==
  /\ phase = "none" /\ table[r] # "free"
  /\ table' = [table EXCEPT ![r] = v]
  /\ UNCHANGED phase

BeginCollection ==
  /\ phase = "none"
  /\ phase' \in {"minor", "major"}
  /\ UNCHANGED table

\* A minor collection promotes some values; nothing else changes.
Promote ==
  /\ phase = "minor"
  /\ table' \in [Root -> Ages \cup {"free"}]
  /\ \A r \in Root :
       table'[r] # table[r] => table[r] = "young" /\ table'[r] = "old"
  /\ UNCHANGED phase

EndCollection ==
  /\ phase # "none"
  /\ phase = "minor" => \A r \in Root : table[r] # "young"
  /\ phase' = "none"
  /\ UNCHANGED table

\* boxroot_teardown releases every root, after OCaml has shut down.
Release ==
  /\ phase = "none"
  /\ table' = [r \in Root |-> "free"]
  /\ UNCHANGED phase

TableNext ==
  \/ \E r \in Root, v \in Ages : CreateRoot(r, v) \/ ModifyRoot(r, v)
  \/ \E r \in Root : DeleteRoot(r)
  \/ BeginCollection \/ Promote \/ EndCollection \/ Release

TableSpec == TableInit /\ [][TableNext]_tableVars
=============================================================================
