-------------------------------- MODULE Rings --------------------------------
(***************************************************************************)
(* Circular doubly linked lists, as boxroot/boxroot.c keeps its pools and  *)
(* boxroot/dll_boxroot.c its elements.  A memory m has the fields `next`   *)
(* and `prev` of each node, and `head`, what each pointer to a ring holds: *)
(* the node the ring starts with, or NULL.  An operation takes the memory  *)
(* to the memory after it.                                                 *)
(***************************************************************************)
EXTENDS Integers, FiniteSets, Null

ring_link(m, p, q) == [m EXCEPT !.next[p] = q, !.prev[q] = p]

\* The first node of the ring at *target becomes a ring of its own.
ring_pop(m, target) ==
  LET front == m.head[target]
      n == IF m.next[front] = front THEN [m EXCEPT !.head[target] = NULL]
           ELSE ring_link([m EXCEPT !.head[target] = m.next[front]],
                          m.prev[front], m.next[front])
  IN ring_link(n, front, front)

\* Insert the ring of `source`, whose last node is `last`, at the back of
\* *target.
Splice(m, source, last, target) ==
  IF m.head[target] = NULL THEN [m EXCEPT !.head[target] = source]
  ELSE ring_link(ring_link(m, m.prev[m.head[target]], source), last, m.head[target])

ring_push_back(m, source, target) ==
  IF source = NULL THEN m ELSE Splice(m, source, m.prev[source], target)

-----------------------------------------------------------------------------
\* The nodes met from p on, p first.
Walk(m, p) ==
  LET w[n \in 0 .. Cardinality(DOMAIN m.next)] == IF n = 0 THEN p ELSE m.next[w[n - 1]]
  IN w
Ring(m, l) == IF m.head[l] = NULL THEN {}
              ELSE LET w == Walk(m, m.head[l]) IN {w[n] : n \in DOMAIN w}

\* The steps from p on to q, one at least; no bound if q is not met.
StepsTo(m, p, q) ==
  LET w == Walk(m, p)
      met == {n \in DOMAIN w \ {0} : w[n] = q}
  IN IF met = {} THEN Cardinality(DOMAIN w)
     ELSE CHOOSE n \in met : \A k \in met : n <= k

\* A loop that runs as long as the ring at *l is not empty, at most once per
\* node.
Drain(m, l, Body(_)) ==
  LET f[n \in 0 .. Cardinality(DOMAIN m.next)] ==
        IF n = 0 THEN m
        ELSE IF f[n - 1].head[l] = NULL THEN f[n - 1] ELSE Body(f[n - 1])
  IN f[Cardinality(DOMAIN m.next)]

\* The rings at the pointers `ls` have the nodes of S, each on one ring only,
\* and are circular in both directions.
DisjointCycles(m, ls, S) ==
  /\ UNION {Ring(m, l) : l \in ls} = S
  /\ \A p \in S : m.prev[m.next[p]] = p
  /\ \A l, k \in ls : l # k => Ring(m, l) \cap Ring(m, k) = {}
=============================================================================
