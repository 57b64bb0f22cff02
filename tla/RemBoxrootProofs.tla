-------------------------- MODULE RemBoxrootProofs --------------------------
(* The free lists, the remembered set and the rings of rem_boxroot, for any  *)
(* number of pools of any capacity.                                          *)
EXTENDS RemBoxroot, ListLemmas

-----------------------------------------------------------------------------
(* Headers.                                                                *)

Constants == /\ POOL_ROOTS_CAPACITY \in Nat /\ POOL_ROOTS_CAPACITY # 0
             /\ IsFiniteSet(Pools) /\ NULL \notin Indices

LEMMA ConstantsHold == Constants
BY SizeAssumption, PoolAssumption, NullAssumption DEF Constants

LEMMA Sizes ==
  ASSUME NEW L \in SUBSET Indices
  PROVE  /\ IsFiniteSet(L) /\ Cardinality(L) \in 0 .. POOL_ROOTS_CAPACITY
         /\ Cardinality(L) = 0 => L = {}
         /\ Cardinality(L) = POOL_ROOTS_CAPACITY => L = Indices
<1>1. IsFiniteSet(Indices) /\ Cardinality(Indices) = POOL_ROOTS_CAPACITY
  BY ConstantsHold, FS_Interval DEF Constants, Indices
<1>2. IsFiniteSet(L) /\ Cardinality(L) <= POOL_ROOTS_CAPACITY
  BY <1>1, FS_Subset
<1>3. Cardinality(L) \in Nat
  BY <1>2, FS_CardinalityType
<1>4. Cardinality(L) = 0 => L = {}
  BY <1>2, FS_EmptySet
<1>5. Cardinality(L) = POOL_ROOTS_CAPACITY => L = Indices
  BY <1>1, FS_Subset
<1> QED BY <1>2, <1>3, <1>4, <1>5, ConstantsHold DEF Constants

\* The header of a pool whose roots are those at L.
HeaderOK(p, L) ==
  /\ p \in Header
  /\ p.alloc_count = Cardinality(L)
  /\ L \cap p.major_free_list = {}
  /\ Enumerates(p.minor_free_list, Indices \ (L \cup p.major_free_list))
  /\ p.minor_free_list # << >> =>
       p.last_minor_free_slot = p.minor_free_list[Len(p.minor_free_list)]

Hdr(a, M, m, l) == [alloc_count |-> a, major_free_list |-> M,
                    minor_free_list |-> m, last_minor_free_slot |-> l]

LEMMA MinorType ==
  ASSUME NEW A \in SUBSET Indices, NEW m, Enumerates(m, A)
  PROVE  m \in UNION {[1 .. n -> Indices] : n \in 0 .. POOL_ROOTS_CAPACITY}
<1>1. Len(m) = Cardinality(A)
  BY EnumeratesSize
<1>2. Len(m) \in 0 .. POOL_ROOTS_CAPACITY
  BY <1>1, Sizes
<1>3. m \in [1 .. Len(m) -> Indices]
  BY DEF Enumerates
<1> QED BY <1>2, <1>3

LEMMA MakeHeader ==
  ASSUME NEW L \in SUBSET Indices, NEW M \in SUBSET Indices, L \cap M = {},
         NEW a, a = Cardinality(L),
         NEW m, Enumerates(m, Indices \ (L \cup M)),
         NEW l \in Indices \cup {NULL}, m # << >> => l = m[Len(m)]
  PROVE  HeaderOK(Hdr(a, M, m, l), L)
<1>1. a \in 0 .. POOL_ROOTS_CAPACITY
  BY Sizes
<1>2. m \in UNION {[1 .. n -> Indices] : n \in 0 .. POOL_ROOTS_CAPACITY}
  <2>1. Indices \ (L \cup M) \in SUBSET Indices
    OBVIOUS
  <2> QED BY <2>1, MinorType
<1> DEFINE p == Hdr(a, M, m, l)
<1>3. /\ p.alloc_count = a /\ p.major_free_list = M /\ p.minor_free_list = m
      /\ p.last_minor_free_slot = l
  BY DEF Hdr
<1>4. p \in Header
  BY <1>1, <1>2 DEF Hdr, Header
<1> HIDE DEF p
<1>5. HeaderOK(p, L)
  BY <1>3, <1>4 DEF HeaderOK
<1> QED BY <1>5 DEF p

LEMMA EmptyHeader == HeaderOK(Empty, {})
<1>1. Empty = Hdr(0, Indices, << >>, NULL)
  BY DEF Empty, Hdr
<1>2. 0 = Cardinality({})
  BY FS_EmptySet
<1>3. Enumerates(<< >>, Indices \ ({} \cup Indices))
  <2>1. Indices \ ({} \cup Indices) = {}
    OBVIOUS
  <2> QED BY <2>1, EnumeratesNone
<1>4. HeaderOK(Hdr(0, Indices, << >>, NULL), {})
  BY <1>2, <1>3, MakeHeader
<1> QED BY <1>1, <1>4

\* A pool without a pool: all its slots are free.
LEMMA EmptyHasNone ==
  ASSUME NEW L \in SUBSET Indices, HeaderOK(Empty, L)
  PROVE  L = {}
BY DEF HeaderOK, Empty

LEMMA OneMore ==
  ASSUME NEW L \in SUBSET Indices, NEW i \in Indices, i \notin L
  PROVE  Cardinality(L \cup {i}) = Cardinality(L) + 1
BY Sizes, FS_AddElement

LEMMA OneLess ==
  ASSUME NEW L \in SUBSET Indices, NEW i \in L
  PROVE  Cardinality(L \ {i}) = Cardinality(L) - 1
BY Sizes, FS_RemoveElement

LEMMA PopMinorIs ==
  ASSUME NEW p \in Header
  PROVE  PopMinor(p) = Hdr(p.alloc_count + 1, p.major_free_list, Tail(p.minor_free_list),
                           p.last_minor_free_slot)
<1> DEFINE p1 == [p EXCEPT !.alloc_count = @ + 1]
           t == Tail(p.minor_free_list)
           p2 == [p1 EXCEPT !.minor_free_list = t]
<1>1. PopMinor(p) = p2
  BY DEF PopMinor
<1>2. p1 = Hdr(p.alloc_count + 1, p.major_free_list, p.minor_free_list, p.last_minor_free_slot)
  BY DEF Hdr, Header
<1> HIDE DEF p1, t
<1>3. p2 = Hdr(p.alloc_count + 1, p.major_free_list, t, p.last_minor_free_slot)
  BY <1>2 DEF Hdr
<1> QED BY <1>1, <1>3 DEF t

LEMMA PopMajorIs ==
  ASSUME NEW p \in Header, NEW i
  PROVE  PopMajor(p, i) = Hdr(p.alloc_count + 1, p.major_free_list \ {i}, p.minor_free_list,
                              p.last_minor_free_slot)
<1> DEFINE p1 == [p EXCEPT !.alloc_count = @ + 1]
           p2 == [p1 EXCEPT !.major_free_list = p.major_free_list \ {i}]
<1>1. PopMajor(p, i) = p2
  BY DEF PopMajor
<1>2. p1 = Hdr(p.alloc_count + 1, p.major_free_list, p.minor_free_list, p.last_minor_free_slot)
  BY DEF Hdr, Header
<1> HIDE DEF p1
<1>3. p2 = Hdr(p.alloc_count + 1, p.major_free_list \ {i}, p.minor_free_list,
               p.last_minor_free_slot)
  BY <1>2 DEF Hdr
<1> QED BY <1>1, <1>3

LEMMA PopMinorOK ==
  ASSUME NEW L \in SUBSET Indices, NEW p, HeaderOK(p, L), p.minor_free_list # << >>
  PROVE  /\ Head(p.minor_free_list) \in Indices /\ Head(p.minor_free_list) \notin L
         /\ Head(p.minor_free_list) \in ToSet(p.minor_free_list)
         /\ HeaderOK(PopMinor(p), L \cup {Head(p.minor_free_list)})
         /\ ToSet(PopMinor(p).minor_free_list) \subseteq ToSet(p.minor_free_list)
         /\ PopMinor(p).alloc_count = p.alloc_count + 1
<1> DEFINE m == p.minor_free_list
           i == Head(m)
           M == p.major_free_list
           A == Indices \ (L \cup M)
<1>1. Enumerates(m, A) /\ m # << >>
  BY DEF HeaderOK
<1>2. i \in A /\ Enumerates(Tail(m), A \ {i})
  BY <1>1, EnumeratesTail
<1>3. PopMinor(p) = Hdr(p.alloc_count + 1, M, Tail(m), p.last_minor_free_slot)
  <2>1. p \in Header
    BY DEF HeaderOK
  <2> QED BY <2>1, PopMinorIs
<1>4. A \ {i} = Indices \ ((L \cup {i}) \cup M) /\ M \in SUBSET Indices /\ L \cup {i} \in SUBSET Indices
      /\ (L \cup {i}) \cap M = {}
  BY <1>2 DEF HeaderOK, Header
<1>5. p.alloc_count + 1 = Cardinality(L \cup {i})
  BY <1>2, OneMore DEF HeaderOK
<1>6. Tail(m) # << >> => p.last_minor_free_slot = Tail(m)[Len(Tail(m))]
  <2>1. m \in Seq(A) /\ p.last_minor_free_slot = m[Len(m)]
    BY <1>1 DEF HeaderOK, Enumerates
  <2> HIDE DEF m, A
  <2> QED BY <1>1, <2>1
<1>7. p.last_minor_free_slot \in Indices \cup {NULL}
  BY DEF HeaderOK, Header
<1>8. ToSet(m) = A /\ ToSet(Tail(m)) = A \ {i}
  BY <1>1, <1>2, EnumeratesToSet
<1> HIDE DEF m, i, M, A
<1>9. HeaderOK(PopMinor(p), L \cup {i})
  <2>1. Enumerates(Tail(m), Indices \ ((L \cup {i}) \cup M))
    BY <1>2, <1>4
  <2>2. HeaderOK(Hdr(p.alloc_count + 1, M, Tail(m), p.last_minor_free_slot), L \cup {i})
    BY <1>4, <1>5, <1>6, <1>7, <2>1, MakeHeader
  <2> QED BY <1>3, <2>2
<1>10. PopMinor(p).minor_free_list = Tail(m) /\ PopMinor(p).alloc_count = p.alloc_count + 1
  BY <1>3 DEF Hdr
<1> QED BY <1>2, <1>8, <1>9, <1>10 DEF m, i, A

LEMMA PopMajorOK ==
  ASSUME NEW L \in SUBSET Indices, NEW p, HeaderOK(p, L), NEW i \in p.major_free_list
  PROVE  /\ i \in Indices /\ i \notin L
         /\ HeaderOK(PopMajor(p, i), L \cup {i})
         /\ PopMajor(p, i).minor_free_list = p.minor_free_list
         /\ PopMajor(p, i).alloc_count = p.alloc_count + 1
<1> DEFINE m == p.minor_free_list
           M == p.major_free_list
<1>1. M \in SUBSET Indices /\ L \cap M = {}
  BY DEF HeaderOK, Header
<1>2. PopMajor(p, i) = Hdr(p.alloc_count + 1, M \ {i}, m, p.last_minor_free_slot)
  <2>1. p \in Header
    BY DEF HeaderOK
  <2> QED BY <2>1, PopMajorIs
<1>3. Indices \ (L \cup M) = Indices \ ((L \cup {i}) \cup (M \ {i})) /\ (L \cup {i}) \cap (M \ {i}) = {}
      /\ M \ {i} \in SUBSET Indices /\ L \cup {i} \in SUBSET Indices
  BY <1>1
<1>4. Enumerates(m, Indices \ ((L \cup {i}) \cup (M \ {i})))
  BY <1>3 DEF HeaderOK
<1>5. p.alloc_count + 1 = Cardinality(L \cup {i})
  BY <1>1, OneMore DEF HeaderOK
<1>6. p.last_minor_free_slot \in Indices \cup {NULL} /\ (m # << >> => p.last_minor_free_slot = m[Len(m)])
  BY DEF HeaderOK, Header
<1> HIDE DEF m, M
<1>7. HeaderOK(PopMajor(p, i), L \cup {i})
  BY <1>2, <1>3, <1>4, <1>5, <1>6, MakeHeader
<1>8. PopMajor(p, i).minor_free_list = m /\ PopMajor(p, i).alloc_count = p.alloc_count + 1
  BY <1>2 DEF Hdr
<1> QED BY <1>1, <1>7, <1>8 DEF m, M

\* Free for a slot that has v.
FreeFor(p, i, v) == Free(p, i, v = "young")

LEMMA FreeOK ==
  ASSUME NEW L \in SUBSET Indices, NEW p, HeaderOK(p, L), NEW i \in L, NEW v
  PROVE  /\ HeaderOK(FreeFor(p, i, v), L \ {i})
         /\ \A j \in ToSet(FreeFor(p, i, v).minor_free_list) :
              j \in ToSet(p.minor_free_list) \/ (v = "young" /\ j = i)
         /\ FreeFor(p, i, v).alloc_count = p.alloc_count - 1
<1> DEFINE m == p.minor_free_list
           M == p.major_free_list
           A == Indices \ (L \cup M)
           last == p.last_minor_free_slot
<1>1. /\ M \in SUBSET Indices /\ L \cap M = {} /\ Enumerates(m, A) /\ last \in Indices \cup {NULL}
      /\ m # << >> => last = m[Len(m)]
  BY DEF HeaderOK, Header
<1>2. p.alloc_count - 1 = Cardinality(L \ {i})
  BY OneLess DEF HeaderOK
<1>3. CASE v = "young"
  <2> DEFINE l == IF m = << >> THEN i ELSE last
             m1 == <<i>> \o m
  <2>1. FreeFor(p, i, v) = Hdr(p.alloc_count - 1, M, m1, l)
    BY <1>3 DEF FreeFor, Free, Hdr, HeaderOK, Header
  <2>2. i \notin A /\ A \cup {i} = Indices \ ((L \ {i}) \cup M) /\ (L \ {i}) \cap M = {}
        /\ L \ {i} \in SUBSET Indices
    BY <1>1
  <2>3. Enumerates(m1, A \cup {i})
    BY <1>1, <2>2, EnumeratesCons
  <2>4. l \in Indices \cup {NULL} /\ l = m1[Len(m1)]
    <3>1. m \in Seq(A)
      BY <1>1 DEF Enumerates
    <3>2. m = << >> => m1[Len(m1)] = i
      OBVIOUS
    <3>3. m # << >> => m1[Len(m1)] = m[Len(m)]
      <4> HIDE DEF m, A
      <4>1. Len(m) \in Nat /\ (m # << >> => Len(m) # 0)
        BY <3>1
      <4>2. Len(m1) = Len(m) + 1 /\ \A k \in 1 .. Len(m) : m1[k + 1] = m[k]
        BY <3>1
      <4> QED BY <4>1, <4>2
    <3> QED BY <1>1, <3>2, <3>3
  <2>5. ToSet(m1) = A \cup {i} /\ ToSet(m) = A
    BY <1>1, <2>3, EnumeratesToSet
  <2> HIDE DEF m, M, A, last, l, m1
  <2>6. HeaderOK(Hdr(p.alloc_count - 1, M, m1, l), L \ {i})
    BY <1>1, <1>2, <2>2, <2>3, <2>4, MakeHeader
  <2>7. FreeFor(p, i, v).minor_free_list = m1 /\ FreeFor(p, i, v).alloc_count = p.alloc_count - 1
    BY <2>1 DEF Hdr
  <2> QED BY <1>3, <2>1, <2>5, <2>6, <2>7 DEF m
<1>4. CASE v # "young"
  <2>1. FreeFor(p, i, v) = Hdr(p.alloc_count - 1, M \cup {i}, m, last)
    BY <1>4 DEF FreeFor, Free, Hdr, HeaderOK, Header
  <2>2. /\ Indices \ (L \cup M) = Indices \ ((L \ {i}) \cup (M \cup {i}))
        /\ (L \ {i}) \cap (M \cup {i}) = {}
        /\ L \ {i} \in SUBSET Indices /\ M \cup {i} \in SUBSET Indices
    BY <1>1
  <2>3. Enumerates(m, Indices \ ((L \ {i}) \cup (M \cup {i})))
    BY <1>1, <2>2
  <2> HIDE DEF m, M, A, last
  <2>4. HeaderOK(Hdr(p.alloc_count - 1, M \cup {i}, m, last), L \ {i})
    BY <1>1, <1>2, <2>2, <2>3, MakeHeader
  <2>5. FreeFor(p, i, v).minor_free_list = m /\ FreeFor(p, i, v).alloc_count = p.alloc_count - 1
    BY <2>1 DEF Hdr
  <2> QED BY <1>4, <2>1, <2>4, <2>5 DEF m
<1> QED BY <1>3, <1>4

\* The splice loses no slot, since the recorded last slot is the last.
LEMMA SpliceOK ==
  ASSUME NEW L \in SUBSET Indices, NEW p, HeaderOK(p, L)
  PROVE  /\ HeaderOK(scan_pool_minor(p), L)
         /\ scan_pool_minor(p).minor_free_list = << >>
         /\ scan_pool_minor(p).alloc_count = p.alloc_count
<1> DEFINE m == p.minor_free_list
           M == p.major_free_list
           A == Indices \ (L \cup M)
           last == p.last_minor_free_slot
<1>1. /\ M \in SUBSET Indices /\ L \cap M = {} /\ Enumerates(m, A) /\ last \in Indices \cup {NULL}
      /\ m # << >> => last = m[Len(m)]
  BY DEF HeaderOK, Header
<1>2. CASE m = << >>
  BY <1>2 DEF scan_pool_minor
<1>3. CASE m # << >>
  <2> DEFINE i == CHOOSE j \in DOMAIN m : m[j] = last
  <2>1. /\ m \in Seq(A) /\ DOMAIN m = 1 .. Len(m) /\ Len(m) \in 1 .. Len(m)
        /\ \A j, k \in 1 .. Len(m) : m[j] = m[k] => j = k
    <3>1. m \in Seq(A) /\ \A j, k \in 1 .. Len(m) : m[j] = m[k] => j = k
      BY <1>1 DEF Enumerates
    <3> HIDE DEF m
    <3> QED BY <1>3, <3>1
  <2>2. i = Len(m)
    <3> HIDE DEF m, last
    <3>1. m[Len(m)] = last
      BY <1>1, <1>3
    <3> QED BY <2>1, <3>1
  <2>3. ToSet(SubSeq(m, 1, i)) = ToSet(m)
    <3> HIDE DEF m
    <3>0. m \in Seq(A) /\ i = Len(m) /\ Len(m) \in Nat
      BY <2>1, <2>2
    <3> HIDE DEF i, A
    <3>1. DOMAIN SubSeq(m, 1, i) = 1 .. i /\ DOMAIN m = 1 .. i
      BY <3>0
    <3>2. \A k \in 1 .. i : SubSeq(m, 1, i)[k] = m[k]
      BY <3>0
    <3> QED BY <3>1, <3>2 DEF ToSet
  <2>4. ToSet(m) = A
    BY <1>1, EnumeratesToSet
  <2>5. scan_pool_minor(p) = [p EXCEPT !.major_free_list = M \cup ToSet(SubSeq(m, 1, i)),
                                       !.minor_free_list = << >>]
    BY <1>3 DEF scan_pool_minor
  <2>6. scan_pool_minor(p) = Hdr(p.alloc_count, M \cup A, << >>, last)
    BY <2>3, <2>4, <2>5 DEF Hdr, HeaderOK, Header
  <2>7. Indices \ (L \cup (M \cup A)) = {} /\ L \cap (M \cup A) = {} /\ M \cup A \in SUBSET Indices
    BY <1>1
  <2>8. p.alloc_count = Cardinality(L)
    BY DEF HeaderOK
  <2> HIDE DEF m, M, A, last
  <2>9. HeaderOK(Hdr(p.alloc_count, M \cup A, << >>, last), L)
    BY <1>1, <2>7, <2>8, EnumeratesNone, MakeHeader
  <2> QED BY <2>6, <2>9 DEF Hdr
<1> QED BY <1>2, <1>3
-----------------------------------------------------------------------------
(* The invariant.                                                          *)

Live(q) == {i \in Indices : full[<<q, i>>] # "free"}
Minor(q) == ToSet(hd[q].minor_free_list)

Types ==
  /\ status \in {"not_setup", "setup", "tore_down", "crashed"}
  /\ mapped \subseteq Pools
  /\ hd \in [Pools -> Header]
  /\ full \in [Slots -> Values \cup {"free"}]
  /\ remembered \subseteq Slots
  /\ gc \in {"none", "minor", "major"}
  /\ todo \subseteq {"remembered set", "scan"}

\* The two rings share the mapped pools.
RingsOK ==
  /\ Enumerates(pools, ToSet(pools)) /\ Enumerates(full_pools, ToSet(full_pools))
  /\ ToSet(pools) \cap ToSet(full_pools) = {}
  /\ ToSet(pools) \cup ToSet(full_pools) = mapped

Headers == \A q \in Pools : /\ HeaderOK(hd[q], Live(q))
                            /\ q \notin mapped => hd[q] = Empty

\* The pools that are not looked at when empty pools are freed have roots.
FullCounts == \A q \in ToSet(full_pools) : hd[q].alloc_count > Threshold

\* When the library is called and what a collection has to do.
Phase ==
  /\ status = "not_setup" => mapped = {}
  /\ status = "tore_down" => gc = "none"
  /\ gc = "none" => todo = {}
  /\ gc = "major" => todo \subseteq {"scan"}

\* The minor free lists are forgotten by a minor collection, when it scans.
Remembered ==
  /\ \A s \in Slots : full[s] = "young" => s \in remembered
  /\ gc # "minor" => \A q \in Pools : \A i \in Minor(q) : <<q, i>> \in remembered

\* What holds of a collection that has scanned the roots.
Scanned ==
  gc # "none" /\ "scan" \notin todo /\ status # "crashed" =>
    /\ gc = "minor" => \A q \in Pools : Minor(q) = {}
    /\ gc = "major" => \A s \in Slots : full[s] # "old"
    /\ \A q, r \in mapped : is_empty_pool(q) /\ is_empty_pool(r) => q = r

AgesOK ==
  /\ \A s \in Slots : full[s] # "dead"
  /\ \A s \in Slots : full[s] = "marked" => gc = "major" /\ "scan" \notin todo
  /\ gc = "minor" /\ "remembered set" \notin todo => \A s \in Slots : full[s] # "young"
  /\ gc = "major" => \A s \in Slots : full[s] # "young"

RemInv == /\ Types /\ RingsOK /\ Headers /\ FullCounts
          /\ Phase /\ Remembered /\ Scanned /\ AgesOK

LEMMA ThresholdIsLess == Threshold \in Nat /\ Threshold < POOL_ROOTS_CAPACITY
BY ConstantsHold DEF Constants, Threshold

LEMMA LiveIs == \A q : Live(q) \in SUBSET Indices
BY DEF Live

LEMMA RingsBecome ==
  ASSUME NEW A, NEW B, Enumerates(pools', A), Enumerates(full_pools', B),
         A \cap B = {}, A \cup B = mapped'
  PROVE  RingsOK' /\ ToSet(pools') = A /\ ToSet(full_pools') = B
<1>1. ToSet(pools') = A /\ ToSet(full_pools') = B
  BY EnumeratesToSet
<1> QED BY <1>1 DEF RingsOK

\* What the parts of the invariant do not see.
LEMMA RingsSame == ASSUME RingsOK, UNCHANGED <<mapped, pools, full_pools>> PROVE RingsOK'
BY DEF RingsOK

LEMMA HeadersSame ==
  ASSUME Headers, UNCHANGED <<mapped, hd>>, \A q \in Pools : Live(q)' = Live(q)
  PROVE  Headers'
BY DEF Headers

LEMMA FullCountsSame ==
  ASSUME FullCounts, UNCHANGED <<full_pools, hd>> PROVE FullCounts'
BY DEF FullCounts

LEMMA InitHolds == ASSUME Init PROVE RemInv
<1> USE DEF Init
<1>1. \A q \in Pools : Live(q) = {}
  BY DEF Live, Slots
<1>2. HeaderOK(Empty, {}) /\ Empty \in Header
  BY EmptyHeader DEF HeaderOK
<1>3. Types
  BY <1>2 DEF Types
<1>4. Headers
  BY <1>1, <1>2 DEF Headers
<1>5. ToSet(pools) = {} /\ ToSet(full_pools) = {}
  BY DEF ToSet
<1>6. RingsOK
  BY <1>5, EnumeratesNone DEF RingsOK
<1>7. FullCounts
  BY <1>5 DEF FullCounts
<1>8. \A q \in Pools : Minor(q) = {}
  <2>1. ToSet(<< >>) = {}
    BY DEF ToSet
  <2> QED BY <2>1 DEF Minor, Empty
<1>9. Phase /\ Remembered /\ Scanned /\ AgesOK
  BY <1>8 DEF Phase, Remembered, Scanned, AgesOK
<1> QED BY <1>3, <1>4, <1>6, <1>7, <1>9 DEF RemInv

LEMMA SetupKeeps == ASSUME RemInv, rem_boxroot_setup PROVE RemInv'
<1> USE DEF rem_boxroot_setup, runtime, RemInv
<1>1. Types'
  BY DEF Types
<1>2. RingsOK' /\ Headers' /\ FullCounts'
  BY RingsSame, HeadersSame, FullCountsSame DEF Live
<1>3. Phase' /\ Remembered' /\ Scanned' /\ AgesOK'
  BY DEF Phase, Remembered, Scanned, AgesOK, Minor
<1> QED BY <1>1, <1>2, <1>3

LEMMA StartKeeps ==
  ASSUME RemInv, NEW kind \in {"minor", "major"}, StartGC(kind) PROVE RemInv'
<1> USE DEF StartGC, RemInv
<1>1. Types'
  BY DEF Types
<1>2. RingsOK' /\ Headers' /\ FullCounts'
  BY RingsSame, HeadersSame, FullCountsSame DEF Live
<1>3. Phase' /\ Scanned'
  BY DEF Phase, Scanned
<1>4. Remembered' /\ AgesOK'
  BY DEF Phase, Remembered, AgesOK, Minor
<1> QED BY <1>1, <1>2, <1>3, <1>4

LEMMA TraverseKeeps == ASSUME RemInv, TraverseRememberedSet PROVE RemInv'
<1> USE DEF TraverseRememberedSet, RemInv
<1>1. /\ full' \in [Slots -> Values \cup {"free"}]
      /\ \A s \in Slots : full'[s] = IF s \in remembered /\ full[s] = "young" THEN "old" ELSE full[s]
      /\ gc = "minor"
  BY DEF Types, Phase, Values, Ages
<1>2. Types'
  BY <1>1 DEF Types
<1>3. \A q \in Pools : Live(q)' = Live(q)
  BY <1>1 DEF Live, Slots
<1>4. RingsOK' /\ Headers' /\ FullCounts'
  BY <1>3, RingsSame, HeadersSame, FullCountsSame
<1>5. Phase'
  BY <1>1 DEF Phase
<1>6. Remembered' /\ AgesOK'
  BY <1>1 DEF Remembered, AgesOK, Minor
<1>7. Scanned'
  BY <1>1 DEF Scanned, Minor, is_empty_pool
<1> QED BY <1>2, <1>4, <1>5, <1>6, <1>7

LEMMA EndKeeps == ASSUME RemInv, EndGC PROVE RemInv'
<1> USE DEF EndGC, RemInv
<1>1. \A s \in Slots : full[s] \in {"young", "old", "marked", "free"}
  BY DEF Types, AgesOK, Values, Ages
<1>2. /\ \A s \in Slots : full[s] # "young"
      /\ gc = "major" => \A s \in Slots : full[s] # "old"
      /\ gc \in {"minor", "major"}
  BY DEF AgesOK, Scanned, Types
<1>3. \A s \in Slots : full'[s] = IF full[s] = "marked" THEN "old" ELSE full[s]
  BY <1>1, <1>2
<1>4. full' \in [Slots -> Values \cup {"free"}]
  <2>1. full' = [s \in Slots |-> full'[s]]
    OBVIOUS
  <2>2. \A s \in Slots : full'[s] \in Values \cup {"free"}
    BY <1>1, <1>3 DEF Values, Ages
  <2> QED BY <2>1, <2>2
<1>5. Types'
  BY <1>4 DEF Types
<1>6. \A q \in Pools : Live(q)' = Live(q)
  BY <1>3 DEF Live, Slots
<1>7. RingsOK' /\ Headers' /\ FullCounts'
  BY <1>6, RingsSame, HeadersSame, FullCountsSame
<1>8. Phase' /\ Scanned'
  BY DEF Phase, Scanned
<1>9. Remembered'
  <2>1. gc = "minor" => \A q \in Pools : Minor(q)' = {}
    BY DEF Scanned, Minor
  <2>2. gc = "major" => \A q \in Pools : Minor(q)' = Minor(q) /\ remembered' = remembered
    BY DEF Minor
  <2>3. \A s \in Slots : full'[s] # "young"
    BY <1>1, <1>2, <1>3
  <2> QED BY <1>2, <2>1, <2>2, <2>3 DEF Remembered
<1>10. AgesOK'
  BY <1>1, <1>2, <1>3 DEF AgesOK
<1> QED BY <1>5, <1>7, <1>8, <1>9, <1>10

LEMMA ModifyKeeps ==
  ASSUME RemInv, NEW s \in Slots, NEW v \in Ages, rem_boxroot_modify(s, v) PROVE RemInv'
<1> USE DEF rem_boxroot_modify, CanCall, RemInv
<1>1. \A x \in Slots : full'[x] = IF x = s THEN v ELSE full[x]
  BY DEF Types
<1>2. Types'
  BY DEF Types, Values
<1>3. v \in {"young", "old"}
  BY DEF Ages
<1>4. \A q \in Pools : Live(q)' = Live(q)
  BY <1>1, <1>3 DEF Live, Slots
<1>5. RingsOK' /\ Headers' /\ FullCounts'
  BY <1>4, RingsSame, HeadersSame, FullCountsSame
<1>6. Phase' /\ Scanned' /\ AgesOK'
  BY <1>1, <1>3 DEF Phase, Scanned, AgesOK
<1>7. Remembered'
  BY <1>1, <1>3 DEF Remembered, Minor
<1> QED BY <1>2, <1>5, <1>6, <1>7

\* The full pools at the front, and what remains.
LEMMA PrefixIs ==
  ASSUME RingsOK
  PROVE  /\ Enumerates(FullPrefix, ToSet(FullPrefix)) /\ ToSet(FullPrefix) \subseteq ToSet(pools)
         /\ Enumerates(Remaining, ToSet(pools) \ ToSet(FullPrefix))
         /\ \A q \in ToSet(FullPrefix) : is_full_pool(q)
         /\ Remaining # << >> => ~ is_full_pool(Head(Remaining))
<1> DEFINE P == ToSet(pools)
           Till(i) == /\ \A j \in 1 .. i : is_full_pool(pools[j])
                      /\ i < Len(pools) => ~ is_full_pool(pools[i + 1])
           n == CHOOSE i \in 0 .. Len(pools) : Till(i)
<1>1. Enumerates(pools, P) /\ pools \in Seq(P) /\ Len(pools) \in Nat
  BY DEF RingsOK, Enumerates
<1>2. \E i \in 0 .. Len(pools) : Till(i)
  <2> SUFFICES ASSUME \A i \in 0 .. Len(pools) : ~ Till(i) PROVE FALSE
    OBVIOUS
  <2> DEFINE T == {i \in 0 .. Len(pools) : \A j \in 1 .. i : is_full_pool(pools[j])}
  <2>1. T \in SUBSET (0 .. Len(pools)) /\ 0 \in T
    BY <1>1
  <2>2. \A i \in 0 .. Len(pools) - 1 : i \in T => i + 1 \in T
    <3> SUFFICES ASSUME NEW i \in 0 .. Len(pools) - 1, i \in T PROVE i + 1 \in T
      OBVIOUS
    <3>1. i \in 0 .. Len(pools) /\ i < Len(pools) /\ i + 1 \in 0 .. Len(pools)
      BY <1>1
    <3>2. is_full_pool(pools[i + 1])
      BY <3>1
    <3>3. \A j \in 1 .. i + 1 : j \in 1 .. i \/ j = i + 1
      BY <3>1
    <3> QED BY <3>1, <3>2, <3>3
  <2>3. T = 0 .. Len(pools)
    <3> HIDE DEF T
    <3> QED BY <1>1, <2>1, <2>2, IntervalInduction
  <2>4. Len(pools) \in T /\ Len(pools) \in 0 .. Len(pools)
    BY <1>1, <2>3
  <2>5. Till(Len(pools))
    BY <1>1, <2>4
  <2> QED BY <2>4, <2>5
<1>3. n \in 0 .. Len(pools) /\ Till(n)
  BY <1>2
<1>4. FullPrefix = SubSeq(pools, 1, n)
  BY DEF FullPrefix
<1> HIDE DEF n
<1>5. /\ \A j \in 1 .. n : is_full_pool(pools[j])
      /\ n < Len(pools) => ~ is_full_pool(pools[n + 1])
  BY <1>3
<1> HIDE DEF Till, P
<1>6. Len(FullPrefix) = n /\ \A j \in 1 .. n : FullPrefix[j] = pools[j]
  BY <1>1, <1>3, <1>4
<1>7. /\ Enumerates(FullPrefix, ToSet(FullPrefix)) /\ ToSet(FullPrefix) \subseteq P
      /\ Enumerates(SubSeq(pools, n + 1, Len(pools)), P \ ToSet(FullPrefix))
  BY <1>1, <1>3, <1>4, EnumeratesCut
<1>8. \A q \in ToSet(FullPrefix) : is_full_pool(q)
  <2> TAKE q \in ToSet(FullPrefix)
  <2>1. DOMAIN FullPrefix = 1 .. n
    BY <1>6, <1>7 DEF Enumerates
  <2>2. PICK j \in 1 .. n : FullPrefix[j] = q
    BY <2>1 DEF ToSet
  <2> QED BY <1>5, <1>6, <2>2
<1>9. Remaining = SubSeq(pools, n + 1, Len(pools))
  BY <1>6 DEF Remaining
<1>10. Remaining # << >> => ~ is_full_pool(Head(Remaining))
  <2> SUFFICES ASSUME Remaining # << >> PROVE ~ is_full_pool(Head(Remaining))
    OBVIOUS
  <2>1. n < Len(pools)
    BY <1>1, <1>3, <1>9
  <2>2. Head(Remaining) = pools[n + 1]
    BY <1>1, <1>3, <1>9, <2>1
  <2> QED BY <1>5, <2>1, <2>2
<1> QED BY <1>7, <1>8, <1>9, <1>10 DEF P

\* find_available_pool moves the full pools that it meets.
LEMMA MovedOK ==
  ASSUME RingsOK, FullCounts, full_pools' = full_pools \o FullPrefix
  PROVE  /\ Enumerates(full_pools', ToSet(full_pools) \cup ToSet(FullPrefix))
         /\ \A q \in ToSet(full_pools) \cup ToSet(FullPrefix) : hd[q].alloc_count > Threshold
<1>1. Enumerates(FullPrefix, ToSet(FullPrefix)) /\ ToSet(FullPrefix) \subseteq ToSet(pools)
      /\ \A q \in ToSet(FullPrefix) : is_full_pool(q)
  BY PrefixIs
<1>2. Enumerates(full_pools, ToSet(full_pools)) /\ ToSet(full_pools) \cap ToSet(FullPrefix) = {}
  BY <1>1 DEF RingsOK
<1>3. Enumerates(full_pools', ToSet(full_pools) \cup ToSet(FullPrefix))
  BY <1>1, <1>2, EnumeratesJoin
<1>4. \A q \in ToSet(FullPrefix) : hd[q].alloc_count > Threshold
  BY <1>1, ThresholdIsLess, ConstantsHold DEF is_full_pool, Constants
<1> QED BY <1>3, <1>4 DEF FullCounts

LEMMA AvailableOK ==
  ASSUME Types, RingsOK, Headers, FullCounts, NEW q \in Pools, Available(q),
         full_pools' = full_pools \o FullPrefix
  PROVE  /\ RingsOK' /\ q \in mapped' /\ mapped \subseteq mapped' /\ mapped' \subseteq mapped \cup {q}
         /\ ~ is_full_pool(q)
         /\ q \notin ToSet(full_pools')
         /\ \A r \in ToSet(full_pools') : hd[r].alloc_count > Threshold
<1> DEFINE P == ToSet(pools)
           F == ToSet(full_pools)
           X == ToSet(FullPrefix)
<1>1. /\ X \subseteq P /\ Enumerates(Remaining, P \ X)
      /\ Remaining # << >> => ~ is_full_pool(Head(Remaining))
  BY PrefixIs
<1>2. /\ Enumerates(full_pools', F \cup X)
      /\ \A r \in F \cup X : hd[r].alloc_count > Threshold
  BY MovedOK
<1>3. P \cap F = {} /\ P \cup F = mapped
  BY DEF RingsOK
<1> HIDE DEF P, F, X
<1>4. CASE Remaining # << >>
  <2>1. mapped' = mapped /\ pools' = Remaining /\ q = Head(Remaining)
    BY <1>4 DEF Available
  <2>2. (P \ X) \cap (F \cup X) = {} /\ (P \ X) \cup (F \cup X) = mapped'
    BY <1>1, <1>3, <2>1
  <2>3. Enumerates(pools', P \ X)
    BY <1>1, <2>1
  <2>4. RingsOK' /\ ToSet(full_pools') = F \cup X
    BY <1>2, <2>2, <2>3, RingsBecome
  <2>5. q \in P \ X
    BY <1>1, <1>4, <2>1, EnumeratesTail
  <2> QED BY <1>1, <1>2, <1>4, <2>1, <2>2, <2>4, <2>5
<1>5. CASE Remaining = << >>
  <2>1. q \notin mapped /\ mapped' = mapped \cup {q} /\ pools' = <<q>>
    BY <1>5 DEF Available
  <2>2. P \ X = {}
    <3>1. \A x \in P \ X : \E i \in 1 .. Len(Remaining) : Remaining[i] = x
      BY <1>1 DEF Enumerates
    <3> QED BY <1>5, <3>1
  <2>3. {q} \cap (F \cup X) = {} /\ {q} \cup (F \cup X) = mapped'
    BY <1>1, <1>3, <2>1, <2>2
  <2>4. Enumerates(pools', {q})
    BY <2>1, EnumeratesOne
  <2>5. RingsOK' /\ ToSet(full_pools') = F \cup X
    BY <1>2, <2>3, <2>4, RingsBecome
  <2>6. ~ is_full_pool(q)
    BY <2>1, ConstantsHold DEF Headers, Empty, is_full_pool, Constants
  <2> QED BY <1>2, <2>1, <2>3, <2>5, <2>6
<1> QED BY <1>4, <1>5

LEMMA NoMemoryKeeps == ASSUME RemInv, CreateNoMemory PROVE RemInv'
<1> USE DEF CreateNoMemory, CanCall, RemInv, runtime
<1> DEFINE F == ToSet(full_pools)
           X == ToSet(FullPrefix)
<1>1. Types' /\ Headers'
  BY HeadersSame DEF Types, Live
<1>2. /\ Enumerates(full_pools', F \cup X)
      /\ \A r \in F \cup X : hd[r].alloc_count > Threshold
  BY MovedOK
<1>3. ToSet(pools) \ X = {} /\ X \subseteq ToSet(pools)
  <2>1. X \subseteq ToSet(pools) /\ Enumerates(Remaining, ToSet(pools) \ X)
    BY PrefixIs
  <2>2. \A x \in ToSet(pools) \ X : \E i \in 1 .. Len(Remaining) : Remaining[i] = x
    BY <2>1 DEF Enumerates
  <2> HIDE DEF X
  <2> QED BY <2>1, <2>2
<1>4. {} \cap (F \cup X) = {} /\ {} \cup (F \cup X) = mapped'
  BY <1>3 DEF RingsOK
<1>5. Enumerates(pools', {})
  BY EnumeratesNone
<1>6. RingsOK' /\ ToSet(full_pools') = F \cup X
  <2> HIDE DEF F, X
  <2> QED BY <1>2, <1>4, <1>5, RingsBecome
<1>7. FullCounts'
  BY <1>2, <1>6 DEF FullCounts
<1>8. Phase' /\ Remembered' /\ Scanned' /\ AgesOK'
  BY DEF Phase, Remembered, Scanned, AgesOK, Minor
<1> QED BY <1>1, <1>6, <1>7, <1>8

LEMMA NotFull ==
  ASSUME Headers, NEW q \in Pools, ~ is_full_pool(q), hd[q].major_free_list = {}
  PROVE  hd[q].minor_free_list # << >>
<1>1. HeaderOK(hd[q], Live(q)) /\ Live(q) \in SUBSET Indices
  BY LiveIs DEF Headers
<1>2. Live(q) # Indices
  <2>1. Cardinality(Indices) = POOL_ROOTS_CAPACITY
    BY ConstantsHold, FS_Interval DEF Constants, Indices
  <2> QED BY <1>1, <2>1 DEF HeaderOK, is_full_pool
<1>3. PICK i \in Indices : i \notin Live(q)
  BY <1>1, <1>2
<1>4. Enumerates(hd[q].minor_free_list, Indices \ (Live(q) \cup {}))
  BY <1>1 DEF HeaderOK
<1>5. PICK k \in 1 .. Len(hd[q].minor_free_list) : hd[q].minor_free_list[k] = i
  BY <1>3, <1>4 DEF Enumerates
<1> QED BY <1>5

\* A slot is taken for a value: a young one finds it remembered.
LEMMA AllocOK ==
  ASSUME Types, Headers, Remembered, gc = "none", NEW q \in Pools, ~ is_full_pool(q),
         NEW i \in Indices, NEW v \in Ages,
         IF v = "young" THEN AllocYoung(q, i) ELSE AllocOld(q, i)
  PROVE  /\ i \notin Live(q)
         /\ HeaderOK(hd'[q], Live(q) \cup {i})
         /\ hd' \in [Pools -> Header]
         /\ \A r \in Pools : r # q => hd'[r] = hd[r]
         /\ hd'[q].alloc_count = hd[q].alloc_count + 1
         /\ ToSet(hd'[q].minor_free_list) \subseteq Minor(q)
         /\ remembered \subseteq remembered' /\ remembered' \subseteq Slots
         /\ v = "young" => <<q, i>> \in remembered'
<1> DEFINE p == hd[q]
<1>1. HeaderOK(p, Live(q)) /\ Live(q) \in SUBSET Indices /\ hd \in [Pools -> Header]
  BY LiveIs DEF Headers, Types
<1>2. CASE p.minor_free_list # << >> /\ i = Head(p.minor_free_list)
           /\ hd' = [hd EXCEPT ![q] = PopMinor(@)] /\ UNCHANGED remembered
  <2>1. hd'[q] = PopMinor(p) /\ \A r \in Pools : r # q => hd'[r] = hd[r]
    BY <1>1, <1>2
  <2> HIDE DEF p
  <2>2. /\ i \notin Live(q) /\ i \in ToSet(p.minor_free_list)
        /\ HeaderOK(PopMinor(p), Live(q) \cup {i})
        /\ ToSet(PopMinor(p).minor_free_list) \subseteq ToSet(p.minor_free_list)
        /\ PopMinor(p).alloc_count = p.alloc_count + 1
    BY <1>1, <1>2, PopMinorOK
  <2>3. hd' \in [Pools -> Header]
    <3>1. PopMinor(p) \in Header
      BY <2>2 DEF HeaderOK
    <3> QED BY <1>1, <1>2, <3>1 DEF p
  <2>4. <<q, i>> \in remembered
    BY <2>2 DEF Remembered, Minor, p
  <2> QED BY <1>2, <2>1, <2>2, <2>3, <2>4 DEF p, Minor, Types
<1>3. CASE i \in p.major_free_list /\ hd' = [hd EXCEPT ![q] = PopMajor(@, i)]
  <2>1. hd'[q] = PopMajor(p, i) /\ \A r \in Pools : r # q => hd'[r] = hd[r]
    BY <1>1, <1>3
  <2> HIDE DEF p
  <2>2. /\ i \notin Live(q)
        /\ HeaderOK(PopMajor(p, i), Live(q) \cup {i})
        /\ PopMajor(p, i).minor_free_list = p.minor_free_list
        /\ PopMajor(p, i).alloc_count = p.alloc_count + 1
    BY <1>1, <1>3, PopMajorOK
  <2>3. hd' \in [Pools -> Header]
    <3>1. PopMajor(p, i) \in Header
      BY <2>2 DEF HeaderOK
    <3> QED BY <1>1, <1>3, <3>1 DEF p
  <2>4. /\ remembered \subseteq remembered' /\ remembered' \subseteq Slots
        /\ v = "young" => <<q, i>> \in remembered'
    <3>1. CASE v = "young"
      <4>1. AllocYoung(q, i)
        BY <3>1
      <4>2. CASE p.minor_free_list # << >>
        <5>1. i = Head(p.minor_free_list) /\ UNCHANGED remembered
          BY <4>1, <4>2 DEF AllocYoung, p
        <5>2. i \in ToSet(p.minor_free_list)
          BY <1>1, <4>2, <5>1, PopMinorOK
        <5> QED BY <5>1, <5>2 DEF Remembered, Minor, p, Types
      <4>3. CASE p.minor_free_list = << >>
        <5>1. remembered' = remembered \cup {<<q, i>>}
          BY <4>1, <4>3 DEF AllocYoung, p
        <5> QED BY <5>1 DEF Types, Slots
      <4> QED BY <4>2, <4>3
    <3>2. CASE v # "young"
      BY <3>2 DEF AllocOld, Types
    <3> QED BY <3>1, <3>2
  <2> QED BY <2>1, <2>2, <2>3, <2>4 DEF p, Minor
<1>4. CASE v = "young"
  <2>1. AllocYoung(q, i)
    BY <1>4
  <2> QED BY <1>2, <1>3, <2>1 DEF AllocYoung
<1>5. CASE v # "young"
  <2>1. AllocOld(q, i)
    BY <1>5
  <2> QED BY <1>2, <1>3, <2>1, NotFull DEF AllocOld
<1> QED BY <1>4, <1>5

LEMMA CreateKeeps ==
  ASSUME RemInv, NEW v \in Ages, rem_boxroot_create(v) PROVE RemInv'
<1> USE DEF RemInv
<1>1. gc = "none" /\ status = "setup" /\ UNCHANGED <<status, gc, todo>>
      /\ full_pools' = full_pools \o FullPrefix
  BY DEF rem_boxroot_create, CanCall
<1>2. PICK q \in Pools, i \in Indices :
        /\ Available(q)
        /\ IF v = "young" THEN AllocYoung(q, i) ELSE AllocOld(q, i)
        /\ full' = [full EXCEPT ![<<q, i>>] = v]
  BY DEF rem_boxroot_create
<1>3. /\ RingsOK' /\ q \in mapped' /\ mapped \subseteq mapped' /\ mapped' \subseteq mapped \cup {q}
      /\ ~ is_full_pool(q)
      /\ q \notin ToSet(full_pools')
      /\ \A r \in ToSet(full_pools') : hd[r].alloc_count > Threshold
  BY <1>1, <1>2, AvailableOK
<1>4. /\ i \notin Live(q)
      /\ HeaderOK(hd'[q], Live(q) \cup {i})
      /\ hd' \in [Pools -> Header]
      /\ \A r \in Pools : r # q => hd'[r] = hd[r]
      /\ ToSet(hd'[q].minor_free_list) \subseteq Minor(q)
      /\ remembered \subseteq remembered' /\ remembered' \subseteq Slots
      /\ v = "young" => <<q, i>> \in remembered'
  BY <1>1, <1>2, <1>3, AllocOK
<1>5. /\ \A x \in Slots : full'[x] = IF x = <<q, i>> THEN v ELSE full[x]
      /\ full' \in [Slots -> Values \cup {"free"}]
      /\ v \in {"young", "old"}
  BY <1>2 DEF Types, Values, Ages, Slots
<1>6. mapped' \subseteq Pools /\ ToSet(full_pools') \subseteq mapped'
  BY <1>3 DEF Types, RingsOK
<1>7. Types'
  BY <1>1, <1>4, <1>5, <1>6 DEF Types
<1>8. \A r \in Pools : Live(r)' = IF r = q THEN Live(q) \cup {i} ELSE Live(r)
  <2> TAKE r \in Pools
  <2>1. \A j \in Indices : <<r, j>> \in Slots /\ (<<r, j>> = <<q, i>> <=> r = q /\ j = i)
    BY DEF Slots
  <2>2. \A j \in Indices : full'[<<r, j>>] # "free" <=> (r = q /\ j = i) \/ full[<<r, j>>] # "free"
    BY <1>5, <2>1
  <2> QED BY <2>2 DEF Live
<1>9. Headers'
  <2> SUFFICES ASSUME NEW r \in Pools
               PROVE  HeaderOK(hd'[r], Live(r)') /\ (r \notin mapped' => hd'[r] = Empty)
    BY DEF Headers
  <2> QED BY <1>3, <1>4, <1>8 DEF Headers
<1>10. FullCounts'
  <2> SUFFICES ASSUME NEW r \in ToSet(full_pools') PROVE hd'[r].alloc_count > Threshold
    BY DEF FullCounts, Threshold
  <2>1. r \in Pools /\ r # q
    BY <1>3, <1>6
  <2> QED BY <1>3, <1>4, <2>1
<1>11. Phase' /\ Scanned'
  BY <1>1 DEF Phase, Scanned
<1>12. Remembered'
  <2>1. \A r \in Pools : Minor(r)' \subseteq Minor(r)
    BY <1>4 DEF Minor
  <2>2. \A x \in Slots : full'[x] = "young" => x \in remembered'
    BY <1>4, <1>5 DEF Remembered
  <2> QED BY <1>1, <1>4, <2>1, <2>2 DEF Remembered
<1>13. AgesOK'
  BY <1>1, <1>5 DEF AgesOK
<1> QED BY <1>3, <1>7, <1>9, <1>10, <1>11, <1>12, <1>13

LEMMA DeleteKeeps ==
  ASSUME RemInv, NEW q \in Pools, NEW i \in Indices, rem_boxroot_delete(q, i) PROVE RemInv'
<1> USE DEF RemInv
<1> DEFINE P == ToSet(pools)
           F == ToSet(full_pools)
           young == (full[<<q, i>>] = "young")
<1>1. /\ gc = "none" /\ status = "setup" /\ UNCHANGED <<status, mapped, remembered, gc, todo>>
      /\ full[<<q, i>>] # "free"
      /\ hd' = [hd EXCEPT ![q] = Free(@, i, young)]
      /\ full' = [full EXCEPT ![<<q, i>>] = "free"]
  BY DEF rem_boxroot_delete, CanCall, runtime
<1>2. /\ hd'[q] = Free(hd[q], i, young)
      /\ \A r \in Pools : r # q => hd'[r] = hd[r]
      /\ \A x \in Slots : full'[x] = IF x = <<q, i>> THEN "free" ELSE full[x]
      /\ full' \in [Slots -> Values \cup {"free"}]
  BY <1>1 DEF Types, Slots
<1>3. i \in Live(q) /\ HeaderOK(hd[q], Live(q)) /\ Live(q) \in SUBSET Indices
  BY <1>1, LiveIs DEF Live, Headers
<1> HIDE DEF P, F
<1>4. /\ HeaderOK(hd'[q], Live(q) \ {i})
      /\ \A j \in ToSet(hd'[q].minor_free_list) : j \in Minor(q) \/ (young /\ j = i)
      /\ hd'[q].alloc_count = hd[q].alloc_count - 1
  <2>1. PICK v : v = full[<<q, i>>]
    OBVIOUS
  <2>2. PICK p : p = hd[q]
    OBVIOUS
  <2>3. PICK L : L = Live(q)
    OBVIOUS
  <2>4. hd'[q] = FreeFor(p, i, v)
    BY <1>2, <2>1, <2>2 DEF FreeFor
  <2>5. L \in SUBSET Indices /\ HeaderOK(p, L) /\ i \in L
    BY <1>3, <2>2, <2>3
  <2>6. /\ HeaderOK(FreeFor(p, i, v), L \ {i})
        /\ \A j \in ToSet(FreeFor(p, i, v).minor_free_list) :
             j \in ToSet(p.minor_free_list) \/ (v = "young" /\ j = i)
        /\ FreeFor(p, i, v).alloc_count = p.alloc_count - 1
    BY <2>5, FreeOK, ZenonT(40)
  <2> QED BY <2>1, <2>2, <2>3, <2>4, <2>6 DEF Minor
<1>5. q \in mapped
  <2>1. q \notin mapped => HeaderOK(Empty, Live(q))
    BY DEF Headers
  <2> QED BY <1>3, <2>1, EmptyHasNone
<1>6. hd' \in [Pools -> Header]
  <2>1. Free(hd[q], i, young) \in Header
    BY <1>2, <1>4 DEF HeaderOK
  <2> HIDE DEF young
  <2> QED BY <1>1, <2>1 DEF Types
<1>7. Types'
  BY <1>1, <1>2, <1>6 DEF Types
<1>8. \A r \in Pools : Live(r)' = IF r = q THEN Live(q) \ {i} ELSE Live(r)
  <2> TAKE r \in Pools
  <2>1. \A j \in Indices : <<r, j>> \in Slots /\ (<<r, j>> = <<q, i>> <=> r = q /\ j = i)
    BY DEF Slots
  <2>2. \A j \in Indices : full'[<<r, j>>] # "free" <=> ~ (r = q /\ j = i) /\ full[<<r, j>>] # "free"
    BY <1>2, <2>1
  <2> QED BY <2>2 DEF Live
<1>9. Headers'
  <2> SUFFICES ASSUME NEW r \in Pools
               PROVE  HeaderOK(hd'[r], Live(r)') /\ (r \notin mapped' => hd'[r] = Empty)
    BY DEF Headers
  <2> QED BY <1>1, <1>2, <1>4, <1>5, <1>8 DEF Headers
<1>10. /\ Enumerates(pools, P) /\ Enumerates(full_pools, F) /\ P \cap F = {} /\ P \cup F = mapped
       /\ \A r \in F : hd[r].alloc_count > Threshold
  BY DEF RingsOK, FullCounts, P, F
<1>11. RingsOK' /\ FullCounts'
  <2>1. CASE hd'[q].alloc_count = Threshold
    <3>1. pools' = Append(Without(pools, {q}), q) /\ full_pools' = Without(full_pools, {q})
      BY <2>1 DEF rem_boxroot_delete, Requeue
    <3>2. Enumerates(Without(pools, {q}), P \ {q}) /\ Enumerates(full_pools', F \ {q})
      BY <1>10, <3>1, EnumeratesWithout
    <3>3. Enumerates(pools', (P \ {q}) \cup {q})
      BY <3>1, <3>2, EnumeratesAppend
    <3>4. ((P \ {q}) \cup {q}) \cap (F \ {q}) = {} /\ ((P \ {q}) \cup {q}) \cup (F \ {q}) = mapped'
      BY <1>1, <1>5, <1>10
    <3>5. RingsOK' /\ ToSet(full_pools') = F \ {q}
      BY <3>2, <3>3, <3>4, RingsBecome
    <3>6. \A r \in F \ {q} : hd'[r].alloc_count > Threshold
      BY <1>2, <1>10 DEF Types
    <3> QED BY <3>5, <3>6 DEF FullCounts, Threshold
  <2>2. CASE hd'[q].alloc_count # Threshold
    <3>1. UNCHANGED <<pools, full_pools>>
      BY <2>2 DEF rem_boxroot_delete
    <3>2. RingsOK'
      BY <1>1, <3>1, RingsSame
    <3>3. hd[q].alloc_count \in Int /\ Threshold \in Int
      BY <1>3, ThresholdIsLess, Sizes DEF HeaderOK
    <3>4. \A r \in F : hd'[r].alloc_count > Threshold
      <4>1. q \in F => hd'[q].alloc_count > Threshold
        BY <1>4, <1>10, <2>2, <3>3
      <4> QED BY <1>2, <1>10, <4>1 DEF Types
    <3>5. FullCounts'
      BY <3>1, <3>4 DEF FullCounts, Threshold, F
    <3> QED BY <3>2, <3>5
  <2> QED BY <2>1, <2>2
<1>12. Phase' /\ Scanned'
  BY <1>1 DEF Phase, Scanned
<1>13. Remembered'
  <2>1. \A x \in Slots : full'[x] = "young" => x \in remembered'
    BY <1>1, <1>2 DEF Remembered
  <2>2. young => <<q, i>> \in remembered
    BY DEF Remembered, Slots
  <2>3. \A r \in Pools : r # q => Minor(r)' = Minor(r)
    BY <1>2 DEF Minor
  <2>4. \A j \in Minor(q)' : j \in Minor(q) \/ (young /\ j = i)
    BY <1>4 DEF Minor
  <2>5. \A r \in Pools : \A j \in Minor(r) : <<r, j>> \in remembered
    BY <1>1 DEF Remembered
  <2> HIDE DEF young
  <2>6. \A r \in Pools : \A j \in Minor(r)' : <<r, j>> \in remembered
    BY <2>2, <2>3, <2>4, <2>5
  <2> QED BY <1>1, <2>1, <2>6 DEF Remembered
<1>14. AgesOK'
  BY <1>1, <1>2 DEF AgesOK
<1> QED BY <1>7, <1>9, <1>11, <1>12, <1>13, <1>14

LEMMA TeardownKeeps == ASSUME RemInv, rem_boxroot_teardown PROVE RemInv'
<1> USE DEF RemInv
<1> DEFINE F == ToSet(full_pools)
<1>1. /\ gc = "none" /\ status = "setup" /\ status' = "tore_down" /\ pools' = << >>
      /\ UNCHANGED <<full_pools, remembered, gc, todo>>
      /\ mapped' = mapped \ ToSet(pools)
      /\ \A q \in Pools : hd'[q] = IF q \in mapped' THEN hd[q] ELSE Empty
      /\ \A s \in Slots : full'[s] = IF s[1] \in mapped' THEN full[s] ELSE "free"
  BY DEF rem_boxroot_teardown, CanCall, runtime
<1>2. mapped' = F /\ mapped' \subseteq mapped /\ Enumerates(full_pools', F) /\ {} \cap F = {} /\ {} \cup F = mapped'
  BY <1>1 DEF RingsOK
<1>3. Empty \in Header /\ HeaderOK(Empty, {})
  BY EmptyHeader DEF HeaderOK
<1>4. hd' \in [Pools -> Header] /\ full' \in [Slots -> Values \cup {"free"}]
  <2>1. hd' = [q \in Pools |-> hd'[q]] /\ full' = [s \in Slots |-> full'[s]]
    BY DEF rem_boxroot_teardown
  <2>2. \A q \in Pools : hd'[q] \in Header
    BY <1>1, <1>3 DEF Types
  <2>3. \A s \in Slots : full'[s] \in Values \cup {"free"}
    BY <1>1 DEF Types
  <2> QED BY <2>1, <2>2, <2>3
<1>5. Types'
  BY <1>1, <1>2, <1>4 DEF Types
<1>6. \A q \in Pools : Live(q)' = IF q \in mapped' THEN Live(q) ELSE {}
  <2> TAKE q \in Pools
  <2>1. \A i \in Indices : <<q, i>> \in Slots /\ <<q, i>>[1] = q
    BY DEF Slots
  <2>2. \A i \in Indices : full'[<<q, i>>] = IF q \in mapped' THEN full[<<q, i>>] ELSE "free"
    BY <1>1, <2>1
  <2> QED BY <2>2 DEF Live
<1>7. Headers'
  <2> SUFFICES ASSUME NEW q \in Pools
               PROVE  HeaderOK(hd'[q], Live(q)') /\ (q \notin mapped' => hd'[q] = Empty)
    BY DEF Headers
  <2> QED BY <1>1, <1>3, <1>6 DEF Headers
<1>8. RingsOK'
  <2>1. Enumerates(pools', {})
    BY <1>1, EnumeratesNone
  <2> HIDE DEF F
  <2> QED BY <1>2, <2>1, RingsBecome
<1>9. FullCounts'
  BY <1>1, <1>2 DEF FullCounts, Threshold, Types
<1>10. Phase' /\ Scanned' /\ AgesOK'
  BY <1>1 DEF Phase, Scanned, AgesOK
<1>11. Remembered'
  <2>1. ToSet(<< >>) = {}
    BY DEF ToSet
  <2>2. \A q \in Pools : Minor(q)' \subseteq Minor(q)
    BY <1>1, <2>1 DEF Minor, Empty
  <2> QED BY <1>1, <2>2 DEF Remembered
<1> QED BY <1>5, <1>7, <1>8, <1>9, <1>10, <1>11

\* The pools that are freed are empty ones of the first ring, all but one.
LEMMA SuperfluousIs ==
  ASSUME RingsOK
  PROVE  /\ \A q \in Superfluous : q \in ToSet(pools) /\ is_empty_pool(q)
         /\ \A q, r \in ToSet(pools) \ Superfluous :
              is_empty_pool(q) /\ is_empty_pool(r) => q = r
<1>1. pools \in Seq(ToSet(pools)) /\ Len(pools) \in Nat /\ DOMAIN pools = 1 .. Len(pools)
  BY DEF RingsOK, Enumerates
<1> DEFINE E == {i \in DOMAIN pools : is_empty_pool(pools[i])}
           S == {j \in E : \E k \in E : k < j}
<1>2. Superfluous = {pools[i] : i \in S}
  BY DEF Superfluous
<1>3. \A q \in Superfluous : q \in ToSet(pools) /\ is_empty_pool(q)
  BY <1>2 DEF ToSet
<1>4. ASSUME NEW q \in ToSet(pools), NEW r \in ToSet(pools), q \notin Superfluous, r \notin Superfluous,
             is_empty_pool(q), is_empty_pool(r)
      PROVE  q = r
  <2>1. PICK i \in 1 .. Len(pools) : pools[i] = q
    BY <1>1 DEF ToSet
  <2>2. PICK j \in 1 .. Len(pools) : pools[j] = r
    BY <1>1 DEF ToSet
  <2>3. i \in E /\ j \in E
    BY <1>1, <1>4, <2>1, <2>2
  <2>4. i \notin S /\ j \notin S
    BY <1>2, <1>4, <2>1, <2>2
  <2>5. ~ (i < j) /\ ~ (j < i)
    BY <2>3, <2>4
  <2> QED BY <2>1, <2>2, <2>5
<1> QED BY <1>3, <1>4

\* What the scanning hook does when there is a pool: X are the pools it frees.
ScannedBy(X) ==
  /\ \A q \in X : q \in ToSet(pools) /\ is_empty_pool(q)
  /\ \A q, r \in ToSet(pools) \ X : is_empty_pool(q) /\ is_empty_pool(r) => q = r
  /\ hd' = [q \in Pools |-> IF q \in X THEN Empty
                            ELSE IF gc = "minor" /\ q \in mapped THEN scan_pool_minor(hd[q])
                            ELSE hd[q]]
  /\ full' = [s \in Slots |-> IF s[1] \in X THEN "free"
                              ELSE IF gc = "major" /\ full[s] = "old" THEN "marked"
                              ELSE full[s]]
  /\ mapped' = mapped \ X
  /\ pools' = Without(pools, X)
  /\ status' \in {status, "crashed"}

\* The count of a pool never stops the scan before its last root.
LEMMA ScanReads ==
  ASSUME RemInv, scan_roots
  PROVE  ScannedBy(Superfluous)
<1> USE DEF RemInv
<1>1. Rings = mapped
  BY DEF Rings, RingsOK
<1>2. \A s \in Slots : /\ s = <<s[1], s[2]>> /\ s[1] \in Pools /\ s[2] \in Indices
                       /\ full[s] = "old" => s[1] \in mapped
  <2> SUFFICES ASSUME NEW s \in Slots
               PROVE  /\ s = <<s[1], s[2]>> /\ s[1] \in Pools /\ s[2] \in Indices
                      /\ full[s] = "old" => s[1] \in mapped
    OBVIOUS
  <2>1. s = <<s[1], s[2]>> /\ s[1] \in Pools /\ s[2] \in Indices
    BY DEF Slots
  <2>2. ASSUME full[s] = "old", s[1] \notin mapped PROVE FALSE
    <3>1. HeaderOK(Empty, Live(s[1]))
      BY <2>1, <2>2 DEF Headers
    <3>2. Live(s[1]) = {}
      BY <3>1, LiveIs, EmptyHasNone
    <3>3. s[2] \in Live(s[1])
      BY <2>1, <2>2 DEF Live
    <3> QED BY <3>2, <3>3
  <2> QED BY <2>1, <2>2
<1>3. \A q \in Pools, i \in Indices : Met(q, i) <= hd[q].alloc_count
  <2> TAKE q \in Pools, i \in Indices
  <2>1. {j \in 1 .. i : full[<<q, j>>] # "free"} \in SUBSET Live(q)
    BY ConstantsHold DEF Live, Indices, Constants
  <2>2. IsFiniteSet(Live(q))
    BY LiveIs, Sizes
  <2>3. Cardinality({j \in 1 .. i : full[<<q, j>>] # "free"}) <= Cardinality(Live(q))
    BY <2>1, <2>2, FS_Subset
  <2>4. hd[q].alloc_count = Cardinality(Live(q))
    BY DEF Headers, HeaderOK
  <2> QED BY <2>3, <2>4 DEF Met
<1>4. \A s \in Slots : scan_pool_major(s[1], s[2]) = IF full[s] = "old" THEN "marked" ELSE full[s]
  BY <1>2, <1>3 DEF scan_pool_major
<1> DEFINE X == Superfluous
<1>5. full' = [s \in Slots |-> IF s[1] \in X THEN "free"
                               ELSE IF gc = "major" /\ full[s] = "old" THEN "marked"
                               ELSE full[s]]
  <2>1. full' = [s \in Slots |->
                   IF s[1] \in X THEN "free"
                   ELSE IF gc = "major" /\ s[1] \in Rings THEN scan_pool_major(s[1], s[2])
                   ELSE full[s]]
    BY DEF scan_roots
  <2> HIDE DEF X
  <2>2. \A s \in Slots : (IF gc = "major" /\ s[1] \in Rings THEN scan_pool_major(s[1], s[2]) ELSE full[s])
                         = (IF gc = "major" /\ full[s] = "old" THEN "marked" ELSE full[s])
    BY <1>1, <1>2, <1>4
  <2> QED BY <2>1, <2>2
<1>6. hd' = [q \in Pools |-> IF q \in X THEN Empty
                             ELSE IF gc = "minor" /\ q \in mapped THEN scan_pool_minor(hd[q])
                             ELSE hd[q]]
  BY <1>1 DEF scan_roots
<1>7. mapped' = mapped \ X /\ pools' = Without(pools, X) /\ status' \in {status, "crashed"}
  BY DEF scan_roots
<1>8. /\ \A q \in X : q \in ToSet(pools) /\ is_empty_pool(q)
      /\ \A q, r \in ToSet(pools) \ X : is_empty_pool(q) /\ is_empty_pool(r) => q = r
  BY SuperfluousIs
<1> HIDE DEF X
<1>9. ScannedBy(X)
  BY <1>5, <1>6, <1>7, <1>8 DEF ScannedBy
<1> QED BY <1>9 DEF X

LEMMA ScanKeeps == ASSUME RemInv, scanning_callback PROVE RemInv'
<1> USE DEF RemInv
<1>1. /\ "scan" \in todo /\ todo' = todo \ {"scan"} /\ UNCHANGED <<full_pools, remembered, gc>>
      /\ gc \in {"minor", "major"} /\ status # "tore_down"
  BY DEF scanning_callback, Phase, Types
<1>2. CASE UNCHANGED <<status, mapped, pools, hd, full>> /\ ~ (status = "setup" /\ Rings # {})
  <2>1. Types'
    BY <1>1, <1>2 DEF Types
  <2>2. RingsOK' /\ Headers' /\ FullCounts'
    BY <1>1, <1>2, RingsSame, HeadersSame, FullCountsSame DEF Live
  <2>3. Phase' /\ Remembered' /\ AgesOK'
    BY <1>1, <1>2 DEF Phase, Remembered, AgesOK, Minor
  <2>4. status # "crashed" => mapped = {}
    BY <1>1, <1>2 DEF Phase, Types, Rings, RingsOK
  <2>5. Scanned'
    <3> SUFFICES ASSUME mapped = {} PROVE Scanned'
      BY <1>2, <2>4 DEF Scanned
    <3>1. \A q \in Pools : hd[q] = Empty /\ Live(q) = {}
      BY LiveIs, EmptyHasNone DEF Headers
    <3>2. \A q \in Pools : Minor(q) = {}
      <4>1. ToSet(<< >>) = {}
        BY DEF ToSet
      <4> QED BY <3>1, <4>1 DEF Minor, Empty
    <3>3. \A s \in Slots : full[s] = "free"
      BY <3>1 DEF Live, Slots
    <3>4. (\A q \in Pools : Minor(q)' = {}) /\ (\A s \in Slots : full'[s] = "free") /\ mapped' = {}
      BY <1>2, <3>2, <3>3 DEF Minor
    <3> QED BY <3>4 DEF Scanned
  <2> QED BY <2>1, <2>2, <2>3, <2>5
<1>3. CASE status = "setup" /\ Rings # {} /\ scan_roots
  <2>1. PICK X : ScannedBy(X)
    BY <1>3, ScanReads
  <2> DEFINE P == ToSet(pools)
             F == ToSet(full_pools)
  <2>2. /\ Enumerates(pools, P) /\ Enumerates(full_pools, F) /\ P \cap F = {} /\ P \cup F = mapped
        /\ X \subseteq P /\ mapped \subseteq Pools
    BY <2>1 DEF RingsOK, ScannedBy, Types
  <2>3. RingsOK' /\ ToSet(full_pools') = F
    <3> HIDE DEF P, F
    <3>1. Enumerates(pools', P \ X)
      BY <2>1, <2>2, EnumeratesWithout DEF ScannedBy
    <3>2. (P \ X) \cap F = {} /\ (P \ X) \cup F = mapped'
      BY <2>1, <2>2 DEF ScannedBy
    <3>3. Enumerates(full_pools', F)
      BY <1>1, <2>2
    <3> QED BY <3>1, <3>2, <3>3, RingsBecome
  <2>4. \A q \in X : q \in Pools /\ Live(q) = {}
    <3> TAKE q \in X
    <3>1. q \in Pools /\ is_empty_pool(q)
      BY <2>1, <2>2 DEF ScannedBy
    <3>2. Cardinality(Live(q)) = 0
      BY <3>1 DEF Headers, HeaderOK, is_empty_pool
    <3> QED BY <3>1, <3>2, LiveIs, Sizes
  <2>5. \A q \in Pools : Live(q)' = Live(q)
    <3> TAKE q \in Pools
    <3>1. \A i \in Indices : <<q, i>> \in Slots /\ <<q, i>>[1] = q
      BY DEF Slots
    <3>2. \A i \in Indices : full'[<<q, i>>] = IF q \in X THEN "free"
                                ELSE IF gc = "major" /\ full[<<q, i>>] = "old" THEN "marked"
                                ELSE full[<<q, i>>]
      BY <2>1, <3>1 DEF ScannedBy
    <3>3. CASE q \in X
      BY <2>4, <3>2, <3>3 DEF Live
    <3>4. CASE q \notin X
      BY <3>2, <3>4 DEF Live
    <3> QED BY <3>3, <3>4
  <2>6. \A q \in Pools : hd'[q] = IF q \in X THEN Empty
                                  ELSE IF gc = "minor" /\ q \in mapped THEN scan_pool_minor(hd[q])
                                  ELSE hd[q]
    BY <2>1 DEF ScannedBy
  <2>7. \A q \in Pools : /\ HeaderOK(scan_pool_minor(hd[q]), Live(q))
                         /\ scan_pool_minor(hd[q]).minor_free_list = << >>
                         /\ scan_pool_minor(hd[q]).alloc_count = hd[q].alloc_count
    <3> TAKE q \in Pools
    <3>1. PICK p : p = hd[q]
      OBVIOUS
    <3>2. HeaderOK(p, Live(q))
      BY <3>1 DEF Headers
    <3>3. /\ HeaderOK(scan_pool_minor(p), Live(q))
          /\ scan_pool_minor(p).minor_free_list = << >>
          /\ scan_pool_minor(p).alloc_count = p.alloc_count
      BY <3>2, LiveIs, SpliceOK
    <3> QED BY <3>1, <3>3
  <2>8. Headers'
    <3> SUFFICES ASSUME NEW q \in Pools
                 PROVE  HeaderOK(hd'[q], Live(q)') /\ (q \notin mapped' => hd'[q] = Empty)
      BY DEF Headers
    <3>1. HeaderOK(hd[q], Live(q)) /\ (q \notin mapped => hd[q] = Empty)
      BY DEF Headers
    <3>2. mapped' = mapped \ X
      BY <2>1 DEF ScannedBy
    <3>3. CASE q \in X
      BY <2>4, <2>5, <2>6, <3>3, EmptyHeader
    <3>4. CASE q \notin X
      BY <2>5, <2>6, <2>7, <3>1, <3>2, <3>4
    <3> QED BY <3>3, <3>4
  <2>9. \A q \in Pools : hd'[q].alloc_count = hd[q].alloc_count
    <3> TAKE q \in Pools
    <3>1. q \in X => hd[q].alloc_count = 0
      BY <2>1 DEF ScannedBy, is_empty_pool
    <3>2. Empty.alloc_count = 0
      BY DEF Empty
    <3> QED BY <2>6, <2>7, <3>1, <3>2
  <2>10. FullCounts'
    <3>1. \A q \in F : hd'[q].alloc_count > Threshold
      BY <2>2, <2>9 DEF FullCounts
    <3> QED BY <2>3, <3>1 DEF FullCounts, Threshold
  <2>11. Types'
    <3>1. hd' = [q \in Pools |-> hd'[q]] /\ full' = [s \in Slots |-> full'[s]]
      BY <2>1 DEF ScannedBy
    <3>2. \A q \in Pools : hd'[q] \in Header
      BY <2>8 DEF Headers, HeaderOK
    <3>3. \A s \in Slots : full'[s] \in Values \cup {"free"}
      BY <2>1 DEF ScannedBy, Types, Values, Ages
    <3>4. hd' \in [Pools -> Header] /\ full' \in [Slots -> Values \cup {"free"}]
      BY <3>1, <3>2, <3>3
    <3>5. mapped' \subseteq Pools /\ status' \in {status, "crashed"}
      BY <2>1, <2>2 DEF ScannedBy
    <3> QED BY <1>1, <3>4, <3>5 DEF Types
  <2>12. Phase'
    BY <1>1, <1>3, <2>1 DEF Phase, ScannedBy
  <2>13. /\ gc = "minor" => \A q \in Pools : Minor(q)' = {}
         /\ \A q \in Pools : Minor(q)' \subseteq Minor(q)
    <3>1. ToSet(<< >>) = {}
      BY DEF ToSet
    <3>2. Empty.minor_free_list = << >>
      BY DEF Empty
    <3>3. \A q \in Pools : q \notin mapped => hd[q].minor_free_list = << >>
      BY <3>2 DEF Headers
    <3> QED BY <2>6, <2>7, <3>1, <3>2, <3>3 DEF Minor
  <2>14. \A s \in Slots : full'[s] = IF s[1] \in X THEN "free"
                            ELSE IF gc = "major" /\ full[s] = "old" THEN "marked"
                            ELSE full[s]
    BY <2>1 DEF ScannedBy
  <2>15. Remembered'
    BY <1>1, <2>13, <2>14 DEF Remembered
  <2>16. AgesOK'
    BY <1>1, <2>14 DEF AgesOK
  <2>17. Scanned'
    <3>1. \A q, r \in mapped' : is_empty_pool(q)' /\ is_empty_pool(r)' => q = r
      <4> SUFFICES ASSUME NEW q \in mapped', NEW r \in mapped', hd'[q].alloc_count = 0, hd'[r].alloc_count = 0
                   PROVE  q = r
        BY DEF is_empty_pool
      <4>1. q \in Pools /\ r \in Pools /\ q \in mapped \ X /\ r \in mapped \ X
        BY <2>1, <2>2 DEF ScannedBy
      <4>2. is_empty_pool(q) /\ is_empty_pool(r)
        BY <2>9, <4>1 DEF is_empty_pool
      <4>3. q \notin F /\ r \notin F
        <5>1. \A x \in F : hd[x].alloc_count > Threshold
          BY DEF FullCounts
        <5> QED BY <4>2, <5>1, ThresholdIsLess DEF is_empty_pool
      <4>4. q \in P \ X /\ r \in P \ X
        BY <2>2, <4>1, <4>3
      <4> QED BY <2>1, <4>2, <4>4 DEF ScannedBy
    <3>2. gc = "major" => \A s \in Slots : full'[s] # "old"
      BY <2>14
    <3> QED BY <1>1, <2>13, <3>1, <3>2 DEF Scanned
  <2> QED BY <2>3, <2>8, <2>10, <2>11, <2>12, <2>15, <2>16, <2>17
<1> QED BY <1>2, <1>3 DEF scanning_callback

\* The invariant is inductive.
THEOREM RemInvariance == Spec => []RemInv
<1>1. Init => RemInv
  BY InitHolds
<1>2. RemInv /\ [Next]_vars => RemInv'
  <2> SUFFICES ASSUME RemInv, [Next]_vars PROVE RemInv'
    OBVIOUS
  <2>1. CASE rem_boxroot_setup
    BY <2>1, SetupKeeps
  <2>2. CASE \E v \in Ages : rem_boxroot_create(v)
    BY <2>2, CreateKeeps
  <2>3. CASE CreateNoMemory
    BY <2>3, NoMemoryKeeps
  <2>4. CASE \E q \in Pools, i \in Indices : rem_boxroot_delete(q, i)
    BY <2>4, DeleteKeeps
  <2>5. CASE \E s \in Slots, v \in Ages : rem_boxroot_modify(s, v)
    BY <2>5, ModifyKeeps
  <2>6. CASE rem_boxroot_teardown
    BY <2>6, TeardownKeeps
  <2>7. CASE \E kind \in {"minor", "major"} : StartGC(kind)
    BY <2>7, StartKeeps
  <2>8. CASE TraverseRememberedSet
    BY <2>8, TraverseKeeps
  <2>9. CASE scanning_callback
    BY <2>9, ScanKeeps
  <2>10. CASE EndGC
    BY <2>10, EndKeeps
  <2>11. CASE UNCHANGED vars
    BY <2>11 DEF vars, RemInv, Types, RingsOK, Headers, Live, FullCounts, Phase, Remembered,
                 Minor, Scanned, is_empty_pool, AgesOK
  <2> QED BY <2>1, <2>2, <2>3, <2>4, <2>5, <2>6, <2>7, <2>8, <2>9, <2>10, <2>11 DEF Next
<1> QED BY <1>1, <1>2, PTL DEF Spec

LEMMA InvTypeOK == ASSUME RemInv PROVE TypeOK
<1> USE DEF RemInv
<1> DEFINE P == ToSet(pools)
           F == ToSet(full_pools)
<1>1. Enumerates(pools, P) /\ Enumerates(full_pools, F) /\ P \cap F = {} /\ P \cup F = mapped
  BY DEF RingsOK
<1> HIDE DEF P, F
<1>2. pools \in Seq(P) /\ full_pools \in Seq(F) /\ P \subseteq mapped /\ F \subseteq mapped
  BY <1>1 DEF Enumerates
<1>3. pools \in Seq(mapped) /\ full_pools \in Seq(mapped)
  BY <1>2
<1>4. IsInjective(pools \o full_pools)
  <2>1. Enumerates(pools \o full_pools, P \cup F)
    BY <1>1, EnumeratesJoin
  <2> QED BY <2>1, EnumeratesToSet
<1> QED BY <1>3, <1>4 DEF Types, TypeOK

\* The two free lists of a pool and its roots share its slots, the count of the
\* pool is that of its roots, and the recorded last slot of the minor free list
\* is its last, so that the splice of a minor collection loses no slot; the two
\* rings never share a pool.
THEOREM FreeListsRight == Spec => []FreeListsCorrect
<1>1. RemInv => FreeListsCorrect
  <2> SUFFICES ASSUME RemInv PROVE FreeListsCorrect
    OBVIOUS
  <2>1. ASSUME NEW q \in mapped
        PROVE  LET p == hd[q]
                   minor == ToSet(p.minor_free_list)
                   live == {i \in Indices : full[<<q, i>>] # "free"}
               IN /\ IsInjective(p.minor_free_list) /\ minor \cap p.major_free_list = {}
                  /\ live = Indices \ (minor \cup p.major_free_list)
                  /\ p.alloc_count = Cardinality(live)
                  /\ p.minor_free_list # <<>> =>
                       p.last_minor_free_slot = Last(p.minor_free_list)
    <3> DEFINE p == hd[q]
               m == p.minor_free_list
               M == p.major_free_list
               L == Live(q)
    <3>1. HeaderOK(p, L)
      BY <2>1 DEF RemInv, Types, Headers
    <3>2. L \in SUBSET Indices /\ M \in SUBSET Indices /\ L \cap M = {}
      BY <3>1, LiveIs DEF HeaderOK, Header
    <3>3. ToSet(m) = Indices \ (L \cup M) /\ IsInjective(m)
      <4>1. Enumerates(m, Indices \ (L \cup M))
        BY <3>1 DEF HeaderOK
      <4> HIDE DEF m, L, M
      <4> QED BY <4>1, EnumeratesToSet
    <3>4. p.alloc_count = Cardinality(L) /\ (m # << >> => p.last_minor_free_slot = m[Len(m)])
      BY <3>1 DEF HeaderOK
    <3>5. L = {i \in Indices : full[<<q, i>>] # "free"}
      BY DEF Live
    <3> HIDE DEF m, L, M, p
    <3>6. ToSet(m) \cap M = {} /\ L = Indices \ (ToSet(m) \cup M)
      BY <3>2, <3>3
    <3> QED BY <3>3, <3>4, <3>5, <3>6 DEF m, M, p, Last
  <2>2. TypeOK
    BY InvTypeOK
  <2> QED BY <2>1, <2>2 DEF FreeListsCorrect
<1> QED BY <1>1, RemInvariance, PTL

\* Every root to a young block is in the remembered set, and so are the slots
\* that the minor free lists give without remembering them: the minor
\* collections, which do not look at the pools, miss no root.
THEOREM YoungRemembered == Spec => []YoungIsRemembered
<1>1. RemInv => YoungIsRemembered
  BY DEF RemInv, Types, Remembered, YoungIsRemembered, Minor
<1> QED BY <1>1, RemInvariance, PTL

\* After the scan of a collection one pool at most is empty, though the ring of
\* full pools is not looked at.
THEOREM EmptyPoolsReturn == Spec => []EmptyPoolsGoBack
<1>1. RemInv => EmptyPoolsGoBack
  <2> SUFFICES ASSUME RemInv, gc # "none", "scan" \notin todo, status = "setup"
               PROVE  Cardinality({q \in mapped : is_empty_pool(q)}) <= 1
    BY DEF EmptyPoolsGoBack
  <2> DEFINE E == {q \in mapped : is_empty_pool(q)}
  <2>1. \A q, r \in E : q = r
    BY DEF RemInv, Scanned
  <2> HIDE DEF E
  <2>2. Cardinality(E) <= 1
    <3>1. CASE E = {}
      BY <3>1, FS_EmptySet
    <3>2. CASE E # {}
      <4>1. PICK q : E = {q}
        BY <2>1, <3>2
      <4> QED BY <4>1, FS_Singleton
    <3> QED BY <3>1, <3>2
  <2> QED BY <2>2 DEF E
<1> QED BY <1>1, RemInvariance, PTL
-----------------------------------------------------------------------------
(* The table of GC roots.                                                  *)

Seen1(s, v) == [x \in Slots |-> Seen(x)]' = [[x \in Slots |-> Seen(x)] EXCEPT ![s] = v]

\* One slot changes, while the library is called.
LEMMA OneSlot ==
  ASSUME RemInv, CanCall, status' = status, NEW s \in Slots, NEW v \in {"young", "old", "free"},
         full' = [full EXCEPT ![s] = v]
  PROVE  Seen1(s, v)
<1>1. \A x \in Slots : full'[x] = IF x = s THEN v ELSE full[x]
  BY DEF RemInv, Types
<1>2. \A x \in Slots : Seen(x)' = IF x = s THEN v ELSE Seen(x)
  BY <1>1 DEF Seen, CanCall
<1> QED BY <1>2 DEF Seen1

\* No slot changes.
LEMMA NoSlot ==
  ASSUME \A x \in Slots : Seen(x)' = Seen(x), gc' = gc
  PROVE  UNCHANGED Table!tableVars
BY DEF Table!tableVars

LEMMA CreateStep ==
  ASSUME RemInv, NEW v \in Ages, rem_boxroot_create(v) PROVE Table!TableNext
<1>1. CanCall /\ gc = "none" /\ status = "setup" /\ UNCHANGED <<status, gc, todo>>
      /\ full_pools' = full_pools \o FullPrefix
  BY DEF rem_boxroot_create, CanCall
<1>2. PICK q \in Pools, i \in Indices :
        /\ Available(q)
        /\ IF v = "young" THEN AllocYoung(q, i) ELSE AllocOld(q, i)
        /\ full' = [full EXCEPT ![<<q, i>>] = v]
  BY DEF rem_boxroot_create
<1>3. ~ is_full_pool(q)
  BY <1>1, <1>2, AvailableOK DEF RemInv
<1>4. i \notin Live(q)
  BY <1>1, <1>2, <1>3, AllocOK DEF RemInv
<1>5. PICK s \in Slots : s = <<q, i>>
  BY DEF Slots
<1>6. full[s] = "free" /\ full' = [full EXCEPT ![s] = v] /\ v \in {"young", "old", "free"}
  BY <1>2, <1>4, <1>5 DEF Live, Ages
<1>7. Seen1(s, v)
  BY <1>1, <1>6, OneSlot
<1>8. Seen(s) = "free"
  BY <1>6 DEF Seen
<1>9. Table!CreateRoot(s, v)
  BY <1>1, <1>7, <1>8 DEF Seen1, Table!CreateRoot
<1> QED BY <1>9 DEF Table!TableNext, Table!Ages, Ages

LEMMA DeleteStep ==
  ASSUME RemInv, NEW q \in Pools, NEW i \in Indices, rem_boxroot_delete(q, i)
  PROVE  Table!TableNext
<1>1. PICK s \in Slots : s = <<q, i>>
  BY DEF Slots
<1>2. CanCall /\ full[s] # "free" /\ full' = [full EXCEPT ![s] = "free"] /\ gc' = gc /\ status' = status
  BY <1>1 DEF rem_boxroot_delete, runtime
<1>3. Seen1(s, "free")
  BY <1>2, OneSlot
<1>4. Seen(s) # "free"
  BY <1>2 DEF Seen, CanCall
<1>5. Table!DeleteRoot(s)
  BY <1>2, <1>3, <1>4 DEF Seen1, Table!DeleteRoot
<1> QED BY <1>5 DEF Table!TableNext

LEMMA ModifyStep ==
  ASSUME RemInv, NEW s \in Slots, NEW v \in Ages, rem_boxroot_modify(s, v)
  PROVE  Table!TableNext
<1>1. /\ CanCall /\ gc = "none" /\ full[s] # "free" /\ full' = [full EXCEPT ![s] = v]
      /\ gc' = gc /\ status' = status /\ v \in {"young", "old", "free"}
  BY DEF rem_boxroot_modify, CanCall, Ages
<1>2. Seen1(s, v)
  BY <1>1, OneSlot
<1>3. Seen(s) # "free"
  BY <1>1 DEF Seen, CanCall
<1>4. Table!ModifyRoot(s, v)
  BY <1>1, <1>2, <1>3 DEF Seen1, Table!ModifyRoot
<1> QED BY <1>4 DEF Table!TableNext, Table!Ages, Ages

LEMMA TeardownStep == ASSUME RemInv, rem_boxroot_teardown PROVE Table!TableNext
<1>1. [x \in Slots |-> Seen(x)]' = [x \in Slots |-> "free"]
  BY DEF rem_boxroot_teardown, Seen
<1> QED BY <1>1 DEF rem_boxroot_teardown, CanCall, runtime, Table!TableNext, Table!Release

LEMMA TraverseStep == ASSUME RemInv, TraverseRememberedSet PROVE Table!TableNext
<1>1. gc = "minor" /\ gc' = gc /\ status' = status /\ status # "tore_down"
  BY DEF RemInv, Types, Phase, TraverseRememberedSet
<1>2. \A s \in Slots : full'[s] = full[s] \/ (full[s] = "young" /\ full'[s] = "old")
  BY DEF TraverseRememberedSet
<1>3. \A s \in Slots : Seen(s)' = Seen(s) \/ (Seen(s) = "young" /\ Seen(s)' = "old")
  BY <1>1, <1>2 DEF Seen
<1>4. \A s \in Slots : Seen(s)' \in {"young", "old", "free"}
  <2>1. \A s \in Slots : Seen(s) \in {"young", "old", "free"}
    BY DEF RemInv, Types, AgesOK, Seen, Values, Ages
  <2> QED BY <1>3, <2>1
<1>5. Table!Promote
  BY <1>1, <1>3, <1>4 DEF Table!Promote, Table!Ages
<1> QED BY <1>5 DEF Table!TableNext

LEMMA ScanStep == ASSUME RemInv, scanning_callback PROVE UNCHANGED Table!tableVars
<1>1. gc' = gc /\ status # "tore_down"
  BY DEF scanning_callback, RemInv, Phase
<1>2. CASE UNCHANGED <<status, full>>
  BY <1>1, <1>2, NoSlot DEF Seen
<1>3. CASE scan_roots
  <2>1. PICK X : ScannedBy(X)
    BY <1>3, ScanReads
  <2>2. \A s \in Slots : s[1] \in X => full[s] = "free"
    <3> SUFFICES ASSUME NEW s \in Slots, s[1] \in X PROVE full[s] = "free"
      OBVIOUS
    <3>1. s = <<s[1], s[2]>> /\ s[1] \in Pools /\ s[2] \in Indices
      BY DEF Slots
    <3>2. Cardinality(Live(s[1])) = 0
      BY <2>1, <3>1 DEF RemInv, Headers, HeaderOK, ScannedBy, is_empty_pool
    <3>3. Live(s[1]) = {}
      BY <3>2, LiveIs, Sizes
    <3> QED BY <3>1, <3>3 DEF Live
  <2>3. status' # "tore_down"
    BY <1>1, <2>1 DEF ScannedBy
  <2>4. \A s \in Slots : Seen(s)' = Seen(s)
    BY <1>1, <2>1, <2>2, <2>3 DEF ScannedBy, Seen
  <2> QED BY <1>1, <2>4, NoSlot
<1> QED BY <1>2, <1>3 DEF scanning_callback

LEMMA EndStep == ASSUME RemInv, EndGC PROVE Table!TableNext
<1>1. \A s \in Slots : full[s] \in {"young", "old", "marked", "free"}
  BY DEF RemInv, Types, AgesOK, Values, Ages
<1>2. /\ \A s \in Slots : full[s] # "young"
      /\ gc = "major" => \A s \in Slots : full[s] # "old"
      /\ gc # "none" /\ gc \in {"minor", "major"}
  BY DEF RemInv, AgesOK, Scanned, Types, EndGC
<1>3. \A s \in Slots : full'[s] = IF full[s] = "marked" THEN "old" ELSE full[s]
  BY <1>1, <1>2 DEF EndGC
<1>4. \A s \in Slots : Seen(s)' = Seen(s)
  BY <1>3 DEF Seen, EndGC
<1>5. \A s \in Slots : Seen(s) # "young"
  BY <1>2 DEF Seen
<1> QED BY <1>2, <1>4, <1>5 DEF EndGC, Table!TableNext, Table!EndCollection

\* Every step of the prototype is a step of the table of GC roots, or changes
\* nothing that its user sees: without scanning young roots, no value of a root
\* is reclaimed and a minor collection promotes every young one.
THEOREM RemImplementsTable == Spec => ImplementsRootTable
<1>1. Init => Table!TableInit
  BY DEF Init, Table!TableInit, Seen
<1>2. RemInv /\ [Next]_vars => [Table!TableNext]_(Table!tableVars)
  <2> SUFFICES ASSUME RemInv, [Next]_vars
               PROVE  [Table!TableNext]_(Table!tableVars)
    OBVIOUS
  <2>1. CASE rem_boxroot_setup \/ CreateNoMemory \/ UNCHANGED vars
    BY <2>1, NoSlot DEF rem_boxroot_setup, CreateNoMemory, vars, runtime, Seen
  <2>2. CASE \E v \in Ages : rem_boxroot_create(v)
    BY <2>2, CreateStep
  <2>3. CASE \E q \in Pools, i \in Indices : rem_boxroot_delete(q, i)
    BY <2>3, DeleteStep
  <2>4. CASE \E s \in Slots, v \in Ages : rem_boxroot_modify(s, v)
    BY <2>4, ModifyStep
  <2>5. CASE rem_boxroot_teardown
    BY <2>5, TeardownStep
  <2>6. CASE \E kind \in {"minor", "major"} : StartGC(kind)
    <3>1. \A s \in Slots : Seen(s)' = Seen(s)
      BY <2>6 DEF StartGC, Seen
    <3> QED BY <2>6, <3>1 DEF StartGC, Table!TableNext, Table!BeginCollection
  <2>7. CASE TraverseRememberedSet
    BY <2>7, TraverseStep
  <2>8. CASE scanning_callback
    BY <2>8, ScanStep
  <2>9. CASE EndGC
    BY <2>9, EndStep
  <2> QED BY <2>1, <2>2, <2>3, <2>4, <2>5, <2>6, <2>7, <2>8, <2>9 DEF Next
<1> QED BY <1>1, <1>2, RemInvariance, PTL DEF Spec, ImplementsRootTable, Table!TableSpec
=============================================================================
