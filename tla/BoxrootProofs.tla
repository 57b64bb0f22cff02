---------------------------- MODULE BoxrootProofs ----------------------------
(* Theorems about Boxroot, for every number of domains and pools and every   *)
(* size of pool.  The first part is about the operations on one pool: what   *)
(* each does to the ring, the owner and the cells of the pool, and that it   *)
(* keeps the type of its fields and the agreement of its lists, cells and    *)
(* counts (PoolOK).  In the second part IInv is inductive: each action has a *)
(* lemma saying that it preserves IInv.  The third part shows what Boxroot   *)
(* implements: the table of roots that its users see (RootTable) and the     *)
(* life of its pools (PoolLife), and that a pool with roots grows old only   *)
(* in a minor collection.  Its steps fall into a few kinds, each described   *)
(* by what it does to the pools; each kind is then shown to be a step of the *)
(* abstract specification or to be invisible to it.                          *)
EXTENDS Boxroot, FiniteSetTheorems, TLAPS

-----------------------------------------------------------------------------
(* Cells are finitely many.                                                *)

LEMMA SlotsFinite == /\ IsFiniteSet(Slots)
                     /\ Cardinality(Slots) = POOL_CAPACITY
                     /\ \A S \in SUBSET Slots : IsFiniteSet(S) /\ Cardinality(S) \in Nat
<1>1. IsFiniteSet(Slots) /\ Cardinality(Slots) = POOL_CAPACITY
  <2>1. 1 \in Int /\ POOL_CAPACITY \in Int /\ ~ (1 > POOL_CAPACITY)
    BY SizeAssumption
  <2>2. POOL_CAPACITY - 1 + 1 = POOL_CAPACITY
    BY <2>1
  <2> QED BY <2>1, <2>2, FS_Interval DEF Slots
<1>2. \A S \in SUBSET Slots : IsFiniteSet(S) /\ Cardinality(S) \in Nat
  BY <1>1, FS_Subset, FS_CardinalityType
<1> QED BY <1>1, <1>2

\* The fields of a pool, one by one.
LEMMA Fields ==
  ASSUME NEW P \in PoolType
  PROVE  /\ P.ring \in RingNames
         /\ P.domain_id \in Domains \cup {NoDomain}
         /\ P.alloc_count \in Int
         /\ P.free_list \in SUBSET Slots
         /\ P.delayed_fl \in SUBSET Slots
         /\ P.delayed_count \in Int
         /\ P.cells \in [Slots -> Contents]
         /\ Live(P) \in SUBSET Slots
         /\ Bias(P) \in Int
BY DEF PoolType, Live, Bias

\* A pool whose lists, cells and counts are those of another one.
LEMMA PoolOKFrame ==
  ASSUME NEW P \in PoolType, NEW Q \in PoolType, PoolOK(P),
         Q.free_list = P.free_list, Q.delayed_fl = P.delayed_fl,
         Live(Q) = Live(P), Q.delayed_count = P.delayed_count,
         Q.alloc_count - Bias(Q) = P.alloc_count - Bias(P)
  PROVE  PoolOK(Q)
<1>1. /\ Cardinality(P.free_list) \in Nat /\ POOL_CAPACITY \in Nat
      /\ P.alloc_count \in Int /\ Q.alloc_count \in Int
      /\ Bias(P) \in Int /\ Bias(Q) \in Int
  BY Fields, SlotsFinite, SizeAssumption
<1> QED BY <1>1 DEF PoolOK

\* The roots of a pool that is not current are those its counts tell.
LEMMA AnticipatedIsLive ==
  ASSUME NEW P \in PoolType, PoolOK(P), P.ring # "current"
  PROVE  Cardinality(Live(P)) = anticipated_alloc_count(P)
<1> DEFINE F == P.free_list
           D == P.delayed_fl
<1>1. /\ F \in SUBSET Slots /\ D \in SUBSET Slots /\ Live(P) \in SUBSET Slots
      /\ P.alloc_count \in Int /\ P.delayed_count \in Int
  BY Fields
<1>2. /\ IsFiniteSet(F) /\ IsFiniteSet(D) /\ IsFiniteSet(Live(P))
      /\ Cardinality(F) \in Nat /\ Cardinality(D) \in Nat
      /\ Cardinality(Live(P)) \in Nat
  BY <1>1, SlotsFinite
<1>3. Cardinality(F \cup D) = Cardinality(F) + Cardinality(D) - Cardinality({})
  BY <1>2, FS_Union DEF PoolOK
<1>4. Cardinality({}) = 0
  BY FS_EmptySet
<1>5. Cardinality(Slots \ Live(P)) = POOL_CAPACITY - Cardinality(Live(P))
  <2>1. Slots \cap Live(P) = Live(P)
    BY <1>1
  <2> QED BY <2>1, SlotsFinite, FS_Difference
<1>6. Cardinality(F) + Cardinality(D) = POOL_CAPACITY - Cardinality(Live(P))
  <2>1. F \cup D = Slots \ Live(P)
    BY DEF PoolOK
  <2>2. Cardinality(F \cup D) = Cardinality(F) + Cardinality(D)
    BY <1>2, <1>3, <1>4
  <2> QED BY <2>1, <2>2, <1>5
<1>7. /\ P.alloc_count = POOL_CAPACITY - Cardinality(F)
      /\ P.delayed_count = - Cardinality(D)
  <2>1. POOL_CAPACITY - Cardinality(F) + 0 = POOL_CAPACITY - Cardinality(F)
    BY <1>2, SizeAssumption
  <2> QED BY <2>1 DEF PoolOK, Bias
<1> QED BY <1>1, <1>2, <1>6, <1>7, SizeAssumption DEF anticipated_alloc_count

\* alloc_count = 0 means that no cell of the pool is in use.
LEMMA ZeroIsEmpty ==
  ASSUME NEW P \in PoolType, PoolOK(P), P.ring # "current", P.alloc_count = 0
  PROVE  Live(P) = {}
<1>1. /\ P.delayed_fl \in SUBSET Slots /\ Live(P) \in SUBSET Slots
      /\ P.delayed_count \in Int
  BY Fields
<1>2. /\ Cardinality(P.delayed_fl) \in Nat /\ Cardinality(Live(P)) \in Nat
      /\ IsFiniteSet(Live(P))
  BY <1>1, SlotsFinite
<1>3. Cardinality(Live(P)) = 0 + P.delayed_count
  BY AnticipatedIsLive DEF anticipated_alloc_count
<1>4. Cardinality(Live(P)) = 0
  BY <1>1, <1>2, <1>3 DEF PoolOK
<1> QED BY <1>2, <1>4, FS_EmptySet

-----------------------------------------------------------------------------
(* Fresh and freed pools.                                                  *)

LEMMA GetEmptyPool ==
  /\ get_empty_pool \in PoolType
  /\ PoolOK(get_empty_pool)
  /\ Live(get_empty_pool) = {}
  /\ get_empty_pool.ring = "unmapped"
<1>1. get_empty_pool \in PoolType
  BY SizeAssumption DEF get_empty_pool, PoolType, RingNames, Contents
<1>2. /\ get_empty_pool.ring = "unmapped"
      /\ get_empty_pool.free_list = Slots
      /\ get_empty_pool.delayed_fl = {}
      /\ get_empty_pool.delayed_count = 0
      /\ get_empty_pool.alloc_count = 0
      /\ get_empty_pool.cells = [s \in Slots |-> "free"]
  BY DEF get_empty_pool
<1>3. Live(get_empty_pool) = {}
  BY <1>2 DEF Live
<1>4. Cardinality({}) = 0
  BY FS_EmptySet
<1>5. Cardinality(Slots) = POOL_CAPACITY /\ POOL_CAPACITY \in Nat
  BY SlotsFinite, SizeAssumption
<1>6. PoolOK(get_empty_pool)
  BY <1>2, <1>3, <1>4, <1>5 DEF PoolOK, Bias
<1> QED BY <1>1, <1>2, <1>3, <1>6

LEMMA FreePool ==
  ASSUME NEW P \in PoolType
  PROVE  /\ bxr_free_pool(P) \in PoolType
         /\ bxr_free_pool(P).ring = "unmapped"
         /\ bxr_free_pool(P).cells = P.cells
<1>1. P.cells \in [Slots -> Contents]
  BY Fields
<1>2. /\ get_empty_pool \in PoolType
      /\ get_empty_pool.ring = "unmapped"
  BY GetEmptyPool
<1>3. [get_empty_pool EXCEPT !.cells = P.cells] \in PoolType
  BY <1>1, <1>2 DEF PoolType
<1>4. /\ [get_empty_pool EXCEPT !.cells = P.cells].ring = "unmapped"
      /\ [get_empty_pool EXCEPT !.cells = P.cells].cells = P.cells
  BY DEF get_empty_pool
<1> QED BY <1>3, <1>4 DEF bxr_free_pool

-----------------------------------------------------------------------------
(* Allocation and deallocation of one cell.                                *)

LEMMA Allocate ==
  ASSUME NEW P \in PoolType, PoolOK(P), NEW s \in P.free_list,
         NEW v \in {"young", "old"}
  PROVE  /\ allocate(P, s, v) \in PoolType
         /\ PoolOK(allocate(P, s, v))
         /\ allocate(P, s, v).ring = P.ring
         /\ allocate(P, s, v).domain_id = P.domain_id
         /\ allocate(P, s, v).cells = [P.cells EXCEPT ![s] = v]
         /\ s \in Slots \ Live(P)
         /\ Live(allocate(P, s, v)) = Live(P) \cup {s}
<1> DEFINE Q == allocate(P, s, v)
<1>1. /\ P.free_list \in SUBSET Slots /\ P.delayed_fl \in SUBSET Slots
      /\ P.alloc_count \in Int /\ P.delayed_count \in Int
      /\ P.cells \in [Slots -> Contents] /\ Live(P) \in SUBSET Slots
      /\ Bias(P) \in Int
  BY Fields
<1>2. /\ P.alloc_count + 1 \in Int
      /\ P.free_list \ {s} \in SUBSET Slots
      /\ s \in Slots
      /\ [P.cells EXCEPT ![s] = v] \in [Slots -> Contents]
  BY <1>1 DEF Contents
<1>3. Q \in PoolType
  BY <1>2 DEF allocate, PoolType
<1>4. /\ Q.ring = P.ring /\ Q.domain_id = P.domain_id
      /\ Q.free_list = P.free_list \ {s} /\ Q.delayed_fl = P.delayed_fl
      /\ Q.alloc_count = P.alloc_count + 1
      /\ Q.delayed_count = P.delayed_count
      /\ Q.cells = [P.cells EXCEPT ![s] = v]
  BY DEF allocate, PoolType
<1>5. s \in Slots \ Live(P) /\ s \notin P.delayed_fl
  BY <1>2 DEF PoolOK
<1>6. Live(Q) = Live(P) \cup {s}
  BY <1>1, <1>2, <1>4 DEF Live
<1>7. Cardinality(P.free_list \ {s}) = Cardinality(P.free_list) - 1
  BY <1>1, SlotsFinite, FS_RemoveElement
<1>8. Bias(Q) = Bias(P)
  BY <1>4 DEF Bias
<1>9. Q.alloc_count = POOL_CAPACITY - Cardinality(Q.free_list) + Bias(Q)
  <2>1. P.alloc_count = POOL_CAPACITY - Cardinality(P.free_list) + Bias(P)
    BY DEF PoolOK
  <2>2. Cardinality(P.free_list) \in Nat /\ POOL_CAPACITY \in Nat
    BY <1>1, SlotsFinite, SizeAssumption
  <2> QED BY <1>1, <1>4, <1>7, <1>8, <2>1, <2>2
<1>10. /\ Q.free_list \cap Q.delayed_fl = {}
       /\ Q.free_list \cup Q.delayed_fl = Slots \ Live(Q)
       /\ Q.delayed_count = - Cardinality(Q.delayed_fl)
  BY <1>4, <1>5, <1>6 DEF PoolOK
<1>11. PoolOK(Q)
  BY <1>9, <1>10 DEF PoolOK
<1> QED BY <1>3, <1>4, <1>5, <1>6, <1>11

LEMMA FreeSlot ==
  ASSUME NEW P \in PoolType, PoolOK(P), NEW s \in Live(P)
  PROVE  /\ bxr_free_slot(P, s) \in PoolType
         /\ PoolOK(bxr_free_slot(P, s))
         /\ bxr_free_slot(P, s).ring = P.ring
         /\ bxr_free_slot(P, s).domain_id = P.domain_id
         /\ bxr_free_slot(P, s).cells = [P.cells EXCEPT ![s] = "free"]
         /\ Live(bxr_free_slot(P, s)) = Live(P) \ {s}
<1> DEFINE Q == bxr_free_slot(P, s)
<1>1. /\ P.free_list \in SUBSET Slots /\ P.delayed_fl \in SUBSET Slots
      /\ P.alloc_count \in Int /\ P.delayed_count \in Int
      /\ P.cells \in [Slots -> Contents] /\ Live(P) \in SUBSET Slots
      /\ Bias(P) \in Int
  BY Fields
<1>2. /\ P.alloc_count - 1 \in Int
      /\ P.free_list \cup {s} \in SUBSET Slots
      /\ s \in Slots
      /\ [P.cells EXCEPT ![s] = "free"] \in [Slots -> Contents]
  BY <1>1 DEF Contents
<1>3. Q \in PoolType
  BY <1>2 DEF bxr_free_slot, PoolType
<1>4. /\ Q.ring = P.ring /\ Q.domain_id = P.domain_id
      /\ Q.free_list = P.free_list \cup {s} /\ Q.delayed_fl = P.delayed_fl
      /\ Q.alloc_count = P.alloc_count - 1
      /\ Q.delayed_count = P.delayed_count
      /\ Q.cells = [P.cells EXCEPT ![s] = "free"]
  BY DEF bxr_free_slot, PoolType
<1>5. s \notin P.free_list /\ s \notin P.delayed_fl
  BY <1>2 DEF PoolOK
<1>6. Live(Q) = Live(P) \ {s}
  BY <1>1, <1>2, <1>4 DEF Live
<1>7. Cardinality(P.free_list \cup {s}) = Cardinality(P.free_list) + 1
  BY <1>1, <1>5, SlotsFinite, FS_AddElement
<1>8. Bias(Q) = Bias(P)
  BY <1>4 DEF Bias
<1>9. Q.alloc_count = POOL_CAPACITY - Cardinality(Q.free_list) + Bias(Q)
  <2>1. P.alloc_count = POOL_CAPACITY - Cardinality(P.free_list) + Bias(P)
    BY DEF PoolOK
  <2>2. Cardinality(P.free_list) \in Nat /\ POOL_CAPACITY \in Nat
    BY <1>1, SlotsFinite, SizeAssumption
  <2> QED BY <1>1, <1>4, <1>7, <1>8, <2>1, <2>2
<1>10. /\ Q.free_list \cap Q.delayed_fl = {}
       /\ Q.free_list \cup Q.delayed_fl = Slots \ Live(Q)
       /\ Q.delayed_count = - Cardinality(Q.delayed_fl)
  BY <1>1, <1>4, <1>5, <1>6 DEF PoolOK
<1>11. PoolOK(Q)
  BY <1>9, <1>10 DEF PoolOK
<1> QED BY <1>3, <1>4, <1>6, <1>11

LEMMA FreeSlotAtomic ==
  ASSUME NEW P \in PoolType, PoolOK(P), NEW s \in Live(P)
  PROVE  /\ free_slot_atomic(P, s) \in PoolType
         /\ PoolOK(free_slot_atomic(P, s))
         /\ free_slot_atomic(P, s).ring = P.ring
         /\ free_slot_atomic(P, s).domain_id = P.domain_id
         /\ free_slot_atomic(P, s).cells = [P.cells EXCEPT ![s] = "free"]
         /\ Live(free_slot_atomic(P, s)) = Live(P) \ {s}
<1> DEFINE Q == free_slot_atomic(P, s)
<1>1. /\ P.free_list \in SUBSET Slots /\ P.delayed_fl \in SUBSET Slots
      /\ P.alloc_count \in Int /\ P.delayed_count \in Int
      /\ P.cells \in [Slots -> Contents] /\ Live(P) \in SUBSET Slots
  BY Fields
<1>2. /\ P.delayed_count - 1 \in Int
      /\ P.delayed_fl \cup {s} \in SUBSET Slots
      /\ s \in Slots
      /\ [P.cells EXCEPT ![s] = "free"] \in [Slots -> Contents]
  BY <1>1 DEF Contents
<1>3. Q \in PoolType
  BY <1>2 DEF free_slot_atomic, PoolType
<1>4. /\ Q.ring = P.ring /\ Q.domain_id = P.domain_id
      /\ Q.free_list = P.free_list /\ Q.delayed_fl = P.delayed_fl \cup {s}
      /\ Q.alloc_count = P.alloc_count
      /\ Q.delayed_count = P.delayed_count - 1
      /\ Q.cells = [P.cells EXCEPT ![s] = "free"]
  BY DEF free_slot_atomic, PoolType
<1>5. s \notin P.free_list /\ s \notin P.delayed_fl
  BY <1>2 DEF PoolOK
<1>6. Live(Q) = Live(P) \ {s}
  BY <1>1, <1>2, <1>4 DEF Live
<1>7. Cardinality(P.delayed_fl \cup {s}) = Cardinality(P.delayed_fl) + 1
  BY <1>1, <1>5, SlotsFinite, FS_AddElement
<1>8. Q.delayed_count = - Cardinality(Q.delayed_fl)
  <2>1. P.delayed_count = - Cardinality(P.delayed_fl)
    BY DEF PoolOK
  <2>2. Cardinality(P.delayed_fl) \in Nat
    BY <1>1, SlotsFinite
  <2> QED BY <1>4, <1>7, <2>1, <2>2
<1>9. Q.alloc_count = POOL_CAPACITY - Cardinality(Q.free_list) + Bias(Q)
  BY <1>4 DEF PoolOK, Bias
<1>10. /\ Q.free_list \cap Q.delayed_fl = {}
       /\ Q.free_list \cup Q.delayed_fl = Slots \ Live(Q)
  BY <1>1, <1>4, <1>5, <1>6 DEF PoolOK
<1>11. PoolOK(Q)
  BY <1>8, <1>9, <1>10 DEF PoolOK
<1> QED BY <1>3, <1>4, <1>6, <1>11

\* Writing a value in a cell in use.
LEMMA SetSlot ==
  ASSUME NEW P \in PoolType, NEW s \in Live(P), NEW v \in {"young", "old"}
  PROVE  /\ set_slot(P, s, v) \in PoolType
         /\ PoolOK(P) => PoolOK(set_slot(P, s, v))
         /\ set_slot(P, s, v).ring = P.ring
         /\ set_slot(P, s, v).domain_id = P.domain_id
         /\ set_slot(P, s, v).cells = [P.cells EXCEPT ![s] = v]
         /\ Live(set_slot(P, s, v)) = Live(P)
<1> DEFINE Q == set_slot(P, s, v)
<1>1. P.cells \in [Slots -> Contents] /\ s \in Slots
  BY Fields
<1>2. [P.cells EXCEPT ![s] = v] \in [Slots -> Contents]
  BY <1>1 DEF Contents
<1>3. Q \in PoolType
  BY <1>2 DEF set_slot, PoolType
<1>4. /\ Q.ring = P.ring /\ Q.domain_id = P.domain_id
      /\ Q.free_list = P.free_list /\ Q.delayed_fl = P.delayed_fl
      /\ Q.alloc_count = P.alloc_count
      /\ Q.delayed_count = P.delayed_count
      /\ Q.cells = [P.cells EXCEPT ![s] = v]
  BY DEF set_slot, PoolType
<1>5. Live(Q) = Live(P)
  BY <1>1, <1>4 DEF Live
<1>6. PoolOK(P) => PoolOK(Q)
  BY <1>4, <1>5 DEF PoolOK, Bias
<1> QED BY <1>3, <1>4, <1>5, <1>6

-----------------------------------------------------------------------------
(* Flushing, and moving a pool to another ring.                            *)

LEMMA GcPool ==
  ASSUME NEW P \in PoolType, PoolOK(P)
  PROVE  /\ gc_pool(P) \in PoolType
         /\ PoolOK(gc_pool(P))
         /\ gc_pool(P).ring = P.ring
         /\ gc_pool(P).domain_id = P.domain_id
         /\ gc_pool(P).cells = P.cells
         /\ Live(gc_pool(P)) = Live(P)
<1> DEFINE Q == gc_pool(P)
<1>1. CASE P.delayed_count = 0
  BY <1>1 DEF gc_pool
<1>2. CASE P.delayed_count # 0
  <2>1. /\ P.free_list \in SUBSET Slots /\ P.delayed_fl \in SUBSET Slots
        /\ P.alloc_count \in Int /\ P.delayed_count \in Int
        /\ Bias(P) \in Int
    BY Fields
  <2>2. /\ P.alloc_count + P.delayed_count \in Int
        /\ P.free_list \cup P.delayed_fl \in SUBSET Slots
        /\ {} \in SUBSET Slots /\ 0 \in Int
    BY <2>1
  <2>3. Q = [P EXCEPT !.free_list = P.free_list \cup P.delayed_fl,
                      !.delayed_fl = {},
                      !.alloc_count = P.alloc_count + P.delayed_count,
                      !.delayed_count = 0]
    BY <1>2 DEF gc_pool
  <2>4. Q \in PoolType
    BY <2>2, <2>3 DEF PoolType
  <2>5. /\ Q.ring = P.ring /\ Q.domain_id = P.domain_id /\ Q.cells = P.cells
        /\ Q.free_list = P.free_list \cup P.delayed_fl
        /\ Q.delayed_fl = {} /\ Q.delayed_count = 0
        /\ Q.alloc_count = P.alloc_count + P.delayed_count
    BY <2>3 DEF PoolType
  <2>6. Live(Q) = Live(P) /\ Bias(Q) = Bias(P)
    BY <2>5 DEF Live, Bias
  <2>7. /\ Cardinality(P.free_list) \in Nat /\ IsFiniteSet(P.free_list)
        /\ Cardinality(P.delayed_fl) \in Nat /\ IsFiniteSet(P.delayed_fl)
    BY <2>1, SlotsFinite
  <2>8. Cardinality({}) = 0
    BY FS_EmptySet
  <2>9. Cardinality(Q.free_list)
          = Cardinality(P.free_list) + Cardinality(P.delayed_fl)
    <3>1. Cardinality(Q.free_list)
            = Cardinality(P.free_list) + Cardinality(P.delayed_fl)
              - Cardinality(P.free_list \cap P.delayed_fl)
      BY <2>5, <2>7, FS_Union
    <3>2. P.free_list \cap P.delayed_fl = {}
      BY DEF PoolOK
    <3> QED BY <2>7, <2>8, <3>1, <3>2
  <2>10. Q.alloc_count = POOL_CAPACITY - Cardinality(Q.free_list) + Bias(Q)
    <3>1. /\ P.alloc_count = POOL_CAPACITY - Cardinality(P.free_list) + Bias(P)
          /\ P.delayed_count = - Cardinality(P.delayed_fl)
      BY DEF PoolOK
    <3>2. POOL_CAPACITY \in Nat
      BY SizeAssumption
    <3> QED BY <2>1, <2>5, <2>6, <2>7, <2>9, <3>1, <3>2
  <2>11. /\ Q.free_list \cap Q.delayed_fl = {}
         /\ Q.free_list \cup Q.delayed_fl = Slots \ Live(Q)
         /\ Q.delayed_count = - Cardinality(Q.delayed_fl)
    BY <2>5, <2>6, <2>8 DEF PoolOK
  <2>12. PoolOK(Q)
    BY <2>10, <2>11 DEF PoolOK
  <2> QED BY <2>4, <2>5, <2>6, <2>12
<1> QED BY <1>1, <1>2

\* A pool that is not current changes ring or owner.
LEMMA Reclassify ==
  ASSUME NEW P \in PoolType, P.ring # "current", NEW d \in Domains \cup {NoDomain},
         NEW cl \in {"YOUNG", "OLD", "UNTRACKED"}
  PROVE  LET Q == reclassify_pool(P, d, cl)
         IN /\ Q \in PoolType
            /\ PoolOK(P) => PoolOK(Q)
            /\ cl = "YOUNG" => Q.ring = "young"
            /\ cl = "OLD" => Q.ring = "old"
            /\ cl = "UNTRACKED" => Q.ring = "free"
            /\ Q.domain_id = d
            /\ Q.cells = P.cells
            /\ Live(Q) = Live(P)
<1> DEFINE Q == reclassify_pool(P, d, cl)
           R == CASE cl = "YOUNG" -> "young"
                  [] cl = "OLD" -> "old"
                  [] cl = "UNTRACKED" -> "free"
<1>1. /\ R \in RingNames \ {"current"}
      /\ cl = "YOUNG" => R = "young"
      /\ cl = "OLD" => R = "old"
      /\ cl = "UNTRACKED" => R = "free"
  BY DEF RingNames
<1>2. Q = [P EXCEPT !.domain_id = d, !.ring = R]
  BY DEF reclassify_pool
<1> HIDE DEF R
<1>3. Q \in PoolType
  BY <1>1, <1>2 DEF PoolType
<1>4. /\ Q.ring = R /\ Q.domain_id = d
      /\ Q.free_list = P.free_list /\ Q.delayed_fl = P.delayed_fl
      /\ Q.alloc_count = P.alloc_count
      /\ Q.delayed_count = P.delayed_count
      /\ Q.cells = P.cells
  BY <1>2 DEF PoolType
<1>5. Live(Q) = Live(P)
  BY <1>4 DEF Live
<1>6. Bias(Q) = 0 /\ Bias(P) = 0
  BY <1>1, <1>4 DEF Bias
<1>7. PoolOK(P) => PoolOK(Q)
  BY <1>4, <1>5, <1>6 DEF PoolOK
<1> QED BY <1>1, <1>3, <1>4, <1>5, <1>7

LEMMA SetCurrent ==
  ASSUME NEW P \in PoolType, PoolOK(P), P.ring # "current", NEW d \in Domains
  PROVE  LET Q == set_current_pool(P, d)
         IN /\ Q \in PoolType
            /\ PoolOK(Q)
            /\ Q.ring = "current"
            /\ Q.domain_id = d
            /\ Q.cells = P.cells
            /\ Q.free_list = P.free_list
            /\ Live(Q) = Live(P)
<1> DEFINE Q == set_current_pool(P, d)
<1>1. /\ P.alloc_count \in Int /\ P.free_list \in SUBSET Slots
      /\ P.alloc_count + 1 \in Int /\ "current" \in RingNames
  BY Fields DEF RingNames
<1>2. Q \in PoolType
  BY <1>1 DEF set_current_pool, PoolType
<1>3. /\ Q.ring = "current" /\ Q.domain_id = d
      /\ Q.free_list = P.free_list /\ Q.delayed_fl = P.delayed_fl
      /\ Q.alloc_count = P.alloc_count + 1
      /\ Q.delayed_count = P.delayed_count
      /\ Q.cells = P.cells
  BY DEF set_current_pool, PoolType
<1>4. Live(Q) = Live(P)
  BY <1>3 DEF Live
<1>5. Bias(Q) = 1 /\ Bias(P) = 0
  BY <1>3 DEF Bias
<1>6. Q.alloc_count - Bias(Q) = P.alloc_count - Bias(P)
  BY <1>1, <1>3, <1>5
<1>7. PoolOK(Q)
  BY <1>2, <1>3, <1>4, <1>6, PoolOKFrame
<1> QED BY <1>2, <1>3, <1>4, <1>7

LEMMA Retire ==
  ASSUME NEW P \in PoolType, PoolOK(P), NEW d \in Domains
  PROVE  LET Q == move_current_to_young(P, d)
         IN /\ Q \in PoolType
            /\ PoolOK(Q)
            /\ Q.domain_id = P.domain_id
            /\ Q.cells = P.cells
            /\ Live(Q) = Live(P)
            /\ IF P.ring = "current" /\ P.domain_id = d
               THEN Q.ring = "young" ELSE Q = P
<1>1. CASE ~ (P.ring = "current" /\ P.domain_id = d)
  BY <1>1 DEF move_current_to_young
<1>2. CASE P.ring = "current" /\ P.domain_id = d
  <2> DEFINE Q == move_current_to_young(P, d)
  <2>1. /\ P.alloc_count \in Int /\ P.alloc_count - 1 \in Int
        /\ "young" \in RingNames
    BY Fields DEF RingNames
  <2>2. Q = [[P EXCEPT !.alloc_count = P.alloc_count - 1]
               EXCEPT !.domain_id = d, !.ring = "young"]
    BY <1>2 DEF move_current_to_young, reclassify_pool
  <2>3. Q \in PoolType
    BY <2>1, <2>2 DEF PoolType
  <2>4. /\ Q.ring = "young" /\ Q.domain_id = d
        /\ Q.free_list = P.free_list /\ Q.delayed_fl = P.delayed_fl
        /\ Q.alloc_count = P.alloc_count - 1
        /\ Q.delayed_count = P.delayed_count
        /\ Q.cells = P.cells
    BY <2>2 DEF PoolType
  <2>5. Live(Q) = Live(P)
    BY <2>4 DEF Live
  <2>6. Q.alloc_count - Bias(Q) = P.alloc_count - Bias(P)
    BY <1>2, <2>1, <2>4 DEF Bias
  <2>7. PoolOK(Q)
    BY <2>3, <2>4, <2>5, <2>6, PoolOKFrame
  <2> QED BY <1>2, <2>3, <2>4, <2>5, <2>7
<1> QED BY <1>1, <1>2

-----------------------------------------------------------------------------
(* The invariant of one pool, and the operations made of the ones above.   *)

PoolInv(P) ==
  /\ P.ring # "unmapped" => PoolOK(P)
  /\ Class(P) = "OLD" => \A s \in Slots : P.cells[s] # "young"
  /\ P.ring = "free" => Live(P) = {}

LEMMA ClassRing ==
  ASSUME NEW P \in PoolType
  PROVE  /\ Class(P) \in {"YOUNG", "OLD", "UNTRACKED"}
         /\ Class(P) = "YOUNG" <=> P.ring \in {"current", "young", "orphan_young"}
         /\ Class(P) = "OLD" <=> P.ring \in {"old", "orphan_old"}
         /\ Class(P) = "UNTRACKED" <=> P.ring \in {"free", "unmapped"}
BY Fields DEF Class, RingNames, YoungRings, OldRings

\* A deletion of one cell keeps the invariant of the pool.
LEMMA FreeSlotInv ==
  ASSUME NEW P \in PoolType, PoolInv(P), P.ring # "unmapped", NEW s \in Live(P)
  PROVE  PoolInv(bxr_free_slot(P, s)) /\ PoolInv(free_slot_atomic(P, s))
<1>1. PoolOK(P) /\ P.cells \in [Slots -> Contents] /\ s \in Slots /\ P.ring # "free"
  BY Fields DEF PoolInv
<1>2. PoolInv(bxr_free_slot(P, s))
  BY <1>1, FreeSlot DEF PoolInv, Class
<1>3. PoolInv(free_slot_atomic(P, s))
  BY <1>1, FreeSlotAtomic DEF PoolInv, Class
<1> QED BY <1>2, <1>3

LEMMA Demote ==
  ASSUME NEW P \in PoolType, PoolInv(P), P.ring # "unmapped"
  PROVE  LET Q == try_demote_pool(P)
         IN /\ Q \in PoolType
            /\ PoolInv(Q)
            /\ Q.domain_id = P.domain_id
            /\ Q.cells = P.cells
            /\ Live(Q) = Live(P)
            /\ \/ Q = P
               \/ Q.ring \in {"young", "old", "free"} /\ P.ring # "current"
            /\ Q.ring = "free" \/ Class(Q) = Class(P)
<1> DEFINE Q == try_demote_pool(P)
<1>1. CASE P.ring = "current" \/ ~ is_not_too_full(P)
  BY <1>1 DEF try_demote_pool
<1>2. CASE P.ring # "current" /\ is_not_too_full(P)
  <2> DEFINE cl == IF P.alloc_count = 0 THEN "UNTRACKED" ELSE Class(P)
  <2>1. Q = reclassify_pool(P, P.domain_id, cl)
    BY <1>2 DEF try_demote_pool
  <2>2. /\ cl \in {"YOUNG", "OLD", "UNTRACKED"}
        /\ P.domain_id \in Domains \cup {NoDomain}
        /\ PoolOK(P)
    BY ClassRing, Fields DEF PoolInv
  <2>3. /\ cl = "OLD" => \A s \in Slots : P.cells[s] # "young"
        /\ cl = "UNTRACKED" => Live(P) = {}
    BY <1>2, <2>2, ZeroIsEmpty, ClassRing DEF PoolInv
  <2> HIDE DEF cl
  <2>4. /\ Q \in PoolType /\ PoolOK(Q)
        /\ cl = "YOUNG" => Q.ring = "young"
        /\ cl = "OLD" => Q.ring = "old"
        /\ cl = "UNTRACKED" => Q.ring = "free"
        /\ Q.domain_id = P.domain_id /\ Q.cells = P.cells /\ Live(Q) = Live(P)
    BY <1>2, <2>1, <2>2, Reclassify
  <2>5. PoolInv(Q)
    BY <2>2, <2>3, <2>4, ClassRing DEF PoolInv
  <2>6. Q.ring \in {"young", "old", "free"}
    BY <2>2, <2>4
  <2>7. cl \in {"UNTRACKED", Class(P)}
    BY DEF cl
  <2> HIDE DEF Q
  <2>8. Q.ring = "free" \/ Class(Q) = Class(P)
    BY <2>2, <2>4, <2>7, ClassRing
  <2>9. QED BY <1>2, <2>4, <2>5, <2>6, <2>8 DEF Q
<1> QED BY <1>1, <1>2

LEMMA GcRings ==
  ASSUME NEW P \in PoolType, PoolInv(P), NEW d \in Domains
  PROVE  LET Q == gc_pool_rings(P, d)
         IN /\ Q \in PoolType
            /\ PoolInv(Q)
            /\ Q.domain_id = P.domain_id
            /\ Q.cells = P.cells
            /\ Live(Q) = Live(P)
            /\ \/ Q.ring = P.ring
               \/ P.ring \in {"young", "old"} /\ P.domain_id = d /\ Q.ring = "free"
<1> DEFINE Q == gc_pool_rings(P, d)
           G == gc_pool(P)
<1>1. CASE ~ (P.ring \in {"young", "old"} /\ P.domain_id = d)
  BY <1>1 DEF gc_pool_rings
<1>2. CASE P.ring \in {"young", "old"} /\ P.domain_id = d
  <2>1. /\ G \in PoolType /\ PoolOK(G) /\ G.ring = P.ring
        /\ G.domain_id = P.domain_id /\ G.cells = P.cells /\ Live(G) = Live(P)
    BY <1>2, GcPool DEF PoolInv
  <2>2. PoolInv(G)
    BY <1>2, <2>1, ClassRing DEF PoolInv
  <2>3. CASE P.delayed_count # 0 /\ G.alloc_count = 0
    <3>1. Q = reclassify_pool(G, d, "UNTRACKED")
      BY <1>2, <2>3 DEF gc_pool_rings, try_gc_and_reclassify_pool
    <3>2. Live(G) = {}
      BY <1>2, <2>1, <2>3, ZeroIsEmpty
    <3>3. /\ Q \in PoolType /\ PoolOK(Q) /\ Q.ring = "free" /\ Q.domain_id = d
          /\ Q.cells = G.cells /\ Live(Q) = Live(G)
      BY <1>2, <2>1, <3>1, Reclassify
    <3>4. PoolInv(Q)
      BY <3>2, <3>3, ClassRing DEF PoolInv
    <3> HIDE DEF Q, G
    <3>5. QED BY <1>2, <2>1, <3>3, <3>4 DEF Q
  <2>4. CASE ~ (P.delayed_count # 0 /\ G.alloc_count = 0)
    <3>1. Q = G
      BY <1>2, <2>4 DEF gc_pool_rings, try_gc_and_reclassify_pool
    <3> HIDE DEF Q, G
    <3>2. QED BY <2>1, <2>2, <3>1 DEF Q
  <2> QED BY <2>3, <2>4
<1> QED BY <1>1, <1>2

LEMMA RetireInv ==
  ASSUME NEW P \in PoolType, PoolInv(P), NEW d \in Domains
  PROVE  LET Q == move_current_to_young(P, d)
         IN /\ Q \in PoolType
            /\ PoolInv(Q)
            /\ Q.domain_id = P.domain_id
            /\ Q.cells = P.cells
            /\ Live(Q) = Live(P)
            /\ IF P.ring = "current" /\ P.domain_id = d
               THEN Q.ring = "young" ELSE Q = P
<1> DEFINE Q == move_current_to_young(P, d)
<1>1. CASE ~ (P.ring = "current" /\ P.domain_id = d)
  BY <1>1 DEF move_current_to_young
<1>2. CASE P.ring = "current" /\ P.domain_id = d
  <2>1. /\ Q \in PoolType /\ PoolOK(Q) /\ Q.domain_id = P.domain_id
        /\ Q.cells = P.cells /\ Live(Q) = Live(P) /\ Q.ring = "young"
    BY <1>2, Retire DEF PoolInv
  <2>2. PoolInv(Q)
    BY <2>1, ClassRing DEF PoolInv
  <2> HIDE DEF Q
  <2>3. QED BY <1>2, <2>1, <2>2 DEF Q
<1> QED BY <1>1, <1>2

LEMMA Adopt ==
  ASSUME NEW P \in PoolType, PoolInv(P), NEW d \in Domains
  PROVE  LET Q == adopt_orphaned_pools(P, d)
         IN /\ Q \in PoolType
            /\ PoolInv(Q)
            /\ Q.cells = P.cells
            /\ Live(Q) = Live(P)
            /\ IF P.ring \in Orphaned
               THEN Q.ring \in {"young", "old"} /\ Q.domain_id = d ELSE Q = P
            /\ Class(Q) = Class(P)
<1> DEFINE Q == adopt_orphaned_pools(P, d)
<1>1. CASE P.ring \notin Orphaned
  BY <1>1 DEF adopt_orphaned_pools
<1>2. CASE P.ring \in Orphaned
  <2>1. Q = reclassify_pool(P, d, Class(P))
    BY <1>2 DEF adopt_orphaned_pools
  <2>2. /\ Class(P) \in {"YOUNG", "OLD"} /\ PoolOK(P) /\ P.ring # "current"
        /\ Class(P) \in {"YOUNG", "OLD", "UNTRACKED"}
    BY <1>2, ClassRing DEF PoolInv, Orphaned
  <2>3. /\ Q \in PoolType /\ PoolOK(Q) /\ Q.domain_id = d
        /\ Class(P) = "YOUNG" => Q.ring = "young"
        /\ Class(P) = "OLD" => Q.ring = "old"
        /\ Q.cells = P.cells /\ Live(Q) = Live(P)
    BY <2>1, <2>2, Reclassify
  <2>4. PoolInv(Q)
    BY <2>2, <2>3, ClassRing DEF PoolInv
  <2> HIDE DEF Q
  <2>5. Class(Q) = Class(P)
    BY <2>2, <2>3, ClassRing
  <2>6. QED BY <1>2, <2>2, <2>3, <2>4, <2>5 DEF Q
<1> QED BY <1>1, <1>2

\* The termination of domain d takes its pools out of its rings.
LEMMA Orphan ==
  ASSUME NEW P \in PoolType, PoolInv(P), NEW d \in Domains
  PROVE  LET Q == orphan_pools(P, d)
         IN /\ Q \in PoolType
            /\ PoolInv(Q)
            /\ Q.cells = P.cells
            /\ Live(Q) = Live(P)
            /\ IF P.domain_id = d /\ P.ring \notin Orphaned
               THEN \/ /\ Q.ring \in Orphaned /\ Q.domain_id = d
                       /\ P.ring \in {"current", "young", "old"}
                       /\ Class(Q) = Class(P)
                    \/ Q.ring = "unmapped" /\ (Live(Q) = {} \/ P.ring = "unmapped")
               ELSE Q = P
<1> DEFINE M == move_current_to_young(P, d)
           G == gc_pool_rings(M, d)
           Q == orphan_pools(P, d)
<1>1. /\ M \in PoolType /\ PoolInv(M) /\ M.domain_id = P.domain_id
      /\ M.cells = P.cells /\ Live(M) = Live(P)
      /\ IF P.ring = "current" /\ P.domain_id = d THEN M.ring = "young" ELSE M = P
  BY RetireInv
<1>2. /\ G \in PoolType /\ PoolInv(G) /\ G.domain_id = M.domain_id
      /\ G.cells = M.cells /\ Live(G) = Live(M)
      /\ \/ G.ring = M.ring
         \/ M.ring \in {"young", "old"} /\ M.domain_id = d /\ G.ring = "free"
  <2> HIDE DEF M
  <2>1. M \in PoolType /\ PoolInv(M)
    BY <1>1
  <2> QED BY <2>1, GcRings
<1>3. CASE P.domain_id # d \/ P.ring \in Orphaned
  <2>1. M = P
    BY <1>1, <1>3 DEF Orphaned
  <2>2. G = P
    BY <1>3, <2>1 DEF gc_pool_rings, Orphaned
  <2>3. Q = P
    BY <1>3, <2>2 DEF orphan_pools
  <2> QED BY <1>3, <2>3
<1>4. CASE P.domain_id = d /\ P.ring \notin Orphaned
  <2>1. /\ G.domain_id = d
        /\ G.ring \in {"young", "old", "free", "unmapped"}
        /\ G.ring \in {"young", "old"} => P.ring \in {"current", "young", "old"}
        /\ G.ring = "free" => Live(G) = {}
        /\ G.ring = "unmapped" => P.ring = "unmapped"
        /\ G.ring # "unmapped" => PoolOK(G)
        /\ G.ring = "young" => P.ring \in {"current", "young"}
        /\ G.ring = "old" => P.ring = "old"
    <3>1. P.ring \in RingNames /\ M.ring \in RingNames
      BY <1>1, Fields
    <3>2. /\ G.ring = "free" => Live(G) = {}
          /\ G.ring # "unmapped" => PoolOK(G)
      BY <1>2 DEF PoolInv
    <3> HIDE DEF M, G, Q
    <3>3. M.ring \in {"young", "old", "free", "unmapped"}
      BY <1>1, <1>4, <3>1 DEF RingNames, Orphaned
    <3>4. M.ring \in {"young", "old"} => P.ring \in {"current", "young", "old"}
      BY <1>1
    <3>5. /\ M.ring = "unmapped" => P.ring = "unmapped"
          /\ M.ring = "young" => P.ring \in {"current", "young"}
          /\ M.ring = "old" => P.ring = "old"
      BY <1>1
    <3> QED BY <1>1, <1>2, <1>4, <3>2, <3>3, <3>4, <3>5
  <2>2. CASE G.ring = "young"
    <3>1. Q = [G EXCEPT !.ring = "orphan_young"]
      BY <2>1, <2>2 DEF orphan_pools, Orphaned
    <3> HIDE DEF M, G, Q
    <3>2. /\ Q \in PoolType /\ Q.ring = "orphan_young" /\ Q.domain_id = d
          /\ Q.cells = G.cells /\ Q.free_list = G.free_list
          /\ Q.delayed_fl = G.delayed_fl /\ Q.alloc_count = G.alloc_count
          /\ Q.delayed_count = G.delayed_count
      BY <1>2, <2>1, <3>1 DEF PoolType, RingNames
    <3>3. Live(Q) = Live(G)
      BY <3>2 DEF Live
    <3>4. PoolOK(Q)
      BY <2>1, <2>2, <3>2, <3>3 DEF PoolOK, Bias
    <3>5. PoolInv(Q)
      BY <3>2, <3>4, ClassRing DEF PoolInv
    <3>6. Class(Q) = Class(P)
      BY <2>1, <2>2, <3>2, ClassRing
    <3>7. QED BY <1>1, <1>2, <1>4, <2>1, <2>2, <3>2, <3>3, <3>5, <3>6 DEF Q, Orphaned
  <2>3. CASE G.ring = "old"
    <3>1. Q = [G EXCEPT !.ring = "orphan_old"]
      BY <2>1, <2>3 DEF orphan_pools, Orphaned
    <3>2. \A s \in Slots : G.cells[s] # "young"
      BY <1>2, <2>3, ClassRing DEF PoolInv
    <3> HIDE DEF M, G, Q
    <3>3. /\ Q \in PoolType /\ Q.ring = "orphan_old" /\ Q.domain_id = d
          /\ Q.cells = G.cells /\ Q.free_list = G.free_list
          /\ Q.delayed_fl = G.delayed_fl /\ Q.alloc_count = G.alloc_count
          /\ Q.delayed_count = G.delayed_count
      BY <1>2, <2>1, <3>1 DEF PoolType, RingNames
    <3>4. Live(Q) = Live(G)
      BY <3>3 DEF Live
    <3>5. PoolOK(Q)
      BY <2>1, <2>3, <3>3, <3>4 DEF PoolOK, Bias
    <3>6. PoolInv(Q)
      BY <3>2, <3>3, <3>5 DEF PoolInv
    <3>7. Class(Q) = Class(P)
      BY <2>1, <2>3, <3>3, ClassRing
    <3>8. QED BY <1>1, <1>2, <1>4, <2>1, <2>3, <3>3, <3>4, <3>6, <3>7 DEF Q, Orphaned
  <2>4. CASE G.ring \in {"free", "unmapped"}
    <3>1. Q = bxr_free_pool(G)
      BY <2>1, <2>4 DEF orphan_pools, Orphaned
    <3> HIDE DEF M, G, Q
    <3>2. Q \in PoolType /\ Q.ring = "unmapped" /\ Q.cells = G.cells
      BY <1>2, <3>1, FreePool
    <3>3. Live(Q) = Live(G)
      BY <3>2 DEF Live
    <3>4. PoolInv(Q)
      BY <3>2, ClassRing DEF PoolInv
    <3>5. QED BY <1>1, <1>2, <1>4, <2>1, <2>4, <3>2, <3>3, <3>4 DEF Q
  <2> QED BY <2>1, <2>2, <2>3, <2>4
<1> QED BY <1>3, <1>4

-----------------------------------------------------------------------------
(* The collector changes what the cells in use hold, and nothing else.     *)

LEMMA Recolour ==
  ASSUME NEW P \in PoolType, NEW c \in [Slots -> Contents],
         \A s \in Slots : c[s] = "free" <=> P.cells[s] = "free"
  PROVE  LET Q == [P EXCEPT !.cells = c]
         IN /\ Q \in PoolType
            /\ PoolOK(P) => PoolOK(Q)
            /\ Q.ring = P.ring
            /\ Q.domain_id = P.domain_id
            /\ Q.cells = c
            /\ Live(Q) = Live(P)
<1> DEFINE Q == [P EXCEPT !.cells = c]
<1>1. Q \in PoolType
  BY DEF PoolType
<1>2. /\ Q.ring = P.ring /\ Q.domain_id = P.domain_id /\ Q.cells = c
      /\ Q.free_list = P.free_list /\ Q.delayed_fl = P.delayed_fl
      /\ Q.alloc_count = P.alloc_count /\ Q.delayed_count = P.delayed_count
  BY DEF PoolType
<1>3. Live(Q) = Live(P)
  BY <1>2 DEF Live
<1>4. PoolOK(P) => PoolOK(Q)
  BY <1>2, <1>3 DEF PoolOK, Bias
<1> QED BY <1>1, <1>2, <1>3, <1>4

LEMMA ScanYoung ==
  ASSUME NEW P \in PoolType, PoolInv(P)
  PROVE  LET Q == scan_pool_young(P)
         IN /\ Q \in PoolType
            /\ PoolInv(Q)
            /\ Q.ring = P.ring
            /\ Q.domain_id = P.domain_id
            /\ Live(Q) = Live(P)
            /\ Q.cells = [s \in Slots |-> IF P.cells[s] = "young"
                                          THEN "old" ELSE P.cells[s]]
<1> DEFINE c == [s \in Slots |-> IF P.cells[s] = "young" THEN "old" ELSE P.cells[s]]
           Q == scan_pool_young(P)
<1>1. P.cells \in [Slots -> Contents]
  BY Fields
<1>2. /\ c \in [Slots -> Contents]
      /\ \A s \in Slots : c[s] = "free" <=> P.cells[s] = "free"
      /\ \A s \in Slots : c[s] # "young"
  BY <1>1 DEF Contents
<1>3. Q = [P EXCEPT !.cells = c]
  BY DEF scan_pool_young
<1> HIDE DEF c, Q
<1>4. /\ Q \in PoolType
      /\ PoolOK(P) => PoolOK(Q)
      /\ Q.ring = P.ring /\ Q.domain_id = P.domain_id
      /\ Q.cells = c /\ Live(Q) = Live(P)
  BY <1>2, <1>3, Recolour
<1>5. PoolInv(Q)
  BY <1>2, <1>4 DEF PoolInv
<1>6. QED BY <1>4, <1>5, Zenon DEF Q, c

\* scan_pool_gen stops early, but not too early.
LEMMA ScanGen ==
  ASSUME NEW P \in PoolType, PoolInv(P), P.ring \in {"young", "old"}
  PROVE  LET Q == scan_pool_gen(P)
         IN /\ Q \in PoolType
            /\ PoolInv(Q)
            /\ Q.ring = P.ring
            /\ Q.domain_id = P.domain_id
            /\ Live(Q) = Live(P)
            /\ Q.cells = [s \in Slots |-> IF P.cells[s] = "old"
                                          THEN "marked" ELSE P.cells[s]]
<1> DEFINE c == [s \in Slots |-> IF P.cells[s] = "old" THEN "marked" ELSE P.cells[s]]
           Q == scan_pool_gen(P)
<1>1. /\ P.cells \in [Slots -> Contents] /\ Live(P) \in SUBSET Slots
      /\ IsFiniteSet(Live(P)) /\ Cardinality(Live(P)) \in Nat
      /\ Slots \in SUBSET Int
  BY Fields, SlotsFinite DEF Slots
<1>2. Cardinality(Live(P)) = anticipated_alloc_count(P)
  BY AnticipatedIsLive DEF PoolInv
<1>3. ASSUME NEW s \in Live(P)
      PROVE  Cardinality({t \in Live(P) : t < s}) < anticipated_alloc_count(P)
  <2>1. {t \in Live(P) : t < s} \in SUBSET (Live(P) \ {s})
    <3>1. s \in 1 .. POOL_CAPACITY
      BY <1>1 DEF Slots
    <3>2. ~ (s < s)
      BY <3>1
    <3> QED BY <3>2
  <2>2. /\ IsFiniteSet(Live(P) \ {s})
        /\ Cardinality(Live(P) \ {s}) = Cardinality(Live(P)) - 1
    BY <1>1, FS_RemoveElement
  <2>3. /\ Cardinality({t \in Live(P) : t < s}) <= Cardinality(Live(P) \ {s})
        /\ IsFiniteSet({t \in Live(P) : t < s})
    BY <2>1, <2>2, FS_Subset
  <2>4. Cardinality({t \in Live(P) : t < s}) \in Nat
    BY <2>3, FS_CardinalityType
  <2> QED BY <1>1, <1>2, <2>2, <2>3, <2>4
<1>4. Met(P) = Live(P)
  BY <1>3 DEF Met
<1>5. \A s \in Slots : P.cells[s] = "old" => s \in Met(P)
  BY <1>1, <1>4 DEF Live
<1>6. Q = [P EXCEPT !.cells = c]
  BY <1>5 DEF scan_pool_gen
<1>7. /\ c \in [Slots -> Contents]
      /\ \A s \in Slots : c[s] = "free" <=> P.cells[s] = "free"
      /\ \A s \in Slots : c[s] = "young" <=> P.cells[s] = "young"
  BY <1>1 DEF Contents
<1> HIDE DEF c, Q
<1>8. /\ Q \in PoolType
      /\ PoolOK(P) => PoolOK(Q)
      /\ Q.ring = P.ring /\ Q.domain_id = P.domain_id
      /\ Q.cells = c /\ Live(Q) = Live(P)
  BY <1>6, <1>7, Recolour
<1>9. PoolInv(Q)
  BY <1>7, <1>8 DEF PoolInv, Class
<1>10. QED BY <1>8, <1>9, Zenon DEF Q, c


-----------------------------------------------------------------------------
(* Reading the invariant.                                                  *)

LEMMA PoolsOK ==
  ASSUME IInv
  PROVE  \A p \in Pools : pool[p] \in PoolType /\ PoolInv(pool[p])
BY DEF IInv, TypeOK, CountsMatch, YoungRootsInYoungPools, PoolInv

LEMMA MappedWhenLive ==
  ASSUME IInv, status # "TORE_DOWN", NEW p \in Pools, Live(pool[p]) # {}
  PROVE  pool[p].ring # "unmapped"
BY DEF IInv, NoUseAfterFree

LEMMA LiveRoot ==
  ASSUME NEW r \in Roots
  PROVE  r[1] \in Pools /\ r[2] \in Slots
BY DEF Roots

\* What is left to show of a step taken outside of collections, once the
\* pools are known to be well formed after it.
LEMMA MutatorStep ==
  ASSUME IInv, gc = "none", gc' = "none", pc' = pc,
         \A p \in Pools : pool'[p] \in PoolType /\ PoolInv(pool'[p]),
         \A p \in Pools : \A s \in Slots :
           pool'[p].cells[s] \in {"free", "young", "old", pool[p].cells[s]},
         \A p \in Pools : pool'[p].ring \in Orphaned =>
           (MainCreatesFirst => MainDomain \in inited'),
         status' # "TORE_DOWN" =>
           \A p \in Pools : pool'[p].ring = "unmapped" => Live(pool'[p]) = {}
  PROVE  /\ CountsMatch' /\ YoungRootsInYoungPools' /\ NoUseAfterFree'
         /\ OrphansWait' /\ ScanCovers'
         /\ MainCreatesFirst => NoDangling'
<1>1. CountsMatch' /\ YoungRootsInYoungPools'
  BY DEF CountsMatch, YoungRootsInYoungPools, PoolInv
<1>2. NoUseAfterFree'
  BY DEF NoUseAfterFree
<1>3. OrphansWait'
  BY DEF OrphansWait
<1>4. ScanCovers'
  <2>1. \A p \in Pools : \A s \in Slots : pool[p].cells[s] # "marked"
    BY DEF IInv, ScanCovers
  <2> QED BY <2>1 DEF ScanCovers, HoldsUnscanned
<1>5. MainCreatesFirst => NoDangling'
  <2>1. SUFFICES ASSUME MainCreatesFirst, NEW r \in Roots
                 PROVE  pool'[r[1]].cells[r[2]] # "dead"
    BY DEF NoDangling
  <2>2. pool[r[1]].cells[r[2]] # "dead"
    BY <2>1 DEF IInv, NoDangling
  <2> QED BY <2>1, <2>2, LiveRoot
<1> QED BY <1>1, <1>2, <1>3, <1>4, <1>5

-----------------------------------------------------------------------------
(* boxroot_create.                                                         *)

\* The part of a creation that concerns the threads and the library.
LEMMA CreateLifeCycle ==
  ASSUME IInv, NEW d \in Domains, CanCall(d),
         gc' = gc, pc' = pc, running' = running,
         status' = "RUNNING", inited' = inited \cup {d},
         cached' = [cached EXCEPT ![d] = d], warm' = warm \cup {d},
         pending' \in [Domains -> Roots \cup {NoRoot}],
         pool' \in [Pools -> PoolType],
         \A p \in Pools : pool'[p].ring # "unmapped" =>
           \/ pool'[p].domain_id = d
           \/ /\ pool[p].ring # "unmapped"
              /\ pool'[p].domain_id = pool[p].domain_id
              /\ pool[p].ring \in Orphaned => pool'[p].ring \in Orphaned
  PROVE  TypeOK' /\ LifeCycle'
<1>1. /\ d \in running /\ gc = "none" /\ TypeOK /\ LifeCycle
  BY DEF CanCall, IInv
<1>2. TypeOK'
  BY <1>1 DEF TypeOK
<1>3. /\ running' # {} => MainDomain \in running' /\ status' # "TORE_DOWN"
      /\ inited' # {} => status' = "RUNNING"
      /\ gc' # "none" => running' # {} /\ \A e \in Domains : pending'[e] = NoRoot
      /\ \A e \in Domains : pc'[e] # "out" => gc' # "none" /\ e \in running'
      /\ warm' \subseteq running' \cap inited'
  BY <1>1 DEF LifeCycle
<1>4. \A e \in Domains : cached'[e] # NoDomain =>
        cached'[e] = e /\ e \in running' \cap inited'
  BY <1>1 DEF LifeCycle, TypeOK
<1>5. ASSUME NEW p \in Pools, pool'[p].ring # "unmapped"
      PROVE  /\ pool'[p].domain_id \in inited'
             /\ running' # {} /\ pool'[p].ring \notin Orphaned =>
                  pool'[p].domain_id \in running'
  BY <1>1, <1>5 DEF LifeCycle
<1> QED BY <1>2, <1>3, <1>4, <1>5 DEF LifeCycle

\* A creation takes a free cell: the roots being replaced stay.
LEMMA CreatePending ==
  ASSUME IInv, NEW d \in Domains, CanCall(d),
         NEW k \in Roots \cup {NoRoot}, k = NoRoot \/ Owned(k),
         running' = running, pending' = [pending EXCEPT ![d] = k],
         \A p \in Pools : Live(pool[p]) \subseteq Live(pool'[p])
  PROVE  PendingIsLive'
<1>1. /\ d \in running /\ TypeOK /\ PendingIsLive
  BY DEF CanCall, IInv
<1>2. ASSUME NEW e \in Domains, pending'[e] # NoRoot
      PROVE  /\ e \in running'
             /\ pending'[e][2] \in Live(pool'[pending'[e][1]])
             /\ \A f \in Domains \ {e} : pending'[f] # pending'[e]
  <2>1. pending'[e] = IF e = d THEN k ELSE pending[e]
    BY <1>1 DEF TypeOK
  <2>2. pending'[e] \in Roots
    BY <1>1, <1>2, <2>1 DEF TypeOK
  <2>3. pending'[e][2] \in Live(pool[pending'[e][1]]) /\ e \in running
    BY <1>1, <1>2, <2>1 DEF PendingIsLive, Owned
  <2>4. pending'[e][2] \in Live(pool'[pending'[e][1]])
    BY <2>2, <2>3, LiveRoot
  <2>5. \A f \in Domains \ {e} : pending'[f] # pending'[e]
    BY <1>1, <1>2, <2>1 DEF PendingIsLive, Owned, TypeOK
  <2> QED BY <2>3, <2>4, <2>5
<1> QED BY <1>2 DEF PendingIsLive

\* What bxr_create_slow does to the pools before it looks for one.
LEMMA AfterRetireInv ==
  ASSUME IInv, NEW d \in Domains, NEW PL \in AfterRetire(d)
  PROVE  /\ PL \in [Pools -> PoolType]
         /\ \A p \in Pools :
              /\ PoolInv(PL[p])
              /\ PL[p].cells = pool[p].cells
              /\ Live(PL[p]) = Live(pool[p])
              /\ PL[p].domain_id = pool[p].domain_id
              /\ \/ PL[p].ring = pool[p].ring
                 \/ /\ pool[p].ring \in {"current", "young"}
                    /\ PL[p].ring \in {"young", "free"}
                    /\ pool[p].domain_id = d
              /\ ~ (PL[p].ring = "current" /\ PL[p].domain_id = d)
<1> DEFINE RL == RetireCurrent(pool, d)
<1>1. \A p \in Pools : pool[p] \in PoolType /\ PoolInv(pool[p])
  BY PoolsOK
<1>2. \A p \in Pools : RL[p] = move_current_to_young(pool[p], d)
  BY DEF RetireCurrent
<1>3. \A p \in Pools :
        /\ RL[p] \in PoolType /\ PoolInv(RL[p])
        /\ RL[p].cells = pool[p].cells /\ Live(RL[p]) = Live(pool[p])
        /\ RL[p].domain_id = pool[p].domain_id
        /\ IF pool[p].ring = "current" /\ pool[p].domain_id = d
           THEN RL[p].ring = "young" ELSE RL[p] = pool[p]
  BY <1>1, <1>2, RetireInv
<1>4. RL \in [Pools -> PoolType]
  BY <1>3 DEF RetireCurrent
<1>5. CASE PL = RL
  BY <1>3, <1>4, <1>5
<1>6. CASE \E g \in Emptied(RL, d) :
             PL = [p \in Pools |-> IF p = g
                     THEN try_gc_and_reclassify_pool(RL[p], d) ELSE RL[p]]
  <2>1. PICK g \in Emptied(RL, d) :
             PL = [p \in Pools |-> IF p = g
                     THEN try_gc_and_reclassify_pool(RL[p], d) ELSE RL[p]]
    BY <1>6
  <2>2. g \in Pools /\ RL[g].ring = "young" /\ RL[g].domain_id = d
    BY DEF Emptied, In
  <2>3. PL[g] = gc_pool_rings(RL[g], d)
    BY <2>1, <2>2 DEF gc_pool_rings
  <2> HIDE DEF RL
  <2>4. /\ PL[g] \in PoolType /\ PoolInv(PL[g])
        /\ PL[g].cells = RL[g].cells /\ Live(PL[g]) = Live(RL[g])
        /\ PL[g].domain_id = RL[g].domain_id
        /\ PL[g].ring \in {"young", "free"}
    BY <1>3, <2>2, <2>3, GcRings
  <2>5. pool[g].ring \in {"current", "young"} /\ pool[g].domain_id = d
    BY <1>3, <2>2
  <2>6. \A p \in Pools \ {g} : PL[p] = RL[p]
    BY <2>1
  <2>7. PL \in [Pools -> PoolType]
    BY <1>3, <2>1, <2>4
  <2>8. ASSUME NEW p \in Pools
        PROVE  /\ PoolInv(PL[p])
               /\ PL[p].cells = pool[p].cells
               /\ Live(PL[p]) = Live(pool[p])
               /\ PL[p].domain_id = pool[p].domain_id
               /\ \/ PL[p].ring = pool[p].ring
                  \/ /\ pool[p].ring \in {"current", "young"}
                     /\ PL[p].ring \in {"young", "free"}
                     /\ pool[p].domain_id = d
               /\ ~ (PL[p].ring = "current" /\ PL[p].domain_id = d)
    <3>1. CASE p = g
      BY <1>3, <2>4, <2>5, <3>1
    <3>2. CASE p # g
      BY <1>3, <2>6, <3>2
    <3> QED BY <3>1, <3>2
  <2> QED BY <2>7, <2>8
<1> QED BY <1>5, <1>6 DEF AfterRetire

\* What a creation by d does to the pools: cell s of pool p, free until then, is
\* taken for a value of age v; p is, or becomes, the current pool of d; and d may
\* have retired or emptied other pools of its own.
Takes(d, p, s, v) ==
  /\ \/ pool[p].ring = "unmapped" /\ Live(pool[p]) = {}
     \/ pool[p].ring \in {"current", "young", "old", "free"} /\ pool[p].domain_id = d
  /\ pool'[p].ring = "current" /\ pool'[p].domain_id = d
  /\ s \in Slots \ Live(pool[p]) /\ Live(pool'[p]) = Live(pool[p]) \cup {s}
  /\ \A t \in Slots : pool'[p].cells[t] = IF t = s THEN v ELSE pool[p].cells[t]
  /\ \A q \in Pools \ {p} :
       /\ pool'[q].domain_id = pool[q].domain_id
       /\ pool'[q].cells = pool[q].cells /\ Live(pool'[q]) = Live(pool[q])
       /\ \/ pool'[q].ring = pool[q].ring
          \/ /\ pool[q].ring \in {"current", "young"} /\ pool[q].domain_id = d
             /\ pool'[q].ring \in {"young", "free"}
  /\ \/ pool[p].ring = "current" /\ \A q \in Pools \ {p} : pool'[q] = pool[q]
     \/ \A q \in Pools \ {p} : ~ (pool'[q].ring = "current" /\ pool'[q].domain_id = d)

LEMMA CreateFastPools ==
  ASSUME IInv, NEW d \in Domains, NEW v \in {"young", "old"},
         NEW k, CreateFast(d, v, k)
  PROVE  /\ pool' \in [Pools -> PoolType]
         /\ \A q \in Pools : PoolInv(pool'[q])
         /\ \E p \in Pools, s \in Slots : Takes(d, p, s, v)
<1>1. PICK p \in In(pool, d, {"current"}) : \E s \in pool[p].free_list :
        pool' = [pool EXCEPT ![p] = allocate(pool[p], s, v)]
  BY DEF CreateFast
<1>2. PICK s \in pool[p].free_list :
        pool' = [pool EXCEPT ![p] = allocate(pool[p], s, v)]
  BY <1>1
<1>3. /\ p \in Pools /\ pool[p].ring = "current" /\ pool[p].domain_id = d
      /\ pool \in [Pools -> PoolType]
  BY DEF In, IInv, TypeOK
<1>4. /\ pool[p] \in PoolType /\ PoolInv(pool[p]) /\ PoolOK(pool[p])
      /\ pool[p].cells \in [Slots -> Contents]
  BY <1>3, PoolsOK, Fields DEF PoolInv
<1> DEFINE Q == allocate(pool[p], s, v)
<1>5. /\ Q \in PoolType /\ PoolOK(Q)
      /\ Q.ring = pool[p].ring /\ Q.domain_id = pool[p].domain_id
      /\ Q.cells = [pool[p].cells EXCEPT ![s] = v]
      /\ s \in Slots \ Live(pool[p]) /\ Live(Q) = Live(pool[p]) \cup {s}
  <2>1. /\ Q \in PoolType /\ PoolOK(Q)
        /\ s \in Slots \ Live(pool[p]) /\ Live(Q) = Live(pool[p]) \cup {s}
    BY <1>4, Allocate, Zenon
  <2>2. /\ Q.ring = pool[p].ring /\ Q.domain_id = pool[p].domain_id
        /\ Q.cells = [pool[p].cells EXCEPT ![s] = v]
    BY <1>4 DEF allocate, PoolType
  <2> QED BY <2>1, <2>2
<1> HIDE DEF Q
<1>6. PoolInv(Q)
  BY <1>3, <1>5, ClassRing DEF PoolInv
<1>7. /\ pool'[p] = Q /\ \A q \in Pools \ {p} : pool'[q] = pool[q]
      /\ pool' \in [Pools -> PoolType]
  BY <1>2, <1>3, <1>5 DEF Q
<1>8. \A q \in Pools : PoolInv(pool'[q])
  BY <1>6, <1>7, PoolsOK
<1>9. Takes(d, p, s, v)
  BY <1>3, <1>4, <1>5, <1>7 DEF Takes
<1> QED BY <1>3, <1>5, <1>7, <1>8, <1>9

LEMMA CreateSlowPools ==
  ASSUME IInv, NEW d \in Domains, NEW v \in {"young", "old"},
         NEW k, CreateSlow(d, v, k)
  PROVE  /\ pool' \in [Pools -> PoolType]
         /\ \A q \in Pools : PoolInv(pool'[q])
         /\ \E p \in Pools, s \in Slots : Takes(d, p, s, v)
<1> DEFINE E(PL, p) == IF PL[p].ring = "unmapped" THEN get_empty_pool ELSE PL[p]
<1>1. PICK PL \in AfterRetire(d), p \in Pools :
        /\ Available(PL, d, p)
        /\ \E s \in PL[p].free_list :
             pool' = [q \in Pools |->
                 IF q = p THEN allocate(set_current_pool(E(PL, p), d), s, v) ELSE PL[q]]
  BY DEF CreateSlow
<1>2. PICK s \in PL[p].free_list :
             pool' = [q \in Pools |->
                 IF q = p THEN allocate(set_current_pool(E(PL, p), d), s, v) ELSE PL[q]]
  BY <1>1
<1>3. status # "TORE_DOWN"
  BY DEF CreateSlow, NeedsNewPool
<1>4. /\ PL \in [Pools -> PoolType]
      /\ \A q \in Pools :
           /\ PoolInv(PL[q])
           /\ PL[q].cells = pool[q].cells
           /\ Live(PL[q]) = Live(pool[q])
           /\ PL[q].domain_id = pool[q].domain_id
           /\ \/ PL[q].ring = pool[q].ring
              \/ /\ pool[q].ring \in {"current", "young"}
                 /\ PL[q].ring \in {"young", "free"}
                 /\ pool[q].domain_id = d
           /\ ~ (PL[q].ring = "current" /\ PL[q].domain_id = d)
  BY AfterRetireInv
<1>5. /\ PL[p].ring \in {"young", "old", "free", "unmapped"}
      /\ PL[p].ring # "unmapped" => PL[p].domain_id = d
  BY <1>1 DEF Available, In
<1>6. /\ PL[p].ring = "unmapped" => pool[p].ring = "unmapped" /\ Live(pool[p]) = {}
      /\ pool[p].cells \in [Slots -> Contents]
  BY <1>3, <1>4, MappedWhenLive, PoolsOK, Fields
<1> DEFINE F == E(PL, p)
           C == set_current_pool(F, d)
           Q == allocate(C, s, v)
<1>7. /\ F \in PoolType /\ PoolOK(F) /\ F.ring # "current"
      /\ Live(F) = Live(pool[p]) /\ s \in F.free_list
      /\ \A t \in Slots : F.cells[t] = pool[p].cells[t]
  <2>1. CASE PL[p].ring = "unmapped"
    <3>1. F = get_empty_pool
      BY <2>1
    <3>2. s \in Slots
      BY <1>4, Fields
    <3>3. /\ get_empty_pool.free_list = Slots
          /\ get_empty_pool.cells = [t \in Slots |-> "free"]
      BY DEF get_empty_pool
    <3>4. \A t \in Slots : pool[p].cells[t] = "free"
      BY <1>6, <2>1 DEF Live
    <3> QED BY <1>6, <2>1, <3>1, <3>2, <3>3, <3>4, GetEmptyPool
  <2>2. CASE PL[p].ring # "unmapped"
    <3>1. F = PL[p]
      BY <2>2
    <3> QED BY <1>4, <1>5, <2>2, <3>1 DEF PoolInv
  <2> QED BY <2>1, <2>2
<1> HIDE DEF F
<1>8. /\ C \in PoolType /\ PoolOK(C) /\ C.ring = "current" /\ C.domain_id = d
      /\ C.cells = F.cells /\ C.free_list = F.free_list /\ Live(C) = Live(F)
  BY <1>7, SetCurrent
<1> HIDE DEF C
<1>9. /\ Q \in PoolType /\ PoolOK(Q) /\ Q.ring = C.ring /\ Q.domain_id = C.domain_id
      /\ Q.cells = [C.cells EXCEPT ![s] = v]
      /\ s \in Slots \ Live(C) /\ Live(Q) = Live(C) \cup {s}
  <2>1. C \in PoolType /\ PoolOK(C) /\ s \in C.free_list /\ v \in {"young", "old"}
    BY <1>7, <1>8
  <2>2. /\ Q \in PoolType /\ PoolOK(Q)
        /\ s \in Slots \ Live(C) /\ Live(Q) = Live(C) \cup {s}
    BY <2>1, Allocate, Zenon
  <2>3. /\ Q.ring = C.ring /\ Q.domain_id = C.domain_id
        /\ Q.cells = [C.cells EXCEPT ![s] = v]
    BY <1>8 DEF allocate, PoolType
  <2> QED BY <2>2, <2>3
<1>10. PoolInv(Q)
  BY <1>8, <1>9, ClassRing DEF PoolInv
<1>11. pool' = [q \in Pools |-> IF q = p THEN Q ELSE PL[q]]
  BY <1>2 DEF C, F, Q
<1> HIDE DEF Q, E
<1>12. /\ pool'[p] = Q /\ \A q \in Pools \ {p} : pool'[q] = PL[q]
       /\ pool' \in [Pools -> PoolType]
  BY <1>4, <1>9, <1>11
<1>13. \A q \in Pools : PoolInv(pool'[q])
  BY <1>4, <1>10, <1>12
<1>14. \A t \in Slots : pool'[p].cells[t] = IF t = s THEN v ELSE pool[p].cells[t]
  <2>1. C.cells \in [Slots -> Contents]
    BY <1>8, Fields
  <2> QED BY <1>7, <1>8, <1>9, <1>12, <2>1
<1>15. \/ pool[p].ring = "unmapped" /\ Live(pool[p]) = {}
       \/ pool[p].ring \in {"current", "young", "old", "free"} /\ pool[p].domain_id = d
  BY <1>4, <1>5, <1>6
<1>16. Takes(d, p, s, v)
  BY <1>4, <1>7, <1>8, <1>9, <1>12, <1>14, <1>15 DEF Takes
<1> QED BY <1>9, <1>12, <1>13, <1>16

LEMMA CreateSucceedsStep ==
  ASSUME IInv, NEW d \in Domains, CanCall(d), NEW v \in {"young", "old"},
         NEW k \in Roots \cup {NoRoot}, k = NoRoot \/ Owned(k),
         CreateFast(d, v, k) \/ CreateSlow(d, v, k)
  PROVE  IInv'
<1>1. /\ status # "TORE_DOWN" /\ status' = "RUNNING" /\ inited' = inited \cup {d}
      /\ running' = running /\ gc' = gc /\ pc' = pc /\ gc = "none"
      /\ TypeOK /\ d \in running
      /\ pending' = [pending EXCEPT ![d] = k]
      /\ cached' = [cached EXCEPT ![d] = d] /\ warm' = warm \cup {d}
  <2>1. CASE CreateFast(d, v, k)
    <3>1. PICK p \in Pools : pool[p].ring = "current" /\ pool[p].domain_id = d
      BY <2>1 DEF CreateFast, In
    <3>2. d \in inited
      BY <3>1 DEF IInv, LifeCycle
    <3> QED BY <2>1, <3>2 DEF CreateFast, CanCall, IInv
  <2>2. CASE CreateSlow(d, v, k)
    BY <2>2 DEF CreateSlow, NeedsNewPool, CanCall, IInv
  <2> QED BY <2>1, <2>2
<1>2. /\ pool' \in [Pools -> PoolType]
      /\ \A q \in Pools : PoolInv(pool'[q])
      /\ \E p \in Pools, s \in Slots : Takes(d, p, s, v)
  BY CreateFastPools, CreateSlowPools
<1>3. PICK p \in Pools, s \in Slots : Takes(d, p, s, v)
  BY <1>2
<1>4. \A q \in Pools : pool'[q] \in PoolType /\ PoolInv(pool'[q])
  BY <1>2
<1>5. \A q \in Pools : \A t \in Slots :
         pool'[q].cells[t] \in {"free", "young", "old", pool[q].cells[t]}
  BY <1>3 DEF Takes
<1>6. \A q \in Pools : /\ pool'[q].ring \in Orphaned => pool[q].ring \in Orphaned
                       /\ Live(pool[q]) \subseteq Live(pool'[q])
  BY <1>3 DEF Takes, Orphaned
<1>7. \A q \in Pools : pool'[q].ring \in Orphaned =>
         (MainCreatesFirst => MainDomain \in inited')
  BY <1>1, <1>6 DEF IInv, OrphansWait
<1>8. ASSUME NEW q \in Pools, pool'[q].ring = "unmapped"
      PROVE  Live(pool'[q]) = {}
  <2>1. pool[q].ring = "unmapped" /\ Live(pool'[q]) = Live(pool[q])
    BY <1>3, <1>8 DEF Takes
  <2> QED BY <1>1, <2>1, MappedWhenLive
<1>9. /\ CountsMatch' /\ YoungRootsInYoungPools' /\ NoUseAfterFree'
      /\ OrphansWait' /\ ScanCovers'
      /\ MainCreatesFirst => NoDangling'
  BY <1>1, <1>4, <1>5, <1>7, <1>8, MutatorStep
<1>10. TypeOK' /\ LifeCycle'
  <2>1. pending' \in [Domains -> Roots \cup {NoRoot}]
    BY <1>1 DEF TypeOK
  <2>2. \A q \in Pools : pool'[q].ring # "unmapped" =>
           \/ pool'[q].domain_id = d
           \/ /\ pool[q].ring # "unmapped"
              /\ pool'[q].domain_id = pool[q].domain_id
              /\ pool[q].ring \in Orphaned => pool'[q].ring \in Orphaned
    BY <1>3 DEF Takes, Orphaned
  <2> QED BY <1>1, <1>2, <2>1, <2>2, CreateLifeCycle
<1>11. PendingIsLive'
  BY <1>1, <1>6, CreatePending
<1> QED BY <1>9, <1>10, <1>11 DEF IInv

LEMMA CreateNoMemoryStep ==
  ASSUME IInv, NEW d \in Domains, CanCall(d), CreateNoMemory(d)
  PROVE  IInv'
<1>1. /\ status # "TORE_DOWN" /\ status' = "RUNNING"
      /\ running' = running /\ gc' = gc /\ pc' = pc /\ gc = "none"
      /\ pending' = pending /\ TypeOK /\ d \in running /\ LifeCycle
      /\ PendingIsLive
  BY DEF CreateNoMemory, NeedsNewPool, CanCall, IInv
<1>2. CASE UNCHANGED <<cached, warm, inited, pool>>
  <2>1. TypeOK'
    BY <1>1, <1>2 DEF TypeOK
  <2>2. LifeCycle'
    BY <1>1, <1>2 DEF LifeCycle
  <2>3. PendingIsLive'
    BY <1>1, <1>2 DEF PendingIsLive
  <2>4. CountsMatch' /\ YoungRootsInYoungPools' /\ (MainCreatesFirst => NoDangling')
    BY <1>2 DEF IInv, CountsMatch, YoungRootsInYoungPools, NoDangling
  <2>5. NoUseAfterFree'
    BY <1>1, <1>2 DEF IInv, NoUseAfterFree
  <2>6. OrphansWait' /\ ScanCovers'
    BY <1>1, <1>2 DEF IInv, OrphansWait, ScanCovers, HoldsUnscanned
  <2> QED BY <2>1, <2>2, <2>3, <2>4, <2>5, <2>6 DEF IInv
<1>3. CASE /\ pool' \in AfterRetire(d)
           /\ inited' = inited \cup {d}
           /\ cached' = [cached EXCEPT ![d] = d]
           /\ warm' = warm \cup {d}
  <2>1. /\ pool' \in [Pools -> PoolType]
        /\ \A q \in Pools :
             /\ PoolInv(pool'[q])
             /\ pool'[q].cells = pool[q].cells
             /\ Live(pool'[q]) = Live(pool[q])
             /\ pool'[q].domain_id = pool[q].domain_id
             /\ \/ pool'[q].ring = pool[q].ring
                \/ /\ pool[q].ring \in {"current", "young"}
                   /\ pool'[q].ring \in {"young", "free"}
                   /\ pool[q].domain_id = d
    BY <1>3, AfterRetireInv
  <2>2. \A q \in Pools : pool'[q] \in PoolType /\ PoolInv(pool'[q])
    BY <2>1
  <2>3. \A q \in Pools : \A t \in Slots :
          pool'[q].cells[t] \in {"free", "young", "old", pool[q].cells[t]}
    BY <2>1
  <2>4. \A q \in Pools : pool'[q].ring \in Orphaned =>
          (MainCreatesFirst => MainDomain \in inited')
    BY <1>3, <2>1 DEF IInv, OrphansWait, Orphaned
  <2>5. \A q \in Pools : pool'[q].ring = "unmapped" => Live(pool'[q]) = {}
    BY <1>1, <2>1, MappedWhenLive
  <2>6. /\ CountsMatch' /\ YoungRootsInYoungPools' /\ NoUseAfterFree'
        /\ OrphansWait' /\ ScanCovers'
        /\ MainCreatesFirst => NoDangling'
    BY <1>1, <2>2, <2>3, <2>4, <2>5, MutatorStep
  <2>7. TypeOK' /\ LifeCycle'
    <3>1. pending' \in [Domains -> Roots \cup {NoRoot}]
      BY <1>1 DEF TypeOK
    <3>2. \A q \in Pools : pool'[q].ring # "unmapped" =>
           \/ pool'[q].domain_id = d
           \/ /\ pool[q].ring # "unmapped"
              /\ pool'[q].domain_id = pool[q].domain_id
              /\ pool[q].ring \in Orphaned => pool'[q].ring \in Orphaned
      BY <2>1 DEF Orphaned
    <3> QED BY <1>1, <1>3, <2>1, <3>1, <3>2, CreateLifeCycle
  <2>8. PendingIsLive'
    <3>1. \A e \in Domains : pending[e] # NoRoot => pending[e][1] \in Pools
      BY <1>1, LiveRoot DEF TypeOK
    <3> QED BY <1>1, <2>1, <3>1 DEF PendingIsLive
  <2> QED BY <2>6, <2>7, <2>8 DEF IInv
<1> QED BY <1>2, <1>3 DEF CreateNoMemory

-----------------------------------------------------------------------------
(* boxroot_delete.                                                         *)

\* What a deletion of r does to the pools: the cell is freed, and the domain of
\* the pool may move it to another of its rings outside of collections.
Releases(r) ==
  /\ \A q \in Pools \ {r[1]} : pool'[q] = pool[q]
  /\ pool'[r[1]].domain_id = pool[r[1]].domain_id
  /\ pool'[r[1]].cells = [pool[r[1]].cells EXCEPT ![r[2]] = "free"]
  /\ Live(pool'[r[1]]) = Live(pool[r[1]]) \ {r[2]}
  /\ \/ pool'[r[1]].ring = pool[r[1]].ring
     \/ /\ gc = "none" /\ pool[r[1]].ring # "current"
        /\ pool[r[1]].domain_id \in running
        /\ pool'[r[1]].ring \in {"young", "old", "free"}
  /\ pool'[r[1]].ring = "free" \/ Class(pool'[r[1]]) = Class(pool[r[1]])

LEMMA DeleteLocalPools ==
  ASSUME IInv, NEW d \in Domains, d \in running, gc = "none",
         NEW r \in Roots, r[2] \in Live(pool[r[1]]), DeleteLocal(d, r)
  PROVE  /\ pool' \in [Pools -> PoolType]
         /\ \A q \in Pools : PoolInv(pool'[q])
         /\ Releases(r)
<1> DEFINE P == pool[r[1]]
           R == bxr_free_slot(P, r[2])
           Q == IF AtThreshold(R) THEN try_demote_pool(R) ELSE R
<1>1. /\ pool' = [pool EXCEPT ![r[1]] = Q] /\ cached[d] = P.domain_id
      /\ r[1] \in Pools /\ r[2] \in Slots /\ LifeCycle /\ TypeOK
  BY LiveRoot DEF DeleteLocal, Local, IInv
<1>2. status # "TORE_DOWN"
  BY <1>1 DEF LifeCycle
<1>3. P \in PoolType /\ PoolInv(P) /\ P.ring # "unmapped" /\ PoolOK(P)
  BY <1>1, <1>2, PoolsOK, MappedWhenLive DEF PoolInv
<1>4. P.domain_id \in running
  <2>1. P.domain_id \in inited /\ inited \subseteq Domains
    BY <1>1, <1>3 DEF LifeCycle, IInv, TypeOK
  <2>2. cached[d] # NoDomain
    BY <1>1, <2>1, DomainAssumption
  <2> QED BY <1>1, <2>2 DEF LifeCycle
<1>5. /\ R \in PoolType /\ PoolInv(R) /\ R.ring = P.ring
      /\ R.domain_id = P.domain_id
      /\ R.cells = [P.cells EXCEPT ![r[2]] = "free"]
      /\ Live(R) = Live(P) \ {r[2]}
  BY <1>3, FreeSlot, FreeSlotInv
<1> HIDE DEF R
<1>6. /\ try_demote_pool(R) \in PoolType /\ PoolInv(try_demote_pool(R))
      /\ try_demote_pool(R).domain_id = R.domain_id
      /\ try_demote_pool(R).cells = R.cells
      /\ Live(try_demote_pool(R)) = Live(R)
      /\ \/ try_demote_pool(R) = R
         \/ try_demote_pool(R).ring \in {"young", "old", "free"} /\ R.ring # "current"
      /\ try_demote_pool(R).ring = "free" \/ Class(try_demote_pool(R)) = Class(R)
  BY <1>3, <1>5, Demote
<1>7. Class(R) = Class(P)
  BY <1>5 DEF Class
<1>8. /\ Q \in PoolType /\ PoolInv(Q) /\ Q.domain_id = P.domain_id
      /\ Q.cells = [P.cells EXCEPT ![r[2]] = "free"]
      /\ Live(Q) = Live(P) \ {r[2]}
      /\ \/ Q.ring = P.ring
         \/ Q.ring \in {"young", "old", "free"} /\ P.ring # "current"
      /\ Q.ring = "free" \/ Class(Q) = Class(P)
  <2>1. Q = R \/ Q = try_demote_pool(R)
    OBVIOUS
  <2> QED BY <1>5, <1>6, <1>7, <2>1
<1> HIDE DEF Q
<1>9. /\ pool'[r[1]] = Q /\ \A q \in Pools \ {r[1]} : pool'[q] = pool[q]
      /\ pool' \in [Pools -> PoolType]
  BY <1>1, <1>8 DEF TypeOK
<1>10. \A q \in Pools : PoolInv(pool'[q])
  BY <1>8, <1>9, PoolsOK
<1> QED BY <1>4, <1>8, <1>9, <1>10 DEF Releases

\* Both the deletion of a thread of another domain and that of a thread that
\* holds no domain lock, which may happen during a collection.
LEMMA DeleteAtomicPools ==
  ASSUME IInv, NEW r \in Roots, r[2] \in Live(pool[r[1]]), status # "TORE_DOWN",
         pool' = [pool EXCEPT ![r[1]] = free_slot_atomic(pool[r[1]], r[2])]
  PROVE  /\ pool' \in [Pools -> PoolType]
         /\ \A q \in Pools : PoolInv(pool'[q])
         /\ Releases(r)
<1> DEFINE P == pool[r[1]]
           Q == free_slot_atomic(P, r[2])
<1>1. r[1] \in Pools /\ r[2] \in Slots /\ TypeOK
  BY LiveRoot DEF IInv
<1>2. P \in PoolType /\ PoolInv(P) /\ P.ring # "unmapped" /\ PoolOK(P)
  BY <1>1, PoolsOK, MappedWhenLive DEF PoolInv
<1>3. /\ Q \in PoolType /\ PoolInv(Q) /\ Q.ring = P.ring
      /\ Q.domain_id = P.domain_id
      /\ Q.cells = [P.cells EXCEPT ![r[2]] = "free"]
      /\ Live(Q) = Live(P) \ {r[2]}
  BY <1>2, FreeSlotAtomic, FreeSlotInv
<1> HIDE DEF Q
<1>4. /\ pool'[r[1]] = Q /\ \A q \in Pools \ {r[1]} : pool'[q] = pool[q]
      /\ pool' \in [Pools -> PoolType]
  BY <1>1, <1>3 DEF TypeOK, Q
<1>5. \A q \in Pools : PoolInv(pool'[q])
  BY <1>3, <1>4, PoolsOK
<1>6. Class(Q) = Class(P)
  BY <1>3 DEF Class
<1> QED BY <1>3, <1>4, <1>5, <1>6 DEF Releases

\* A root r leaves its pool.
LEMMA ReleaseStep ==
  ASSUME IInv, NEW r \in Roots, r[2] \in Live(pool[r[1]]), status # "TORE_DOWN",
         UNCHANGED <<status, running, cached, warm, inited, gc, pc>>,
         pool' \in [Pools -> PoolType], \A q \in Pools : PoolInv(pool'[q]),
         Releases(r),
         pending' \in [Domains -> Roots \cup {NoRoot}],
         \A e \in Domains : \/ pending'[e] = NoRoot
                            \/ pending'[e] = pending[e] /\ pending[e] # r
  PROVE  IInv'
<1> DEFINE g == r[1]
<1>1. g \in Pools /\ r[2] \in Slots /\ TypeOK /\ LifeCycle
  BY LiveRoot DEF IInv
<1>2. pool[g] \in PoolType /\ PoolInv(pool[g]) /\ pool[g].ring # "unmapped"
  BY <1>1, PoolsOK, MappedWhenLive
<1>3. /\ \A q \in Pools \ {g} : pool'[q] = pool[q]
      /\ pool'[g].domain_id = pool[g].domain_id
      /\ pool'[g].cells = [pool[g].cells EXCEPT ![r[2]] = "free"]
      /\ Live(pool'[g]) = Live(pool[g]) \ {r[2]}
      /\ \/ pool'[g].ring = pool[g].ring
         \/ /\ gc = "none" /\ pool[g].domain_id \in running
            /\ pool'[g].ring \in {"young", "old", "free"}
  BY DEF Releases
<1>4. pool'[g].ring # "unmapped"
  BY <1>2, <1>3
<1>5. TypeOK'
  BY <1>1 DEF TypeOK
<1>6. CountsMatch' /\ YoungRootsInYoungPools'
  BY DEF CountsMatch, YoungRootsInYoungPools, PoolInv
<1>7. NoUseAfterFree'
  BY <1>3, <1>4, MappedWhenLive DEF NoUseAfterFree
<1>8. LifeCycle'
  <2>1. ASSUME NEW q \in Pools, pool'[q].ring # "unmapped"
        PROVE  /\ pool'[q].domain_id \in inited'
               /\ running' # {} /\ pool'[q].ring \notin Orphaned =>
                    pool'[q].domain_id \in running'
    <3>1. CASE q = g
      BY <1>1, <1>2, <1>3, <3>1 DEF LifeCycle
    <3>2. CASE q # g
      BY <1>1, <1>3, <2>1, <3>2 DEF LifeCycle
    <3> QED BY <3>1, <3>2
  <2>2. gc' # "none" => running' # {} /\ \A e \in Domains : pending'[e] = NoRoot
    BY <1>1 DEF LifeCycle
  <2> QED BY <1>1, <2>1, <2>2 DEF LifeCycle
<1>9. OrphansWait'
  <2>1. \A q \in Pools : pool'[q].ring \in Orphaned => pool[q].ring \in Orphaned
    BY <1>3 DEF Orphaned
  <2> QED BY <2>1 DEF IInv, OrphansWait
<1>10. \A q \in Pools : \A t \in Slots :
         pool'[q].cells[t] \in {"free", pool[q].cells[t]}
  <2>1. pool[g].cells \in [Slots -> Contents]
    BY <1>2, Fields
  <2>2. \A t \in Slots : pool'[g].cells[t] \in {"free", pool[g].cells[t]}
    BY <1>1, <1>3, <2>1
  <2> QED BY <1>3, <2>2
<1>11. ScanCovers'
  <2>1. ASSUME NEW q \in Pools, pool'[q].ring = "current", gc' # "none"
        PROVE  pc'[pool'[q].domain_id] = "enter"
    BY <1>3, <2>1 DEF IInv, ScanCovers
  <2>2. ASSUME NEW q \in Pools, HoldsUnscanned(pool[q])'
        PROVE  \/ pool'[q].ring \in Orphaned
               \/ pool'[q].ring # "unmapped" /\ pc'[pool'[q].domain_id] \in {"enter", "scan"}
    <3>1. HoldsUnscanned(pool[q]) /\ gc # "none"
      BY <1>10, <2>2 DEF HoldsUnscanned
    <3>2. pool'[q].ring = pool[q].ring /\ pool'[q].domain_id = pool[q].domain_id
      BY <1>3, <3>1
    <3> QED BY <3>1, <3>2 DEF IInv, ScanCovers
  <2>3. gc' # "major" => \A q \in Pools : \A t \in Slots : pool'[q].cells[t] # "marked"
    BY <1>10 DEF IInv, ScanCovers
  <2> QED BY <2>1, <2>2, <2>3 DEF ScanCovers
<1>12. MainCreatesFirst => NoDangling'
  BY <1>10, LiveRoot DEF IInv, NoDangling
<1>13. PendingIsLive'
  <2>1. ASSUME NEW e \in Domains, pending'[e] # NoRoot
        PROVE  /\ e \in running'
               /\ pending'[e][2] \in Live(pool'[pending'[e][1]])
               /\ \A f \in Domains \ {e} : pending'[f] # pending'[e]
    <3> DEFINE x == pending[e]
    <3>1. pending'[e] = x /\ x # r /\ x \in Roots
      BY <1>1, <2>1 DEF TypeOK
    <3>2. /\ e \in running /\ x[2] \in Live(pool[x[1]])
          /\ \A f \in Domains \ {e} : pending[f] # x
      BY <2>1, <3>1 DEF IInv, PendingIsLive
    <3>3. x[1] # g \/ x[2] # r[2]
      BY <3>1 DEF Roots
    <3>4. x[2] \in Live(pool'[x[1]])
      BY <1>3, <3>1, <3>2, <3>3, LiveRoot
    <3>5. \A f \in Domains \ {e} : pending'[f] # x
      BY <2>1, <3>1, <3>2
    <3> QED BY <3>1, <3>2, <3>4, <3>5
  <2> QED BY <2>1 DEF PendingIsLive
<1> QED BY <1>5, <1>6, <1>7, <1>8, <1>9, <1>11, <1>12, <1>13 DEF IInv

\* The pools after boxroot_delete, with and without the lock of their domain.
LEMMA DeletePools ==
  ASSUME IInv, NEW d \in Domains, d \in running, gc = "none",
         NEW r \in Roots, r[2] \in Live(pool[r[1]]),
         DeleteLocal(d, r) \/ DeleteRemote(d, r)
  PROVE  /\ status # "TORE_DOWN"
         /\ pool' \in [Pools -> PoolType]
         /\ \A q \in Pools : PoolInv(pool'[q])
         /\ Releases(r)
<1>1. status # "TORE_DOWN"
  BY DEF IInv, LifeCycle
<1>2. CASE DeleteLocal(d, r)
  BY <1>1, <1>2, DeleteLocalPools
<1>3. CASE DeleteRemote(d, r)
  BY <1>1, <1>3, DeleteAtomicPools DEF DeleteRemote
<1> QED BY <1>2, <1>3

LEMMA DeleteStep ==
  ASSUME IInv, NEW d \in Domains, NEW r \in Roots, Delete(d, r)
  PROVE  IInv'
<1>1. /\ d \in running /\ gc = "none" /\ r[2] \in Live(pool[r[1]])
      /\ UNCHANGED <<status, running, cached, warm, inited, pending, gc, pc>>
      /\ \A e \in Domains : pending[e] # r
      /\ DeleteLocal(d, r) \/ DeleteRemote(d, r)
  BY DEF Delete, CanCall, Owned
<1>2. pending' \in [Domains -> Roots \cup {NoRoot}]
  BY <1>1 DEF IInv, TypeOK
<1>3. /\ status # "TORE_DOWN" /\ pool' \in [Pools -> PoolType]
      /\ \A q \in Pools : PoolInv(pool'[q])
      /\ Releases(r)
  BY <1>1, DeletePools
<1> QED BY <1>1, <1>2, <1>3, ReleaseStep

LEMMA DeleteNoLockStep ==
  ASSUME IInv, NEW r \in Roots, DeleteNoLock(r)
  PROVE  IInv'
<1>1. /\ pending' \in [Domains -> Roots \cup {NoRoot}] /\ pending' = pending
      /\ status # "TORE_DOWN" /\ r[2] \in Live(pool[r[1]])
      /\ \A e \in Domains : pending[e] # r
      /\ UNCHANGED <<status, running, cached, warm, inited, gc, pc>>
  BY DEF DeleteNoLock, Owned, IInv, TypeOK
<1>2. /\ pool' \in [Pools -> PoolType]
      /\ \A q \in Pools : PoolInv(pool'[q])
      /\ Releases(r)
  BY <1>1, DeleteAtomicPools DEF DeleteNoLock
<1> QED BY <1>1, <1>2, ReleaseStep

-----------------------------------------------------------------------------
(* boxroot_modify.                                                         *)

LEMMA ModifyInPlaceStep ==
  ASSUME IInv, NEW d \in Domains, NEW r \in Roots, NEW v \in {"young", "old"},
         ModifyInPlace(d, r, v)
  PROVE  IInv'
<1> DEFINE P == pool[r[1]]
           Q == set_slot(P, r[2], v)
<1>1. /\ d \in running /\ gc = "none" /\ r[2] \in Live(P)
      /\ Class(P) = "YOUNG" \/ v = "old"
      /\ pool' = [pool EXCEPT ![r[1]] = Q]
      /\ UNCHANGED <<status, running, cached, warm, inited, pending, gc, pc>>
      /\ r[1] \in Pools /\ r[2] \in Slots /\ TypeOK /\ LifeCycle
  BY LiveRoot DEF ModifyInPlace, CanCall, Owned, IInv
<1>2. status # "TORE_DOWN"
  BY <1>1 DEF LifeCycle
<1>3. P \in PoolType /\ PoolInv(P) /\ P.ring # "unmapped" /\ PoolOK(P)
  BY <1>1, <1>2, PoolsOK, MappedWhenLive DEF PoolInv
<1>4. /\ Q \in PoolType /\ PoolOK(Q) /\ Q.ring = P.ring
      /\ Q.domain_id = P.domain_id
      /\ Q.cells = [P.cells EXCEPT ![r[2]] = v]
      /\ Live(Q) = Live(P)
  BY <1>1, <1>3, SetSlot, ZenonT(40)
<1> HIDE DEF Q
<1>5. P.cells \in [Slots -> Contents]
  BY <1>3, Fields
<1>6. PoolInv(Q)
  <2>1. Class(Q) = Class(P)
    BY <1>4 DEF Class
  <2>2. Class(Q) = "OLD" => \A t \in Slots : Q.cells[t] # "young"
    BY <1>1, <1>3, <1>4, <1>5, <2>1 DEF PoolInv
  <2> QED BY <1>3, <1>4, <2>2 DEF PoolInv
<1>7. /\ pool'[r[1]] = Q /\ \A q \in Pools \ {r[1]} : pool'[q] = pool[q]
      /\ pool' \in [Pools -> PoolType]
  BY <1>1, <1>4 DEF TypeOK
<1>8. \A q \in Pools : pool'[q] \in PoolType /\ PoolInv(pool'[q])
  BY <1>4, <1>6, <1>7, PoolsOK
<1>9. \A q \in Pools : \A t \in Slots :
        pool'[q].cells[t] \in {"free", "young", "old", pool[q].cells[t]}
  <2>1. \A t \in Slots : Q.cells[t] \in {"free", "young", "old", P.cells[t]}
    BY <1>4, <1>5
  <2> QED BY <1>7, <2>1
<1>10. \A q \in Pools : /\ pool'[q].ring = pool[q].ring
                        /\ pool'[q].domain_id = pool[q].domain_id
                        /\ Live(pool'[q]) = Live(pool[q])
  BY <1>4, <1>7
<1>11. \A q \in Pools : pool'[q].ring \in Orphaned =>
         (MainCreatesFirst => MainDomain \in inited')
  BY <1>1, <1>10 DEF IInv, OrphansWait
<1>12. \A q \in Pools : pool'[q].ring = "unmapped" => Live(pool'[q]) = {}
  BY <1>2, <1>10, MappedWhenLive
<1>13. /\ CountsMatch' /\ YoungRootsInYoungPools' /\ NoUseAfterFree'
       /\ OrphansWait' /\ ScanCovers'
       /\ MainCreatesFirst => NoDangling'
  BY <1>1, <1>8, <1>9, <1>11, <1>12, MutatorStep
<1>14. TypeOK'
  BY <1>1, <1>7 DEF TypeOK
<1>15. LifeCycle'
  <2>1. ASSUME NEW q \in Pools, pool'[q].ring # "unmapped"
        PROVE  /\ pool'[q].domain_id \in inited'
               /\ running' # {} /\ pool'[q].ring \notin Orphaned =>
                    pool'[q].domain_id \in running'
    BY <1>1, <1>10, <2>1 DEF LifeCycle
  <2> QED BY <1>1, <2>1 DEF LifeCycle
<1>16. PendingIsLive'
  <2>1. \A e \in Domains : pending[e] # NoRoot => pending[e][1] \in Pools
    BY <1>1, LiveRoot DEF TypeOK
  <2>2. PendingIsLive
    BY DEF IInv
  <2> QED BY <1>1, <1>10, <2>1, <2>2 DEF PendingIsLive
<1> QED BY <1>13, <1>14, <1>15, <1>16 DEF IInv

LEMMA ModifyReallocateStep ==
  ASSUME IInv, NEW d \in Domains, NEW r \in Roots, ModifyReallocate(d, r)
  PROVE  IInv'
<1>1. CanCall(d) /\ Owned(r)
  BY DEF ModifyReallocate
<1>2. CASE CreateFast(d, "young", r)
  BY <1>1, <1>2, CreateSucceedsStep
<1>3. CASE CreateSlow(d, "young", r)
  BY <1>1, <1>3, CreateSucceedsStep
<1>4. CASE CreateNoMemory(d)
  BY <1>1, <1>4, CreateNoMemoryStep
<1> QED BY <1>2, <1>3, <1>4 DEF ModifyReallocate

LEMMA ModifyDeletesOldStep ==
  ASSUME IInv, NEW d \in Domains, ModifyDeletesOld(d)
  PROVE  IInv'
<1> DEFINE r == pending[d]
<1>1. /\ r # NoRoot /\ pending' = [pending EXCEPT ![d] = NoRoot]
      /\ UNCHANGED <<status, running, cached, warm, inited, gc, pc>>
      /\ DeleteLocal(d, r) \/ DeleteRemote(d, r)
      /\ TypeOK /\ LifeCycle /\ PendingIsLive
  BY DEF ModifyDeletesOld, IInv
<1>2. /\ r \in Roots /\ d \in running /\ r[2] \in Live(pool[r[1]])
      /\ \A e \in Domains \ {d} : pending[e] # r
  BY <1>1 DEF TypeOK, PendingIsLive
<1>3. gc = "none" /\ status # "TORE_DOWN"
  BY <1>1, <1>2 DEF LifeCycle
<1>4. /\ pending' \in [Domains -> Roots \cup {NoRoot}]
      /\ \A e \in Domains : \/ pending'[e] = NoRoot
                            \/ pending'[e] = pending[e] /\ pending[e] # r
  BY <1>1, <1>2 DEF TypeOK
<1> HIDE DEF r
<1>5. /\ pool' \in [Pools -> PoolType]
      /\ \A q \in Pools : PoolInv(pool'[q])
      /\ Releases(r)
  BY <1>1, <1>2, <1>3, DeletePools
<1> QED BY <1>1, <1>2, <1>3, <1>4, <1>5, ReleaseStep

-----------------------------------------------------------------------------
(* Domains, threads and the end of the program.                            *)

\* Most of these steps leave the pools alone.
LEMMA SamePools ==
  ASSUME IInv, UNCHANGED <<status, inited, pool>>
  PROVE  /\ CountsMatch' /\ YoungRootsInYoungPools' /\ NoUseAfterFree'
         /\ MainCreatesFirst => NoDangling'
BY DEF IInv, CountsMatch, YoungRootsInYoungPools, NoUseAfterFree, NoDangling

\* Outside of collections, what concerns collections does not depend on the
\* domains that run.
LEMMA SamePoolsOutside ==
  ASSUME IInv, gc = "none", UNCHANGED <<status, inited, pool, gc, pc>>
  PROVE  OrphansWait' /\ ScanCovers'
<1>1. OrphansWait'
  BY DEF IInv, OrphansWait
<1>2. ScanCovers'
  BY DEF IInv, ScanCovers, HoldsUnscanned
<1> QED BY <1>1, <1>2

LEMMA SwitchThreadStep ==
  ASSUME IInv, NEW d \in Domains, SwitchThread(d)
  PROVE  IInv'
<1>1. /\ d \in running /\ gc = "none" /\ TypeOK /\ LifeCycle /\ PendingIsLive
      /\ \/ cached' = [cached EXCEPT ![d] = NoDomain]
         \/ d \in warm /\ cached' = [cached EXCEPT ![d] = d]
      /\ UNCHANGED <<status, running, warm, inited, pool, pending, gc, pc>>
  BY DEF SwitchThread, CanCall, IInv
<1>2. TypeOK'
  BY <1>1 DEF TypeOK
<1>3. LifeCycle'
  <2>1. \A e \in Domains : cached'[e] # NoDomain =>
          cached'[e] = e /\ e \in running \cap inited
    BY <1>1 DEF LifeCycle, TypeOK
  <2> QED BY <1>1, <2>1 DEF LifeCycle
<1>4. PendingIsLive'
  BY <1>1 DEF PendingIsLive
<1> QED BY <1>1, <1>2, <1>3, <1>4, SamePools, SamePoolsOutside DEF IInv

LEMMA SpawnStep ==
  ASSUME IInv, NEW d \in Domains, Spawn(d)
  PROVE  IInv'
<1>1. /\ MainDomain \in running /\ gc = "none" /\ running' = running \cup {d}
      /\ UNCHANGED <<status, cached, warm, inited, pool, pending, gc, pc>>
      /\ TypeOK /\ LifeCycle /\ PendingIsLive
  BY DEF Spawn, IInv
<1>2. TypeOK'
  BY <1>1 DEF TypeOK
<1>3. LifeCycle'
  BY <1>1 DEF LifeCycle
<1>4. PendingIsLive'
  BY <1>1 DEF PendingIsLive
<1> QED BY <1>1, <1>2, <1>3, <1>4, SamePools, SamePoolsOutside DEF IInv

LEMMA ShutdownStep ==
  ASSUME IInv, Shutdown
  PROVE  IInv'
<1>1. /\ gc = "none" /\ running' = {} /\ warm' = {}
      /\ \A d \in Domains : pending[d] = NoRoot
      /\ cached' = [d \in Domains |-> NoDomain]
      /\ UNCHANGED <<status, inited, pool, pending, gc, pc>>
      /\ TypeOK /\ LifeCycle
  BY DEF Shutdown, IInv
<1>2. TypeOK'
  BY <1>1 DEF TypeOK
<1>3. LifeCycle'
  BY <1>1 DEF LifeCycle
<1>4. PendingIsLive'
  BY <1>1 DEF PendingIsLive
<1> QED BY <1>1, <1>2, <1>3, <1>4, SamePools, SamePoolsOutside DEF IInv

LEMMA TeardownStep ==
  ASSUME IInv, boxroot_teardown
  PROVE  IInv'
<1>1. /\ running = {} /\ status' = "TORE_DOWN" /\ inited' = {}
      /\ pool' = [p \in Pools |-> bxr_free_pool(pool[p])]
      /\ UNCHANGED <<running, cached, warm, pending, gc, pc>>
      /\ TypeOK /\ LifeCycle /\ PendingIsLive /\ ScanCovers
  BY DEF boxroot_teardown, IInv
<1>2. gc = "none"
  BY <1>1 DEF LifeCycle
<1>3. \A p \in Pools : /\ pool'[p] \in PoolType
                       /\ pool'[p].ring = "unmapped"
                       /\ pool'[p].cells = pool[p].cells
  BY <1>1, FreePool, PoolsOK
<1>4. TypeOK'
  <2>1. pool' \in [Pools -> PoolType]
    BY <1>1, <1>3
  <2> QED BY <1>1, <2>1 DEF TypeOK
<1>5. LifeCycle'
  BY <1>1, <1>2, <1>3 DEF LifeCycle
<1>6. PendingIsLive'
  BY <1>1 DEF PendingIsLive
<1>7. CountsMatch' /\ YoungRootsInYoungPools' /\ NoUseAfterFree' /\ OrphansWait'
  BY <1>1, <1>3 DEF CountsMatch, YoungRootsInYoungPools, Class, YoungRings,
                    OldRings, NoUseAfterFree, OrphansWait, Orphaned
<1>8. ScanCovers'
  BY <1>1, <1>2, <1>3 DEF ScanCovers, HoldsUnscanned
<1>9. MainCreatesFirst => NoDangling'
  BY <1>3, LiveRoot DEF IInv, NoDangling
<1> QED BY <1>4, <1>5, <1>6, <1>7, <1>8, <1>9 DEF IInv

\* The pools of a terminating domain d are orphaned or given back.
LEMMA TerminatePools ==
  ASSUME IInv, NEW d \in Domains, Terminate(d), NEW p \in Pools
  PROVE  /\ pool'[p] \in PoolType /\ PoolInv(pool'[p])
         /\ pool'[p].cells = pool[p].cells
         /\ Live(pool'[p]) = Live(pool[p])
         /\ pool'[p].ring = "unmapped" => Live(pool'[p]) = {}
         /\ IF pool[p].ring \notin Orphaned \cup {"unmapped"} /\ pool[p].domain_id = d
            THEN \/ /\ pool'[p].ring \in Orphaned /\ pool'[p].domain_id = d
                    /\ pool[p].ring \in {"current", "young", "old"}
                    /\ Class(pool'[p]) = Class(pool[p])
                 \/ pool'[p].ring = "unmapped"
            ELSE /\ pool'[p].ring = pool[p].ring
                 /\ pool'[p].domain_id = pool[p].domain_id \/ pool[p].ring = "unmapped"
<1>1. d \in running /\ gc = "none" /\ TypeOK /\ LifeCycle
  BY DEF Terminate, CanCall, IInv
<1>2. /\ pool[p] \in PoolType /\ PoolInv(pool[p])
      /\ Live(pool[p]) # {} => pool[p].ring # "unmapped"
  <2>1. status # "TORE_DOWN"
    BY <1>1 DEF LifeCycle
  <2> QED BY <2>1, PoolsOK, MappedWhenLive
<1>3. CASE status = "RUNNING" /\ d \in inited
  <2>1. pool'[p] = orphan_pools(pool[p], d)
    BY <1>3 DEF Terminate
  <2>2. /\ pool'[p] \in PoolType /\ PoolInv(pool'[p])
        /\ pool'[p].cells = pool[p].cells /\ Live(pool'[p]) = Live(pool[p])
        /\ IF pool[p].domain_id = d /\ pool[p].ring \notin Orphaned
           THEN \/ /\ pool'[p].ring \in Orphaned /\ pool'[p].domain_id = d
                   /\ pool[p].ring \in {"current", "young", "old"}
                   /\ Class(pool'[p]) = Class(pool[p])
                \/ /\ pool'[p].ring = "unmapped"
                   /\ (Live(pool'[p]) = {} \/ pool[p].ring = "unmapped")
           ELSE pool'[p] = pool[p]
    BY <1>2, <2>1, Orphan
  <2>3. CASE pool[p].domain_id = d /\ pool[p].ring \notin Orphaned
    BY <1>2, <2>2, <2>3 DEF Orphaned
  <2>4. CASE ~ (pool[p].domain_id = d /\ pool[p].ring \notin Orphaned)
    <3>1. pool'[p] = pool[p]
      BY <2>2, <2>4
    <3>2. pool'[p].ring = "unmapped" => Live(pool'[p]) = {}
      BY <1>2, <3>1
    <3> QED BY <2>2, <2>4, <3>1, <3>2
  <2> QED BY <2>3, <2>4
<1>4. CASE ~ (status = "RUNNING" /\ d \in inited)
  <2>1. pool' = pool
    BY <1>4 DEF Terminate
  <2>2. pool[p].ring # "unmapped" => pool[p].domain_id # d
    BY <1>1, <1>4 DEF LifeCycle
  <2>3. pool'[p] = pool[p]
    BY <2>1
  <2>4. /\ pool'[p].ring = "unmapped" => Live(pool'[p]) = {}
        /\ pool'[p] \in PoolType /\ PoolInv(pool'[p])
    BY <1>2, <2>3
  <2> QED BY <2>2, <2>3, <2>4
<1> QED BY <1>3, <1>4

LEMMA TerminateStep ==
  ASSUME IInv, NEW d \in Domains, Terminate(d)
  PROVE  IInv'
<1>1. /\ d \in running /\ gc = "none" /\ pending[d] = NoRoot /\ d # MainDomain
      /\ MainCreatesFirst => MainDomain \in inited
      /\ running' = running \ {d} /\ warm' = warm \ {d}
      /\ cached' = [cached EXCEPT ![d] = NoDomain]
      /\ UNCHANGED <<status, inited, pending, gc, pc>>
      /\ TypeOK /\ LifeCycle /\ PendingIsLive
  BY DEF Terminate, CanCall, IInv
<1>2. \A p \in Pools :
        /\ pool'[p] \in PoolType /\ PoolInv(pool'[p])
        /\ pool'[p].cells = pool[p].cells
        /\ Live(pool'[p]) = Live(pool[p])
        /\ pool'[p].ring = "unmapped" => Live(pool'[p]) = {}
        /\ IF pool[p].ring \notin Orphaned \cup {"unmapped"} /\ pool[p].domain_id = d
           THEN \/ /\ pool'[p].ring \in Orphaned /\ pool'[p].domain_id = d
                   /\ pool[p].ring \in {"current", "young", "old"}
                   /\ Class(pool'[p]) = Class(pool[p])
                \/ pool'[p].ring = "unmapped"
           ELSE /\ pool'[p].ring = pool[p].ring
                /\ pool'[p].domain_id = pool[p].domain_id \/ pool[p].ring = "unmapped"
  BY TerminatePools
<1>3. ASSUME NEW p \in Pools, pool'[p].ring # "unmapped"
      PROVE  /\ pool'[p].domain_id = pool[p].domain_id
             /\ pool[p].ring # "unmapped"
             /\ \/ pool'[p].ring \in Orphaned
                \/ pool[p].domain_id # d /\ pool[p].ring \notin Orphaned
  BY <1>2, <1>3
<1>4. TypeOK'
  <2>1. pool' \in [Pools -> PoolType]
    <3>1. DOMAIN pool' = Pools /\ pool' = [p \in Pools |-> pool'[p]]
      BY <1>1 DEF Terminate, TypeOK
    <3> QED BY <1>2, <3>1
  <2> QED BY <1>1, <2>1 DEF TypeOK
<1>5. LifeCycle'
  <2>1. ASSUME NEW p \in Pools, pool'[p].ring # "unmapped"
        PROVE  /\ pool'[p].domain_id \in inited'
               /\ running' # {} /\ pool'[p].ring \notin Orphaned =>
                    pool'[p].domain_id \in running'
    BY <1>1, <1>3, <2>1 DEF LifeCycle
  <2>2. \A e \in Domains : cached'[e] # NoDomain =>
          cached'[e] = e /\ e \in running' \cap inited'
    BY <1>1 DEF LifeCycle, TypeOK
  <2> QED BY <1>1, <2>1, <2>2 DEF LifeCycle
<1>6. PendingIsLive'
  <2>1. \A e \in Domains : pending[e] # NoRoot => pending[e][1] \in Pools
    BY <1>1, LiveRoot DEF TypeOK
  <2> QED BY <1>1, <1>2, <2>1 DEF PendingIsLive
<1>7. /\ CountsMatch' /\ YoungRootsInYoungPools' /\ NoUseAfterFree'
      /\ OrphansWait' /\ ScanCovers'
      /\ MainCreatesFirst => NoDangling'
  <2>1. \A p \in Pools : pool'[p].ring \in Orphaned =>
          (MainCreatesFirst => MainDomain \in inited')
    BY <1>1
  <2>2. \A p \in Pools : \A s \in Slots :
          pool'[p].cells[s] \in {"free", "young", "old", pool[p].cells[s]}
    BY <1>2
  <2> QED BY <1>1, <1>2, <2>1, <2>2, MutatorStep
<1> QED BY <1>4, <1>5, <1>6, <1>7 DEF IInv

-----------------------------------------------------------------------------
(* Collections.                                                            *)

\* What the steps of a collection have in common: the roots stay, only what
\* they hold and the rings of the pools change.
LEMMA CollectionStep ==
  ASSUME IInv, running # {}, \A d \in Domains : pending[d] = NoRoot,
         UNCHANGED <<status, running, cached, warm, inited, pending>>,
         pool' \in [Pools -> PoolType], gc' \in {"none", "minor", "major"},
         pc' \in [Domains -> {"out", "enter", "scan", "finish", "done"}],
         \A d \in Domains : pc'[d] # "out" => gc' # "none" /\ d \in running,
         \A p \in Pools :
           /\ PoolInv(pool'[p])
           /\ pool'[p].ring = "unmapped" => Live(pool'[p]) = {}
           /\ pool'[p].ring # "unmapped" =>
                /\ pool'[p].domain_id \in inited
                /\ pool'[p].ring \notin Orphaned => pool'[p].domain_id \in running
  PROVE  /\ TypeOK' /\ CountsMatch' /\ YoungRootsInYoungPools' /\ NoUseAfterFree'
         /\ LifeCycle' /\ PendingIsLive'
<1>1. TypeOK /\ LifeCycle
  BY DEF IInv
<1>2. TypeOK'
  BY <1>1 DEF TypeOK
<1>3. CountsMatch' /\ YoungRootsInYoungPools'
  BY DEF CountsMatch, YoungRootsInYoungPools, PoolInv
<1>4. NoUseAfterFree'
  BY DEF NoUseAfterFree
<1>5. LifeCycle'
  BY <1>1 DEF LifeCycle
<1>6. PendingIsLive'
  BY DEF PendingIsLive
<1> QED BY <1>2, <1>3, <1>4, <1>5, <1>6

\* During a collection the library is there, and every root is in a pool.
LEMMA DuringCollection ==
  ASSUME IInv, NEW d \in Domains, pc[d] # "out"
  PROVE  /\ gc # "none" /\ d \in running /\ running # {} /\ status # "TORE_DOWN"
         /\ \A e \in Domains : pending[e] = NoRoot
         /\ TypeOK /\ LifeCycle
         /\ \A p \in Pools :
              /\ pool[p] \in PoolType /\ PoolInv(pool[p])
              /\ pool[p].ring = "unmapped" => Live(pool[p]) = {}
              /\ pool[p].ring # "unmapped" =>
                   /\ pool[p].domain_id \in inited
                   /\ pool[p].ring \notin Orphaned => pool[p].domain_id \in running
<1>1. LifeCycle /\ TypeOK
  BY DEF IInv
<1>2. /\ gc # "none" /\ d \in running /\ running # {} /\ status # "TORE_DOWN"
      /\ \A e \in Domains : pending[e] = NoRoot
  BY <1>1 DEF LifeCycle
<1>3. \A p \in Pools : pool[p].ring = "unmapped" => Live(pool[p]) = {}
  BY <1>2, MappedWhenLive
<1>4. \A p \in Pools : pool[p].ring # "unmapped" =>
                   /\ pool[p].domain_id \in inited
                   /\ pool[p].ring \notin Orphaned => pool[p].domain_id \in running
  BY <1>1, <1>2 DEF LifeCycle
<1> QED BY <1>1, <1>2, <1>3, <1>4, PoolsOK

\* An unscanned root is a root.
LEMMA UnscannedIsLive ==
  ASSUME NEW p \in Pools, HoldsUnscanned(pool[p])
  PROVE  Live(pool[p]) # {}
BY DEF HoldsUnscanned, Live

LEMMA StartGCStep ==
  ASSUME IInv, NEW kind \in {"minor", "major"}, StartGC(kind)
  PROVE  IInv'
<1>1. /\ gc = "none" /\ running # {} /\ gc' = kind
      /\ \A d \in Domains : pending[d] = NoRoot
      /\ pc' = [d \in Domains |-> IF d \in running THEN "enter" ELSE "out"]
      /\ UNCHANGED <<status, running, cached, warm, inited, pool, pending>>
      /\ TypeOK /\ LifeCycle
  BY DEF StartGC, IInv
<1>2. MainDomain \in running /\ status # "TORE_DOWN" /\ running \subseteq Domains
  BY <1>1 DEF LifeCycle, TypeOK
<1>3. \A p \in Pools :
        /\ pool[p] \in PoolType /\ PoolInv(pool[p])
        /\ pool[p].ring = "unmapped" => Live(pool[p]) = {}
        /\ pool[p].ring # "unmapped" =>
             /\ pool[p].domain_id \in inited
             /\ pool[p].ring \notin Orphaned => pool[p].domain_id \in running
  <2>1. \A p \in Pools : pool[p].ring = "unmapped" => Live(pool[p]) = {}
    BY <1>2, MappedWhenLive
  <2>2. \A p \in Pools : pool[p].ring # "unmapped" =>
             /\ pool[p].domain_id \in inited
             /\ pool[p].ring \notin Orphaned => pool[p].domain_id \in running
    BY <1>1 DEF LifeCycle
  <2> QED BY <2>1, <2>2, PoolsOK
<1>4. /\ TypeOK' /\ CountsMatch' /\ YoungRootsInYoungPools' /\ NoUseAfterFree'
      /\ LifeCycle' /\ PendingIsLive'
  <2>1. pool' \in [Pools -> PoolType]
    BY <1>1 DEF TypeOK
  <2>2. pc' \in [Domains -> {"out", "enter", "scan", "finish", "done"}]
    BY <1>1
  <2>3. \A d \in Domains : pc'[d] # "out" => gc' # "none" /\ d \in running
    BY <1>1
  <2> QED BY <1>1, <1>3, <2>1, <2>2, <2>3, CollectionStep
<1>5. OrphansWait'
  BY <1>1, <1>2, DomainAssumption DEF IInv, OrphansWait
<1>6. ScanCovers'
  <2>1. ASSUME NEW p \in Pools, pool'[p].ring = "current"
        PROVE  pc'[pool'[p].domain_id] = "enter"
    BY <1>1, <1>2, <1>3, <2>1 DEF Orphaned
  <2>2. ASSUME NEW p \in Pools, HoldsUnscanned(pool[p])'
        PROVE  \/ pool'[p].ring \in Orphaned
               \/ pool'[p].ring # "unmapped" /\ pc'[pool'[p].domain_id] \in {"enter", "scan"}
    <3>1. Live(pool[p]) # {}
      BY <1>1, <2>2 DEF HoldsUnscanned, Live
    <3> QED BY <1>1, <1>2, <1>3, <3>1
  <2>3. \A p \in Pools : \A s \in Slots : pool'[p].cells[s] # "marked"
    BY <1>1 DEF IInv, ScanCovers
  <2> QED BY <2>1, <2>2, <2>3 DEF ScanCovers
<1>7. MainCreatesFirst => NoDangling'
  BY <1>1 DEF IInv, NoDangling
<1> QED BY <1>4, <1>5, <1>6, <1>7 DEF IInv

\* The rings are readied for the scan and the orphans adopted.
LEMMA ScanEnterPools ==
  ASSUME NEW P \in PoolType, PoolInv(P), NEW d \in Domains
  PROVE  LET Q == adopt_orphaned_pools(
                    gc_pool_rings(move_current_to_young(P, d), d), d)
         IN /\ Q \in PoolType
            /\ PoolInv(Q)
            /\ Q.cells = P.cells
            /\ Live(Q) = Live(P)
            /\ IF P.ring \in Orphaned
               THEN Q.ring \in {"young", "old"} /\ Q.domain_id = d
               ELSE /\ Q.domain_id = P.domain_id
                    /\ \/ Q.ring = P.ring /\ (P.ring = "current" => P.domain_id # d)
                       \/ /\ P.domain_id = d
                          /\ P.ring \in {"current", "young", "old"}
                          /\ Q.ring \in {"young", "old", "free"}
            /\ Q.ring = "free" \/ Class(Q) = Class(P)
<1> DEFINE M == move_current_to_young(P, d)
           G == gc_pool_rings(M, d)
           Q == adopt_orphaned_pools(G, d)
<1>1. /\ M \in PoolType /\ PoolInv(M) /\ M.domain_id = P.domain_id
      /\ M.cells = P.cells /\ Live(M) = Live(P)
      /\ IF P.ring = "current" /\ P.domain_id = d THEN M.ring = "young" ELSE M = P
  BY RetireInv
<1> HIDE DEF M
<1>2. /\ G \in PoolType /\ PoolInv(G) /\ G.domain_id = M.domain_id
      /\ G.cells = M.cells /\ Live(G) = Live(M)
      /\ \/ G.ring = M.ring
         \/ M.ring \in {"young", "old"} /\ M.domain_id = d /\ G.ring = "free"
  BY <1>1, GcRings
<1> HIDE DEF G
<1>3. /\ Q \in PoolType /\ PoolInv(Q) /\ Q.cells = G.cells /\ Live(Q) = Live(G)
      /\ IF G.ring \in Orphaned
         THEN Q.ring \in {"young", "old"} /\ Q.domain_id = d ELSE Q = G
      /\ Class(Q) = Class(G)
  BY <1>2, Adopt
<1> HIDE DEF Q
<1>0. Q.ring = "free" \/ Class(Q) = Class(P)
  <2>1. Class(M) = Class(P)
    BY <1>1, ClassRing
  <2>2. G.ring = "free" \/ Class(G) = Class(M)
    BY <1>2 DEF Class
  <2>3. G.ring = "free" => Q = G
    BY <1>3 DEF Orphaned
  <2> QED BY <1>3, <2>1, <2>2, <2>3
<1>4. CASE P.ring = "current" /\ P.domain_id = d
  <2>1. /\ M.ring = "young" /\ G.ring \in {"young", "free"} /\ G.domain_id = d
        /\ P.ring \notin Orphaned /\ G.ring \notin Orphaned
    BY <1>1, <1>2, <1>4 DEF Orphaned
  <2>2. Q.ring \in {"young", "old", "free"} /\ Q.domain_id = P.domain_id
    BY <1>3, <1>4, <2>1
  <2> QED BY <1>0, <1>1, <1>2, <1>3, <1>4, <2>1, <2>2 DEF Q, G, M
<1>5. CASE ~ (P.ring = "current" /\ P.domain_id = d)
  <2>1. M = P
    BY <1>1, <1>5
  <2>2. CASE P.ring \in Orphaned
    <3>1. G.ring \in Orphaned
      BY <1>2, <2>1, <2>2 DEF Orphaned
    <3> QED BY <1>0, <1>2, <1>3, <2>1, <2>2, <3>1 DEF Q, G, M
  <2>3. CASE P.ring \notin Orphaned
    <3>1. G.ring \notin Orphaned
      BY <1>2, <2>1, <2>3 DEF Orphaned
    <3>2. Q = G
      BY <1>3, <3>1
    <3>3. \/ Q.ring = P.ring
          \/ P.domain_id = d /\ P.ring \in {"young", "old"} /\ Q.ring = "free"
      BY <1>2, <2>1, <3>2
    <3> QED BY <1>0, <1>2, <1>3, <1>5, <2>1, <2>3, <3>2, <3>3 DEF Q, G, M
  <2> QED BY <2>2, <2>3
<1> QED BY <1>4, <1>5

LEMMA ScanEnterStep ==
  ASSUME IInv, NEW d \in Domains, ScanEnter(d)
  PROVE  IInv'
<1>1. /\ pc[d] = "enter"
      /\ UNCHANGED <<status, running, cached, warm, inited, pending, gc>>
  BY DEF ScanEnter
<1>2. /\ gc # "none" /\ d \in running /\ running # {} /\ status # "TORE_DOWN"
      /\ \A e \in Domains : pending[e] = NoRoot
      /\ TypeOK /\ LifeCycle
      /\ \A p \in Pools :
           /\ pool[p] \in PoolType /\ PoolInv(pool[p])
           /\ pool[p].ring = "unmapped" => Live(pool[p]) = {}
           /\ pool[p].ring # "unmapped" =>
                /\ pool[p].domain_id \in inited
                /\ pool[p].ring \notin Orphaned => pool[p].domain_id \in running
  BY <1>1, DuringCollection
<1>3. gc' \in {"none", "minor", "major"} /\ inited \subseteq Domains
  BY <1>1, <1>2 DEF TypeOK
<1>4. CASE status = "RUNNING" /\ d \in inited
  <2>1. /\ pool' = [p \in Pools |-> adopt_orphaned_pools(
                      gc_pool_rings(move_current_to_young(pool[p], d), d), d)]
        /\ pc' = [pc EXCEPT ![d] = "scan"]
    BY <1>4 DEF ScanEnter
  <2>2. \A p \in Pools :
          /\ pool'[p] \in PoolType /\ PoolInv(pool'[p])
          /\ pool'[p].cells = pool[p].cells /\ Live(pool'[p]) = Live(pool[p])
          /\ IF pool[p].ring \in Orphaned
             THEN pool'[p].ring \in {"young", "old"} /\ pool'[p].domain_id = d
             ELSE /\ pool'[p].domain_id = pool[p].domain_id
                  /\ \/ /\ pool'[p].ring = pool[p].ring
                        /\ pool[p].ring = "current" => pool[p].domain_id # d
                     \/ /\ pool[p].domain_id = d
                        /\ pool[p].ring \in {"current", "young", "old"}
                        /\ pool'[p].ring \in {"young", "old", "free"}
    BY <1>2, <2>1, ScanEnterPools
  <2>3. pool' \in [Pools -> PoolType]
    BY <2>1, <2>2
  <2>4. /\ pc' \in [Domains -> {"out", "enter", "scan", "finish", "done"}]
        /\ \A e \in Domains : pc'[e] # "out" => gc' # "none" /\ e \in running
    BY <1>1, <1>2, <2>1 DEF TypeOK, LifeCycle
  <2>5. ASSUME NEW p \in Pools
        PROVE  /\ pool'[p].ring = "unmapped" => Live(pool'[p]) = {}
               /\ pool'[p].ring # "unmapped" =>
                    /\ pool'[p].domain_id \in inited
                    /\ pool'[p].ring \notin Orphaned => pool'[p].domain_id \in running
    <3>1. CASE pool[p].ring \in Orphaned
      BY <1>2, <1>4, <2>2, <3>1
    <3>2. CASE pool[p].ring \notin Orphaned
      BY <1>2, <1>4, <2>2, <3>2
    <3> QED BY <3>1, <3>2
  <2>6. /\ TypeOK' /\ CountsMatch' /\ YoungRootsInYoungPools' /\ NoUseAfterFree'
        /\ LifeCycle' /\ PendingIsLive'
    BY <1>1, <1>2, <1>3, <2>2, <2>3, <2>4, <2>5, CollectionStep
  <2>7. \A p \in Pools : pool'[p].ring \notin Orphaned
    BY <2>2 DEF Orphaned
  <2>8. OrphansWait'
    BY <2>7 DEF OrphansWait
  <2>9. ScanCovers'
    <3>1. ASSUME NEW p \in Pools, pool'[p].ring = "current"
          PROVE  pc'[pool'[p].domain_id] = "enter"
      <4>1. /\ pool[p].ring = "current" /\ pool'[p].domain_id = pool[p].domain_id
            /\ pool[p].domain_id # d
        BY <2>2, <3>1
      <4>2. pc[pool[p].domain_id] = "enter" /\ pool[p].domain_id \in Domains
        BY <1>2, <1>3, <4>1 DEF IInv, ScanCovers
      <4> QED BY <2>1, <4>1, <4>2
    <3>2. ASSUME NEW p \in Pools, HoldsUnscanned(pool[p])'
          PROVE  \/ pool'[p].ring \in Orphaned
                 \/ pool'[p].ring # "unmapped" /\ pc'[pool'[p].domain_id] \in {"enter", "scan"}
      <4>1. HoldsUnscanned(pool[p])
        BY <1>1, <2>2, <3>2 DEF HoldsUnscanned
      <4>2. pool'[p].ring # "unmapped"
        BY <1>2, <2>2, <4>1, UnscannedIsLive
      <4>3. CASE pool'[p].domain_id = d
        <5>1. pc'[d] = "scan"
          BY <1>2, <2>1 DEF TypeOK
        <5> QED BY <4>2, <4>3, <5>1
      <4>4. CASE pool'[p].domain_id # d
        <5>1. pool[p].ring \notin Orphaned /\ pool'[p].domain_id = pool[p].domain_id
          BY <2>2, <4>4
        <5>2. pool[p].ring # "unmapped" /\ pc[pool[p].domain_id] \in {"enter", "scan"}
          BY <4>1, <5>1 DEF IInv, ScanCovers
        <5>3. pool[p].domain_id \in Domains
          BY <1>2, <1>3, <5>2
        <5> QED BY <2>1, <4>2, <4>4, <5>1, <5>2, <5>3
      <4> QED BY <4>3, <4>4
    <3>3. gc' # "major" => \A p \in Pools : \A s \in Slots : pool'[p].cells[s] # "marked"
      BY <1>1, <2>2 DEF IInv, ScanCovers
    <3> QED BY <3>1, <3>2, <3>3 DEF ScanCovers
  <2>10. MainCreatesFirst => NoDangling'
    BY <2>2, LiveRoot DEF IInv, NoDangling
  <2> QED BY <2>6, <2>8, <2>9, <2>10 DEF IInv
<1>5. CASE ~ (status = "RUNNING" /\ d \in inited)
  <2>1. pool' = pool /\ pc' = [pc EXCEPT ![d] = "done"]
    BY <1>5 DEF ScanEnter
  <2>2. d \notin inited
    BY <1>2, <1>5 DEF LifeCycle
  <2>3. /\ pool' \in [Pools -> PoolType]
        /\ pc' \in [Domains -> {"out", "enter", "scan", "finish", "done"}]
        /\ \A e \in Domains : pc'[e] # "out" => gc' # "none" /\ e \in running
    BY <1>1, <1>2, <2>1 DEF TypeOK, LifeCycle
  <2>4. /\ TypeOK' /\ CountsMatch' /\ YoungRootsInYoungPools' /\ NoUseAfterFree'
        /\ LifeCycle' /\ PendingIsLive'
    BY <1>1, <1>2, <1>3, <2>1, <2>3, CollectionStep
  <2>5. OrphansWait'
    BY <1>1, <1>2, <2>1, <2>2 DEF IInv, OrphansWait, TypeOK
  <2>6. ScanCovers'
    <3>1. ASSUME NEW p \in Pools, pool'[p].ring = "current"
          PROVE  pc'[pool'[p].domain_id] = "enter"
      <4>1. pool[p].ring = "current" /\ pool[p].domain_id \in inited
        BY <1>2, <2>1, <3>1
      <4>2. pc[pool[p].domain_id] = "enter"
        BY <1>2, <4>1 DEF IInv, ScanCovers
      <4> QED BY <1>3, <2>1, <2>2, <4>1, <4>2
    <3>2. ASSUME NEW p \in Pools, HoldsUnscanned(pool[p])'
          PROVE  \/ pool'[p].ring \in Orphaned
                 \/ pool'[p].ring # "unmapped" /\ pc'[pool'[p].domain_id] \in {"enter", "scan"}
      <4>1. HoldsUnscanned(pool[p])
        BY <1>1, <2>1, <3>2 DEF HoldsUnscanned
      <4>2. \/ pool[p].ring \in Orphaned
            \/ pool[p].ring # "unmapped" /\ pc[pool[p].domain_id] \in {"enter", "scan"}
        BY <4>1 DEF IInv, ScanCovers
      <4>3. pool[p].ring # "unmapped" => pool[p].domain_id \in inited
        BY <1>2
      <4> QED BY <1>3, <2>1, <2>2, <4>2, <4>3
    <3>3. gc' # "major" => \A p \in Pools : \A s \in Slots : pool'[p].cells[s] # "marked"
      BY <1>1, <2>1 DEF IInv, ScanCovers
    <3> QED BY <3>1, <3>2, <3>3 DEF ScanCovers
  <2>7. MainCreatesFirst => NoDangling'
    BY <2>1 DEF IInv, NoDangling
  <2> QED BY <2>4, <2>5, <2>6, <2>7 DEF IInv
<1> QED BY <1>4, <1>5

\* The pools of d, once its rings are ready, are young, old or free.
LEMMA ScannedRings ==
  ASSUME IInv, NEW d \in Domains, pc[d] # "enter", gc # "none", NEW p \in Pools,
         pool[p].domain_id = d, pool[p].ring \notin Orphaned, pool[p].ring # "unmapped"
  PROVE  pool[p].ring \in {"young", "old", "free"}
<1>1. pool[p].ring \in RingNames
  BY Fields DEF IInv, TypeOK
<1>2. pool[p].ring # "current"
  BY DEF IInv, ScanCovers
<1> QED BY <1>1, <1>2 DEF RingNames, Orphaned

\* The scan of the pools of d: the young cells of its young pools after a minor
\* collection, all the cells of its pools in a major one.
YoungScan(d, p) == gc = "minor" /\ pool[p].ring = "young" /\ pool[p].domain_id = d
GenScan(d, p) == gc = "major" /\ pool[p].ring \in {"young", "old"} /\ pool[p].domain_id = d

LEMMA ScanPoolsPools ==
  ASSUME IInv, NEW d \in Domains, scan_pools(d), NEW p \in Pools
  PROVE  /\ pool'[p] \in PoolType /\ PoolInv(pool'[p])
         /\ pool'[p].ring = pool[p].ring
         /\ pool'[p].domain_id = pool[p].domain_id
         /\ Live(pool'[p]) = Live(pool[p])
         /\ \A s \in Slots : pool'[p].cells[s] =
              IF YoungScan(d, p) /\ pool[p].cells[s] = "young" THEN "old"
              ELSE IF GenScan(d, p) /\ pool[p].cells[s] = "old" THEN "marked"
              ELSE pool[p].cells[s]
<1> DEFINE Y == YoungScan(d, p)
           G == GenScan(d, p)
<1>1. pool'[p] = IF Y THEN scan_pool_young(pool[p])
                 ELSE IF G THEN scan_pool_gen(pool[p]) ELSE pool[p]
  BY DEF scan_pools, In, YoungScan, GenScan
<1>2. pool[p] \in PoolType /\ PoolInv(pool[p])
  BY PoolsOK
<1>3. ~ (Y /\ G)
  BY DEF YoungScan, GenScan
<1>4. CASE Y
  <2>1. pool'[p] = scan_pool_young(pool[p])
    BY <1>1, <1>4
  <2>2. /\ pool'[p] \in PoolType /\ PoolInv(pool'[p])
        /\ pool'[p].ring = pool[p].ring
        /\ pool'[p].domain_id = pool[p].domain_id
        /\ Live(pool'[p]) = Live(pool[p])
        /\ pool'[p].cells = [s \in Slots |-> IF pool[p].cells[s] = "young"
                                             THEN "old" ELSE pool[p].cells[s]]
    BY <1>2, <2>1, ScanYoung
  <2> QED BY <1>3, <1>4, <2>2
<1>5. CASE G
  <2>1. pool'[p] = scan_pool_gen(pool[p]) /\ pool[p].ring \in {"young", "old"}
    BY <1>1, <1>3, <1>5 DEF GenScan
  <2>2. /\ pool'[p] \in PoolType /\ PoolInv(pool'[p])
        /\ pool'[p].ring = pool[p].ring
        /\ pool'[p].domain_id = pool[p].domain_id
        /\ Live(pool'[p]) = Live(pool[p])
        /\ pool'[p].cells = [s \in Slots |-> IF pool[p].cells[s] = "old"
                                             THEN "marked" ELSE pool[p].cells[s]]
    BY <1>2, <2>1, ScanGen
  <2> QED BY <1>3, <1>5, <2>2
<1>6. CASE ~ Y /\ ~ G
  BY <1>1, <1>2, <1>6
<1> QED BY <1>4, <1>5, <1>6

LEMMA ScanPoolsStep ==
  ASSUME IInv, NEW d \in Domains, scan_pools(d)
  PROVE  IInv'
<1>1. /\ pc[d] = "scan" /\ pc' = [pc EXCEPT ![d] = "finish"]
      /\ UNCHANGED <<status, running, cached, warm, inited, pending, gc>>
  BY DEF scan_pools
<1>2. /\ gc # "none" /\ d \in running /\ running # {} /\ status # "TORE_DOWN"
      /\ \A e \in Domains : pending[e] = NoRoot
      /\ TypeOK /\ LifeCycle
      /\ \A p \in Pools :
           /\ pool[p] \in PoolType /\ PoolInv(pool[p])
           /\ pool[p].ring = "unmapped" => Live(pool[p]) = {}
           /\ pool[p].ring # "unmapped" =>
                /\ pool[p].domain_id \in inited
                /\ pool[p].ring \notin Orphaned => pool[p].domain_id \in running
  BY <1>1, DuringCollection
<1>3. gc' \in {"none", "minor", "major"} /\ inited \subseteq Domains
  BY <1>1, <1>2 DEF TypeOK
<1> DEFINE Y(p) == YoungScan(d, p)
           G(p) == GenScan(d, p)
<1>4. \A p \in Pools :
        /\ pool'[p] \in PoolType /\ PoolInv(pool'[p])
        /\ pool'[p].ring = pool[p].ring
        /\ pool'[p].domain_id = pool[p].domain_id
        /\ Live(pool'[p]) = Live(pool[p])
        /\ \A s \in Slots : pool'[p].cells[s] =
             IF Y(p) /\ pool[p].cells[s] = "young" THEN "old"
             ELSE IF G(p) /\ pool[p].cells[s] = "old" THEN "marked"
             ELSE pool[p].cells[s]
  BY ScanPoolsPools
<1>5. \A p \in Pools : ~ (Y(p) /\ G(p)) /\ (Y(p) => gc = "minor") /\ (G(p) => gc = "major")
  BY DEF YoungScan, GenScan
<1>6. \A p \in Pools : \A s \in Slots :
        /\ pool'[p].cells[s] = "dead" => pool[p].cells[s] = "dead"
        /\ pool'[p].cells[s] = "marked" /\ gc # "major" => pool[p].cells[s] = "marked"
        /\ gc = "minor" /\ pool'[p].cells[s] = "young" =>
             pool[p].cells[s] = "young" /\ ~ Y(p)
        /\ gc = "major" /\ pool'[p].cells[s] = "old" =>
             pool[p].cells[s] = "old" /\ ~ G(p)
  BY <1>4, <1>5
<1>7. /\ TypeOK' /\ CountsMatch' /\ YoungRootsInYoungPools' /\ NoUseAfterFree'
      /\ LifeCycle' /\ PendingIsLive'
  <2>1. pool' \in [Pools -> PoolType]
    <3>1. pool' = [p \in Pools |-> pool'[p]]
      BY DEF scan_pools
    <3> QED BY <1>4, <3>1
  <2>2. /\ pc' \in [Domains -> {"out", "enter", "scan", "finish", "done"}]
        /\ \A e \in Domains : pc'[e] # "out" => gc' # "none" /\ e \in running
    BY <1>1, <1>2 DEF TypeOK, LifeCycle
  <2>3. \A p \in Pools :
          /\ PoolInv(pool'[p])
          /\ pool'[p].ring = "unmapped" => Live(pool'[p]) = {}
          /\ pool'[p].ring # "unmapped" =>
               /\ pool'[p].domain_id \in inited
               /\ pool'[p].ring \notin Orphaned => pool'[p].domain_id \in running
    <3>1. \A p \in Pools :
            /\ PoolInv(pool'[p]) /\ Live(pool'[p]) = Live(pool[p])
            /\ pool'[p].ring = pool[p].ring
            /\ pool'[p].domain_id = pool[p].domain_id
      BY <1>4
    <3> QED BY <1>2, <3>1
  <2> QED BY <1>1, <1>2, <1>3, <2>1, <2>2, <2>3, CollectionStep
<1>8. OrphansWait'
  <2>1. \A p \in Pools : pool'[p].ring = pool[p].ring
    BY <1>4
  <2>2. pc[MainDomain] = "enter" => pc'[MainDomain] = "enter"
    BY <1>1, <1>2, DomainAssumption DEF TypeOK
  <2> QED BY <1>1, <2>1, <2>2 DEF IInv, OrphansWait
<1>9. ScanCovers'
  <2>0. \A e \in Domains \ {d} : pc'[e] = pc[e]
    BY <1>1, <1>2 DEF TypeOK
  <2>1. ASSUME NEW p \in Pools, pool'[p].ring = "current"
        PROVE  pc'[pool'[p].domain_id] = "enter"
    <3>1. pool[p].ring = "current" /\ pool'[p].domain_id = pool[p].domain_id
      BY <1>4, <2>1
    <3>2. pc[pool[p].domain_id] = "enter" /\ pool[p].domain_id \in Domains
      BY <1>2, <1>3, <3>1 DEF IInv, ScanCovers
    <3>3. pool[p].domain_id # d
      BY <1>1, <3>2
    <3> QED BY <2>0, <3>1, <3>2, <3>3
  <2>2. ASSUME NEW p \in Pools, HoldsUnscanned(pool[p])'
        PROVE  \/ pool'[p].ring \in Orphaned
               \/ pool'[p].ring # "unmapped" /\ pc'[pool'[p].domain_id] \in {"enter", "scan"}
    <3>1. PICK s \in Slots : \/ gc = "minor" /\ pool'[p].cells[s] = "young"
                             \/ gc = "major" /\ pool'[p].cells[s] = "old"
      BY <1>1, <2>2 DEF HoldsUnscanned
    <3>2. \/ gc = "minor" /\ pool[p].cells[s] = "young" /\ ~ Y(p)
          \/ gc = "major" /\ pool[p].cells[s] = "old" /\ ~ G(p)
      BY <1>6, <3>1
    <3>3. HoldsUnscanned(pool[p])
      BY <3>2 DEF HoldsUnscanned
    <3>4. pool'[p].ring = pool[p].ring /\ pool'[p].domain_id = pool[p].domain_id
      BY <1>4
    <3>5. \/ pool[p].ring \in Orphaned
          \/ pool[p].ring # "unmapped" /\ pc[pool[p].domain_id] \in {"enter", "scan"}
      BY <3>3 DEF IInv, ScanCovers
    <3>6. CASE pool[p].ring \notin Orphaned
      <4>1. pool[p].domain_id # d
        <5>1. SUFFICES ASSUME pool[p].domain_id = d PROVE FALSE
          OBVIOUS
        <5>2. pool[p].ring \in {"young", "old", "free"}
          BY <1>1, <1>2, <3>5, <3>6, <5>1, ScannedRings
        <5>3. pool[p].ring # "free"
          BY <1>2, <3>3, UnscannedIsLive DEF PoolInv
        <5>4. pool[p].ring = "old" => pool[p].cells[s] # "young"
          BY DEF IInv, YoungRootsInYoungPools, Class, YoungRings, OldRings
        <5> QED BY <3>2, <5>1, <5>2, <5>3, <5>4 DEF YoungScan, GenScan
      <4>2. pool[p].domain_id \in Domains
        BY <1>2, <1>3, <3>5, <3>6
      <4> QED BY <2>0, <3>4, <3>5, <3>6, <4>1, <4>2
    <3> QED BY <3>4, <3>6
  <2>3. gc' # "major" => \A p \in Pools : \A s \in Slots : pool'[p].cells[s] # "marked"
    BY <1>1, <1>6 DEF IInv, ScanCovers
  <2> QED BY <2>1, <2>2, <2>3 DEF ScanCovers
<1>10. MainCreatesFirst => NoDangling'
  BY <1>6, LiveRoot DEF IInv, NoDangling
<1> QED BY <1>7, <1>8, <1>9, <1>10 DEF IInv

LEMMA ScanFinishPools ==
  ASSUME IInv, NEW d \in Domains, ScanFinish(d), NEW p \in Pools
  PROVE  /\ pool'[p] \in PoolType /\ PoolInv(pool'[p])
         /\ pool'[p].cells = pool[p].cells /\ Live(pool'[p]) = Live(pool[p])
         /\ IF gc = "minor" /\ pool[p].ring = "young" /\ pool[p].domain_id = d
            THEN pool'[p].ring = "old" /\ pool'[p].domain_id = d
            ELSE IF gc = "major" /\ pool[p].ring = "free" /\ pool[p].domain_id = d
            THEN pool'[p].ring = "unmapped"
            ELSE pool'[p] = pool[p]
<1>1. pc[d] = "finish" /\ pool[p] \in PoolType /\ PoolInv(pool[p])
  BY PoolsOK DEF ScanFinish
<1>2. CASE gc = "minor" /\ pool[p].ring = "young" /\ pool[p].domain_id = d
  <2>1. pool'[p] = reclassify_pool(pool[p], d, "OLD")
    BY <1>2 DEF ScanFinish, In
  <2>2. /\ pool'[p] \in PoolType /\ PoolOK(pool'[p]) /\ pool'[p].ring = "old"
        /\ pool'[p].domain_id = d /\ pool'[p].cells = pool[p].cells
        /\ Live(pool'[p]) = Live(pool[p])
    BY <1>1, <1>2, <2>1, Reclassify DEF PoolInv
  <2>3. \A s \in Slots : pool[p].cells[s] # "young"
    <3>1. ~ HoldsUnscanned(pool[p])
      BY <1>1, <1>2 DEF IInv, ScanCovers, Orphaned
    <3> QED BY <1>2, <3>1 DEF HoldsUnscanned
  <2>4. PoolInv(pool'[p])
    BY <2>2, <2>3 DEF PoolInv
  <2> QED BY <1>2, <2>2, <2>4
<1>3. CASE gc = "major" /\ pool[p].ring = "free" /\ pool[p].domain_id = d
  <2>1. pool'[p] = bxr_free_pool(pool[p])
    BY <1>3 DEF ScanFinish, In
  <2>2. /\ pool'[p] \in PoolType /\ pool'[p].ring = "unmapped"
        /\ pool'[p].cells = pool[p].cells
    BY <1>1, <2>1, FreePool
  <2>3. PoolInv(pool'[p])
    BY <2>2, ClassRing DEF PoolInv
  <2> QED BY <1>3, <2>2, <2>3 DEF Live
<1>4. CASE /\ ~ (gc = "minor" /\ pool[p].ring = "young" /\ pool[p].domain_id = d)
           /\ ~ (gc = "major" /\ pool[p].ring = "free" /\ pool[p].domain_id = d)
  <2>1. pool'[p] = pool[p]
    BY <1>4 DEF ScanFinish, In
  <2> QED BY <1>1, <1>4, <2>1
<1> QED BY <1>2, <1>3, <1>4

LEMMA ScanFinishStep ==
  ASSUME IInv, NEW d \in Domains, ScanFinish(d)
  PROVE  IInv'
<1>1. /\ pc[d] = "finish" /\ pc' = [pc EXCEPT ![d] = "done"]
      /\ UNCHANGED <<status, running, cached, warm, inited, pending, gc>>
  BY DEF ScanFinish
<1>2. /\ gc # "none" /\ d \in running /\ running # {} /\ status # "TORE_DOWN"
      /\ \A e \in Domains : pending[e] = NoRoot
      /\ TypeOK /\ LifeCycle
      /\ \A p \in Pools :
           /\ pool[p] \in PoolType /\ PoolInv(pool[p])
           /\ pool[p].ring = "unmapped" => Live(pool[p]) = {}
           /\ pool[p].ring # "unmapped" =>
                /\ pool[p].domain_id \in inited
                /\ pool[p].ring \notin Orphaned => pool[p].domain_id \in running
  BY <1>1, DuringCollection
<1>3. gc' \in {"none", "minor", "major"} /\ inited \subseteq Domains
  BY <1>1, <1>2 DEF TypeOK
<1>4. \A p \in Pools :
        /\ pool'[p] \in PoolType /\ PoolInv(pool'[p])
        /\ pool'[p].cells = pool[p].cells /\ Live(pool'[p]) = Live(pool[p])
        /\ IF gc = "minor" /\ pool[p].ring = "young" /\ pool[p].domain_id = d
           THEN pool'[p].ring = "old" /\ pool'[p].domain_id = d
           ELSE IF gc = "major" /\ pool[p].ring = "free" /\ pool[p].domain_id = d
           THEN pool'[p].ring = "unmapped"
           ELSE pool'[p] = pool[p]
  BY ScanFinishPools
<1>5. /\ TypeOK' /\ CountsMatch' /\ YoungRootsInYoungPools' /\ NoUseAfterFree'
      /\ LifeCycle' /\ PendingIsLive'
  <2>1. pool' \in [Pools -> PoolType]
    <3>1. pool' = [p \in Pools |-> pool'[p]]
      BY DEF ScanFinish
    <3> QED BY <1>4, <3>1
  <2>2. /\ pc' \in [Domains -> {"out", "enter", "scan", "finish", "done"}]
        /\ \A e \in Domains : pc'[e] # "out" => gc' # "none" /\ e \in running
    BY <1>1, <1>2 DEF TypeOK, LifeCycle
  <2>3. ASSUME NEW p \in Pools
        PROVE  /\ PoolInv(pool'[p])
               /\ pool'[p].ring = "unmapped" => Live(pool'[p]) = {}
               /\ pool'[p].ring # "unmapped" =>
                    /\ pool'[p].domain_id \in inited
                    /\ pool'[p].ring \notin Orphaned => pool'[p].domain_id \in running
    <3>1. CASE pool'[p] = pool[p]
      BY <1>2, <1>4, <3>1
    <3>2. CASE /\ pool[p].ring = "young" /\ pool[p].domain_id = d
               /\ pool'[p].ring = "old" /\ pool'[p].domain_id = d
      BY <1>2, <1>4, <3>2
    <3>3. CASE pool[p].ring = "free" /\ pool'[p].ring = "unmapped"
      BY <1>2, <1>4, <3>3 DEF PoolInv
    <3> QED BY <1>4, <3>1, <3>2, <3>3
  <2> QED BY <1>1, <1>2, <1>3, <2>1, <2>2, <2>3, CollectionStep
<1>6. OrphansWait'
  <2>1. \A p \in Pools : pool'[p].ring \in Orphaned => pool[p].ring \in Orphaned
    BY <1>4 DEF Orphaned
  <2>2. pc[MainDomain] = "enter" => pc'[MainDomain] = "enter"
    BY <1>1, <1>2, DomainAssumption DEF TypeOK
  <2> QED BY <1>1, <2>1, <2>2 DEF IInv, OrphansWait
<1>7. ScanCovers'
  <2>0. \A e \in Domains \ {d} : pc'[e] = pc[e]
    BY <1>1, <1>2 DEF TypeOK
  <2>1. ASSUME NEW p \in Pools, pool'[p].ring = "current"
        PROVE  pc'[pool'[p].domain_id] = "enter"
    <3>1. pool[p].ring = "current" /\ pool'[p].domain_id = pool[p].domain_id
      BY <1>4, <2>1
    <3>2. pc[pool[p].domain_id] = "enter" /\ pool[p].domain_id \in Domains
      BY <1>2, <1>3, <3>1 DEF IInv, ScanCovers
    <3>3. pool[p].domain_id # d
      BY <1>1, <3>2
    <3> QED BY <2>0, <3>1, <3>2, <3>3
  <2>2. ASSUME NEW p \in Pools, HoldsUnscanned(pool[p])'
        PROVE  \/ pool'[p].ring \in Orphaned
               \/ pool'[p].ring # "unmapped" /\ pc'[pool'[p].domain_id] \in {"enter", "scan"}
    <3>1. HoldsUnscanned(pool[p])
      BY <1>1, <1>4, <2>2 DEF HoldsUnscanned
    <3>2. \/ pool[p].ring \in Orphaned
          \/ pool[p].ring # "unmapped" /\ pc[pool[p].domain_id] \in {"enter", "scan"}
      BY <3>1 DEF IInv, ScanCovers
    <3>3. pool[p].ring # "free"
      BY <1>2, <3>1, UnscannedIsLive DEF PoolInv
    <3>4. CASE pool[p].ring \in Orphaned
      BY <1>4, <3>4 DEF Orphaned
    <3>5. CASE pool[p].ring \notin Orphaned
      <4>1. pool[p].domain_id # d /\ pool[p].domain_id \in Domains
        BY <1>1, <1>2, <1>3, <3>2, <3>5
      <4>2. pool'[p] = pool[p]
        BY <1>4, <3>3, <4>1
      <4> QED BY <2>0, <3>2, <3>5, <4>1, <4>2
    <3> QED BY <3>4, <3>5
  <2>3. gc' # "major" => \A p \in Pools : \A s \in Slots : pool'[p].cells[s] # "marked"
    BY <1>1, <1>4 DEF IInv, ScanCovers
  <2> QED BY <2>1, <2>2, <2>3 DEF ScanCovers
<1>8. MainCreatesFirst => NoDangling'
  BY <1>4, LiveRoot DEF IInv, NoDangling
<1> QED BY <1>5, <1>6, <1>7, <1>8 DEF IInv

LEMMA EndGCPools ==
  ASSUME IInv, EndGC, NEW p \in Pools
  PROVE  /\ pool'[p] \in PoolType /\ PoolInv(pool'[p])
         /\ pool'[p].ring = pool[p].ring
         /\ pool'[p].domain_id = pool[p].domain_id
         /\ Live(pool'[p]) = Live(pool[p])
         /\ \A s \in Slots : pool'[p].cells[s] = Swept(pool[p].cells[s])
<1>1. gc # "none" /\ TypeOK /\ pool[p] \in PoolType /\ PoolInv(pool[p])
  BY PoolsOK DEF EndGC, IInv
<1> DEFINE c == [s \in Slots |-> Swept(pool[p].cells[s])]
<1>2. pool[p].cells \in [Slots -> Contents] /\ gc \in {"minor", "major"}
  BY <1>1, Fields DEF TypeOK
<1>3. ASSUME NEW s \in Slots
      PROVE  /\ Swept(pool[p].cells[s]) \in Contents
             /\ Swept(pool[p].cells[s]) = "free" <=> pool[p].cells[s] = "free"
             /\ Swept(pool[p].cells[s]) = "young" => pool[p].cells[s] = "young"
  <2>1. pool[p].cells[s] \in Contents
    BY <1>2
  <2>2. CASE gc = "minor"
    BY <2>1, <2>2 DEF Swept, Contents
  <2>3. CASE gc = "major"
    BY <2>1, <2>3 DEF Swept, Contents
  <2> QED BY <1>2, <2>2, <2>3
<1>4. /\ c \in [Slots -> Contents]
      /\ \A s \in Slots : c[s] = Swept(pool[p].cells[s])
      /\ \A s \in Slots : c[s] = "free" <=> pool[p].cells[s] = "free"
      /\ \A s \in Slots : c[s] = "young" => pool[p].cells[s] = "young"
  BY <1>3
<1>5. pool'[p] = [pool[p] EXCEPT !.cells = c]
  BY DEF EndGC
<1> HIDE DEF c
<1>6. /\ pool'[p] \in PoolType /\ (PoolOK(pool[p]) => PoolOK(pool'[p]))
      /\ pool'[p].ring = pool[p].ring /\ pool'[p].domain_id = pool[p].domain_id
      /\ pool'[p].cells = c /\ Live(pool'[p]) = Live(pool[p])
  BY <1>1, <1>4, <1>5, Recolour
<1>7. PoolInv(pool'[p])
  <2>1. Class(pool'[p]) = Class(pool[p])
    BY <1>6 DEF Class
  <2>2. Class(pool'[p]) = "OLD" => \A s \in Slots : pool'[p].cells[s] # "young"
    BY <1>1, <1>4, <1>6, <2>1 DEF PoolInv
  <2> QED BY <1>1, <1>6, <2>2 DEF PoolInv
<1> QED BY <1>4, <1>6, <1>7

LEMMA EndGCStep ==
  ASSUME IInv, EndGC
  PROVE  IInv'
<1>1. /\ gc # "none" /\ \A d \in running : pc[d] = "done"
      /\ gc' = "none" /\ pc' = [d \in Domains |-> "out"]
      /\ UNCHANGED <<status, running, cached, warm, inited, pending>>
      /\ TypeOK /\ LifeCycle
  BY DEF EndGC, IInv
<1>2. /\ running # {} /\ status # "TORE_DOWN" /\ MainDomain \in running
      /\ \A d \in Domains : pending[d] = NoRoot
  BY <1>1 DEF LifeCycle
<1>3. \A p \in Pools :
        /\ pool[p] \in PoolType /\ PoolInv(pool[p])
        /\ pool[p].ring = "unmapped" => Live(pool[p]) = {}
        /\ pool[p].ring # "unmapped" =>
             /\ pool[p].domain_id \in inited
             /\ pool[p].ring \notin Orphaned => pool[p].domain_id \in running
  <2>1. \A p \in Pools : pool[p].ring = "unmapped" => Live(pool[p]) = {}
    BY <1>2, MappedWhenLive
  <2>2. \A p \in Pools : pool[p].ring # "unmapped" =>
             /\ pool[p].domain_id \in inited
             /\ pool[p].ring \notin Orphaned => pool[p].domain_id \in running
    BY <1>1, <1>2 DEF LifeCycle
  <2> QED BY <2>1, <2>2, PoolsOK
<1>4. \A p \in Pools :
        /\ pool'[p] \in PoolType /\ PoolInv(pool'[p])
        /\ pool'[p].ring = pool[p].ring
        /\ pool'[p].domain_id = pool[p].domain_id
        /\ Live(pool'[p]) = Live(pool[p])
        /\ \A s \in Slots : pool'[p].cells[s] = Swept(pool[p].cells[s])
  BY EndGCPools
<1>5. /\ TypeOK' /\ CountsMatch' /\ YoungRootsInYoungPools' /\ NoUseAfterFree'
      /\ LifeCycle' /\ PendingIsLive'
  <2>1. pool' \in [Pools -> PoolType]
    <3>1. pool' = [p \in Pools |-> pool'[p]]
      BY DEF EndGC
    <3> QED BY <1>4, <3>1
  <2> QED BY <1>1, <1>2, <1>3, <1>4, <2>1, CollectionStep
<1>6. OrphansWait'
  BY <1>1, <1>4 DEF IInv, OrphansWait
<1>7. ScanCovers'
  <2>1. \A p \in Pools : \A s \in Slots : pool'[p].cells[s] # "marked"
    <3>1. ASSUME NEW p \in Pools, NEW s \in Slots
          PROVE  Swept(pool[p].cells[s]) # "marked"
      <4>1. gc # "major" => pool[p].cells[s] # "marked"
        BY DEF IInv, ScanCovers
      <4> QED BY <4>1 DEF Swept
    <3> QED BY <1>4, <3>1
  <2>2. \A p \in Pools : ~ HoldsUnscanned(pool[p])'
    BY <1>1 DEF HoldsUnscanned
  <2> QED BY <1>1, <2>1, <2>2 DEF ScanCovers
<1>8. MainCreatesFirst => NoDangling'
  <2>1. SUFFICES ASSUME MainCreatesFirst, NEW p \in Pools, NEW s \in Slots
                 PROVE  pool'[p].cells[s] # "dead"
    BY LiveRoot DEF NoDangling, Roots
  <2>2. pool[p].cells[s] # "dead"
    <3>1. <<p, s>> \in Roots /\ NoDangling
      BY <2>1 DEF IInv, Roots
    <3>2. pool[<<p, s>>[1]].cells[<<p, s>>[2]] # "dead"
      BY <3>1 DEF NoDangling
    <3> QED BY <3>2
  <2>3. pool[p].ring \notin Orphaned
    BY <1>1, <1>2, <2>1 DEF IInv, OrphansWait
  <2>4. ~ HoldsUnscanned(pool[p])
    BY <1>1, <1>3, <2>3 DEF IInv, ScanCovers
  <2>5. Swept(pool[p].cells[s]) # "dead"
    BY <2>2, <2>4 DEF Swept, HoldsUnscanned
  <2> QED BY <1>4, <2>5
<1> QED BY <1>5, <1>6, <1>7, <1>8 DEF IInv

-----------------------------------------------------------------------------
(* The theorems.                                                           *)

LEMMA InitInv == Init => IInv
<1> SUFFICES ASSUME Init PROVE IInv
  OBVIOUS
<1>1. \A p \in Pools : /\ pool[p] = get_empty_pool
                       /\ pool[p].ring = "unmapped" /\ pool[p] \in PoolType
                       /\ Live(pool[p]) = {}
                       /\ \A s \in Slots : pool[p].cells[s] = "free"
  BY GetEmptyPool DEF Init, get_empty_pool
<1>2. TypeOK
  BY <1>1, DomainAssumption DEF Init, TypeOK
<1>3. CountsMatch /\ YoungRootsInYoungPools /\ NoUseAfterFree
  BY <1>1 DEF CountsMatch, YoungRootsInYoungPools, NoUseAfterFree
<1>4. LifeCycle
  BY <1>1, DomainAssumption DEF Init, LifeCycle
<1>5. PendingIsLive /\ OrphansWait
  BY <1>1 DEF Init, PendingIsLive, OrphansWait, Orphaned
<1>6. ScanCovers
  BY <1>1 DEF Init, ScanCovers, HoldsUnscanned
<1>7. MainCreatesFirst => NoDangling
  BY <1>1, LiveRoot DEF NoDangling
<1> QED BY <1>2, <1>3, <1>4, <1>5, <1>6, <1>7 DEF IInv

LEMMA NextInv == IInv /\ [Next]_vars => IInv'
<1> SUFFICES ASSUME IInv, [Next]_vars PROVE IInv'
  OBVIOUS
<1>1. ASSUME NEW d \in Domains, Create(d) PROVE IInv'
  <2>1. ASSUME NEW v \in {"young", "old"}, CreateFast(d, v, NoRoot) PROVE IInv'
    BY <1>1, <2>1, CreateSucceedsStep DEF Create
  <2>2. ASSUME NEW v \in {"young", "old"}, CreateSlow(d, v, NoRoot) PROVE IInv'
    BY <1>1, <2>2, CreateSucceedsStep DEF Create
  <2>3. CASE CreateNoMemory(d)
    BY <1>1, <2>3, CreateNoMemoryStep DEF Create
  <2> QED BY <1>1, <2>1, <2>2, <2>3 DEF Create
<1>2. ASSUME NEW d \in Domains, DomainStep(d) PROVE IInv'
  BY <1>1, <1>2, DeleteStep, ModifyInPlaceStep, ModifyReallocateStep,
     ModifyDeletesOldStep, SwitchThreadStep, TerminateStep DEF DomainStep
<1>3. ASSUME NEW d \in Domains, ScanStep(d) PROVE IInv'
  BY <1>3, ScanEnterStep, ScanPoolsStep, ScanFinishStep DEF ScanStep
<1>4. CASE Next
  BY <1>2, <1>3, <1>4, SpawnStep, DeleteNoLockStep, StartGCStep, EndGCStep,
     ShutdownStep, TeardownStep DEF Next
<1>5. CASE UNCHANGED vars
  <2>1. UNCHANGED <<status, running, cached, warm, inited, pool, pending, gc, pc>>
    BY <1>5 DEF vars
  <2>2. /\ TypeOK /\ LifeCycle /\ PendingIsLive /\ OrphansWait /\ ScanCovers
    BY DEF IInv
  <2>3. TypeOK' /\ LifeCycle' /\ PendingIsLive'
    BY <2>1, <2>2 DEF TypeOK, LifeCycle, PendingIsLive
  <2>4. OrphansWait' /\ ScanCovers'
    BY <2>1, <2>2 DEF OrphansWait, ScanCovers, HoldsUnscanned
  <2> QED BY <2>1, <2>3, <2>4, SamePools DEF IInv
<1> QED BY <1>4, <1>5

LEMMA Invariance == Spec => []IInv
BY InitInv, NextInv, PTL DEF Spec

\* Every variable keeps its type.
THEOREM TypeCorrect == Spec => []TypeOK
<1>1. IInv => TypeOK
  BY DEF IInv
<1> QED BY <1>1, Invariance, PTL

\* Every cell of a mapped pool is in exactly one of three hands, and the counts
\* of the pool agree with them: scan_pool_gen may stop early, and flushing a
\* delayed free list neither loses a cell nor frees one twice.
THEOREM CountsCorrect == Spec => []CountsMatch
<1>1. IInv => CountsMatch
  BY DEF IInv
<1> QED BY <1>1, Invariance, PTL

\* The generational invariant: a minor collection that scans the young pools
\* only misses no root to a young block.
THEOREM GenerationalCorrect == Spec => []YoungRootsInYoungPools
<1>1. IInv => YoungRootsInYoungPools
  BY DEF IInv
<1> QED BY <1>1, Invariance, PTL

\* No pool is given back to the system while it holds a root.
THEOREM FreedPoolsHoldNoRoot == Spec => []NoUseAfterFree
<1>1. IInv => NoUseAfterFree
  BY DEF IInv
<1> QED BY <1>1, Invariance, PTL

\* When the initial domain has created a boxroot before any domain terminates,
\* no block is reclaimed under a live root.
THEOREM RootsKeepBlocksAlive == Spec => [](MainCreatesFirst => NoDangling)
<1>1. IInv => (MainCreatesFirst => NoDangling)
  BY DEF IInv
<1> QED BY <1>1, Invariance, PTL

-----------------------------------------------------------------------------
(* The kinds of steps.                                                     *)

\* A thread of d runs boxroot_create, or the creation inside boxroot_modify.
Calls(d) ==
  /\ gc = "none" /\ status # "TORE_DOWN" /\ status' = "RUNNING" /\ d \in running
  /\ UNCHANGED <<running, gc, pc>>

\* The creation fails: pools of d may have been retired or emptied before.
Retires(d) ==
  \A q \in Pools :
    /\ pool'[q].domain_id = pool[q].domain_id
    /\ pool'[q].cells = pool[q].cells /\ Live(pool'[q]) = Live(pool[q])
    /\ \/ pool'[q].ring = pool[q].ring
       \/ /\ pool[q].ring \in {"current", "young"} /\ pool[q].domain_id = d
          /\ pool'[q].ring \in {"young", "free"}

\* The cell of r is assigned in place.
Assigns(r, v) ==
  /\ \A q \in Pools : /\ pool'[q].ring = pool[q].ring
                      /\ pool'[q].domain_id = pool[q].domain_id
                      /\ Live(pool'[q]) = Live(pool[q])
  /\ \A q \in Pools \ {r[1]} : pool'[q] = pool[q]
  /\ pool'[r[1]].cells = [pool[r[1]].cells EXCEPT ![r[2]] = v]

Kind ==
  \/ \E d \in Domains, p \in Pools, s \in Slots, v \in {"young", "old"} :
       Calls(d) /\ Takes(d, p, s, v)
  \/ \E d \in Domains : Calls(d) /\ Retires(d)
  \/ \E r \in Roots :
       /\ r[2] \in Live(pool[r[1]]) /\ Releases(r)
       /\ status # "TORE_DOWN" /\ UNCHANGED <<status, running, gc, pc>>
  \/ \E r \in Roots, v \in {"young", "old"} :
       /\ r[2] \in Live(pool[r[1]]) /\ Assigns(r, v)
       /\ gc = "none" /\ status # "TORE_DOWN" /\ UNCHANGED <<status, running, gc, pc>>
  \/ \E d \in Domains : SwitchThread(d) \/ Spawn(d) \/ Terminate(d)
  \/ \E d \in Domains : ScanEnter(d) \/ scan_pools(d) \/ ScanFinish(d)
  \/ \E kind \in {"minor", "major"} : StartGC(kind)
  \/ EndGC \/ Shutdown \/ boxroot_teardown

LEMMA CreateKind ==
  ASSUME IInv, NEW d \in Domains, CanCall(d), NEW v \in {"young", "old"},
         NEW k, CreateFast(d, v, k) \/ CreateSlow(d, v, k)
  PROVE  Kind
<1>1. \E p \in Pools, s \in Slots : Takes(d, p, s, v)
  BY CreateFastPools, CreateSlowPools
<1>2. Calls(d)
  BY DEF Calls, CanCall, CreateFast, CreateSlow, NeedsNewPool
<1> QED BY <1>1, <1>2 DEF Kind

LEMMA NoMemoryKind ==
  ASSUME IInv, NEW d \in Domains, CanCall(d), CreateNoMemory(d)
  PROVE  Kind
<1>1. Calls(d)
  BY DEF Calls, CanCall, CreateNoMemory, NeedsNewPool
<1>2. CASE pool' = pool
  BY <1>1, <1>2 DEF Kind, Retires
<1>3. CASE pool' \in AfterRetire(d)
  <2>1. Retires(d)
    BY <1>3, AfterRetireInv DEF Retires
  <2> QED BY <1>1, <2>1 DEF Kind
<1> QED BY <1>2, <1>3 DEF CreateNoMemory

LEMMA DeleteKind ==
  ASSUME IInv, NEW d \in Domains, d \in running, gc = "none",
         NEW r \in Roots, r[2] \in Live(pool[r[1]]),
         DeleteLocal(d, r) \/ DeleteRemote(d, r),
         UNCHANGED <<status, running, gc, pc>>
  PROVE  Kind
BY DeletePools DEF Kind

LEMMA DeleteNoLockKind ==
  ASSUME IInv, NEW r \in Roots, DeleteNoLock(r)
  PROVE  Kind
BY DeleteAtomicPools DEF DeleteNoLock, Owned, Kind

LEMMA AssignKind ==
  ASSUME IInv, NEW d \in Domains, NEW r \in Roots, NEW v \in {"young", "old"},
         ModifyInPlace(d, r, v)
  PROVE  Kind
<1> DEFINE P == pool[r[1]]
<1>1. /\ d \in running /\ gc = "none" /\ r[2] \in Live(P)
      /\ pool' = [pool EXCEPT ![r[1]] = set_slot(P, r[2], v)]
      /\ UNCHANGED <<status, running, gc, pc>>
      /\ r[1] \in Pools /\ TypeOK /\ LifeCycle
  BY LiveRoot DEF ModifyInPlace, CanCall, Owned, IInv
<1>2. P \in PoolType /\ pool \in [Pools -> PoolType] /\ status # "TORE_DOWN"
  BY <1>1 DEF TypeOK, LifeCycle
<1>3. /\ set_slot(P, r[2], v).ring = P.ring
      /\ set_slot(P, r[2], v).domain_id = P.domain_id
      /\ set_slot(P, r[2], v).cells = [P.cells EXCEPT ![r[2]] = v]
      /\ Live(set_slot(P, r[2], v)) = Live(P)
  <2>1. /\ set_slot(P, r[2], v).ring = P.ring
        /\ set_slot(P, r[2], v).domain_id = P.domain_id
        /\ set_slot(P, r[2], v).cells = [P.cells EXCEPT ![r[2]] = v]
    BY <1>2 DEF set_slot, PoolType
  <2>2. Live(set_slot(P, r[2], v)) = Live(P)
    <3>1. P \in PoolType /\ r[2] \in Live(P) /\ v \in {"young", "old"}
      BY <1>1, <1>2
    <3> QED BY <3>1, SetSlot, Zenon
  <2> QED BY <2>1, <2>2
<1>4. Assigns(r, v)
  BY <1>1, <1>2, <1>3 DEF Assigns
<1> QED BY <1>1, <1>2, <1>4 DEF Kind

LEMMA EveryStepHasAKind == ASSUME IInv, Next PROVE Kind
<1>1. ASSUME NEW d \in Domains, Create(d) PROVE Kind
  BY <1>1, CreateKind, NoMemoryKind DEF Create
<1>2. ASSUME NEW d \in Domains, NEW r \in Roots, Delete(d, r) PROVE Kind
  BY <1>2, DeleteKind DEF Delete, CanCall, Owned
<1>3. ASSUME NEW d \in Domains, NEW r \in Roots, ModifyReallocate(d, r) PROVE Kind
  BY <1>3, CreateKind, NoMemoryKind DEF ModifyReallocate
<1>4. ASSUME NEW d \in Domains, ModifyDeletesOld(d) PROVE Kind
  <2>1. /\ pending[d] \in Roots /\ d \in running
        /\ pending[d][2] \in Live(pool[pending[d][1]])
        /\ DeleteLocal(d, pending[d]) \/ DeleteRemote(d, pending[d])
        /\ UNCHANGED <<status, running, gc, pc>>
    BY <1>4 DEF ModifyDeletesOld, IInv, TypeOK, PendingIsLive
  <2>2. gc = "none"
    BY <1>4 DEF ModifyDeletesOld, IInv, LifeCycle
  <2> QED BY <2>1, <2>2, DeleteKind
<1>5. ASSUME NEW d \in Domains, DomainStep(d) PROVE Kind
  <2>1. CASE SwitchThread(d) \/ Terminate(d)
    BY <2>1 DEF Kind
  <2> QED BY <1>1, <1>2, <1>3, <1>4, <1>5, <2>1, AssignKind DEF DomainStep
<1>6. ASSUME NEW d \in Domains, ScanStep(d) \/ Spawn(d) PROVE Kind
  BY <1>6 DEF Kind, ScanStep
<1>7. CASE (\E kind \in {"minor", "major"} : StartGC(kind)) \/ EndGC \/ Shutdown
             \/ boxroot_teardown
  BY <1>7 DEF Kind
<1> QED BY <1>5, <1>6, <1>7, DeleteNoLockKind DEF Next

-----------------------------------------------------------------------------
(* Pools grow old in minor collections only.                               *)

LEMMA PromotedByMinor ==
  ASSUME IInv, Kind, NEW p \in Pools,
         Class(pool[p]) = "YOUNG", Class(pool'[p]) = "OLD"
  PROVE  gc = "minor"
<1>1. pool[p] \in PoolType /\ PoolInv(pool[p])
  BY PoolsOK
<1>2. /\ pool[p].ring \in {"current", "young", "orphan_young"}
      /\ pool'[p].ring \in {"old", "orphan_old"}
  BY <1>1, Fields DEF Class, RingNames, YoungRings, OldRings
<1>3. CASE \E d \in Domains, q \in Pools, s \in Slots, v \in {"young", "old"} :
             Calls(d) /\ Takes(d, q, s, v)
  BY <1>2, <1>3 DEF Takes
<1>4. CASE \E d \in Domains : Calls(d) /\ Retires(d)
  BY <1>2, <1>4 DEF Retires
<1>5. CASE \E r \in Roots : Releases(r)
  BY <1>2, <1>5 DEF Releases
<1>6. CASE \E r \in Roots, v \in {"young", "old"} : Assigns(r, v)
  BY <1>2, <1>6 DEF Assigns
<1>7. ASSUME NEW d \in Domains, Terminate(d) PROVE FALSE
  BY <1>2, <1>7, TerminatePools
<1>8. ASSUME NEW d \in Domains, ScanEnter(d) PROVE FALSE
  BY <1>1, <1>2, <1>8, ScanEnterPools DEF ScanEnter
<1>9. ASSUME NEW d \in Domains, scan_pools(d) PROVE FALSE
  BY <1>2, <1>9, ScanPoolsPools
<1>10. ASSUME NEW d \in Domains, ScanFinish(d) PROVE gc = "minor"
  BY <1>2, <1>10, ScanFinishPools
<1>11. CASE EndGC
  BY <1>2, <1>11, EndGCPools
<1>12. CASE boxroot_teardown
  <2>1. pool'[p].ring = "unmapped"
    BY <1>1, <1>12, FreePool DEF boxroot_teardown
  <2> QED BY <1>2, <2>1
<1>13. CASE pool' = pool
  BY <1>2, <1>13
<1> QED
  BY <1>3, <1>4, <1>5, <1>6, <1>7, <1>8, <1>9, <1>10, <1>11, <1>12, <1>13
  DEF Kind, SwitchThread, Spawn, StartGC, Shutdown

\* boxroot_modify reallocates at most once between two minor collections: a
\* pool with roots leaves the class YOUNG for the class OLD only when a minor
\* collection promotes it, whichever domains retire, empty, orphan, adopt and
\* reuse pools.
THEOREM ModifyReallocatesOnce == Spec => YoungUntilPromoted
<1>1. IInv /\ [Next]_vars =>
        [\A p \in Pools : Class(pool[p]) = "YOUNG" /\ Class(pool'[p]) = "OLD"
                            => gc = "minor"]_vars
  BY EveryStepHasAKind, PromotedByMinor DEF vars
<1> QED BY <1>1, Invariance, PTL DEF Spec, YoungUntilPromoted

-----------------------------------------------------------------------------
(* The table of roots.                                                     *)

\* What the users see of a root while the library is there.
LEMMA SeenIs ==
  ASSUME IInv, MainCreatesFirst, status # "TORE_DOWN", NEW r \in Roots
  PROVE  /\ Seen(r) = IF pool[r[1]].cells[r[2]] = "marked" THEN "old"
                      ELSE pool[r[1]].cells[r[2]]
         /\ pool[r[1]].cells[r[2]] \in {"free", "young", "old", "marked"}
         /\ Seen(r) = "free" <=> r[2] \notin Live(pool[r[1]])
<1>1. /\ r[1] \in Pools /\ r[2] \in Slots /\ NoDangling
      /\ pool[r[1]].cells \in [Slots -> Contents]
  BY LiveRoot, Fields DEF IInv, TypeOK
<1>2. pool[r[1]].cells[r[2]] \in {"free", "young", "old", "marked"}
  BY <1>1 DEF Contents, NoDangling
<1>3. pool[r[1]].cells[r[2]] # "free" <=> r[2] \in Live(pool[r[1]])
  BY <1>1 DEF Live
<1>4. pool[r[1]].cells[r[2]] # "free" => pool[r[1]].ring # "unmapped"
  BY <1>1, <1>3, MappedWhenLive
<1> QED BY <1>2, <1>3, <1>4 DEF Seen

\* The same in the next state: Seen(r)' spelled out.
LEMMA SeenNext ==
  ASSUME IInv', MainCreatesFirst, status' # "TORE_DOWN", NEW r \in Roots
  PROVE  /\ Seen(r)' = IF pool'[r[1]].cells[r[2]] = "marked" THEN "old"
                       ELSE pool'[r[1]].cells[r[2]]
         /\ pool'[r[1]].cells[r[2]] \in {"free", "young", "old", "marked"}
<1>1. /\ r[1] \in Pools /\ r[2] \in Slots /\ NoDangling' /\ NoUseAfterFree'
      /\ pool'[r[1]].cells \in [Slots -> Contents]
  BY LiveRoot, Fields DEF IInv, TypeOK
<1>2. pool'[r[1]].cells[r[2]] \in {"free", "young", "old", "marked"}
  BY <1>1 DEF Contents, NoDangling
<1>3. pool'[r[1]].cells[r[2]] # "free" => pool'[r[1]].ring # "unmapped"
  BY <1>1 DEF Live, NoUseAfterFree
<1> QED BY <1>2, <1>3 DEF Seen

\* A step that changes what the users see of one root, or of none.
LEMMA TableSet ==
  ASSUME NEW x \in Roots, NEW c \in {"free", "young", "old"}, gc' = gc,
         \A r \in Roots : Seen(r)' = IF r = x THEN c ELSE Seen(r),
         IF c = "free" THEN Seen(x) # "free" ELSE gc = "none"
  PROVE  Table!TableNext
<1>1. [r \in Roots |-> Seen(r)]' = [[r \in Roots |-> Seen(r)] EXCEPT ![x] = c]
  OBVIOUS
<1>2. CASE c = "free"
  BY <1>1, <1>2 DEF Table!TableNext, Table!DeleteRoot
<1>3. CASE c # "free" /\ Seen(x) = "free"
  BY <1>1, <1>3 DEF Table!TableNext, Table!CreateRoot, Table!Ages
<1>4. CASE c # "free" /\ Seen(x) # "free"
  BY <1>1, <1>4 DEF Table!TableNext, Table!ModifyRoot, Table!Ages
<1> QED BY <1>2, <1>3, <1>4

LEMMA TableSame ==
  ASSUME gc' = gc, \A r \in Roots : Seen(r)' = Seen(r)
  PROVE  UNCHANGED Table!tableVars
BY DEF Table!tableVars

LEMMA CreationIsCreateRoot ==
  ASSUME IInv, IInv', MainCreatesFirst, NEW d \in Domains, NEW p \in Pools,
         NEW s \in Slots, NEW v \in {"young", "old"}, Calls(d), Takes(d, p, s, v)
  PROVE  Table!TableNext
<1> DEFINE x == <<p, s>>
<1>1. x \in Roots /\ x[1] = p /\ x[2] = s
  BY DEF Roots
<1>2. gc = "none" /\ gc' = gc /\ status # "TORE_DOWN" /\ status' # "TORE_DOWN"
  BY DEF Calls
<1>3. Seen(x) = "free"
  BY <1>1, <1>2, SeenIs DEF Takes
<1>4. ASSUME NEW r \in Roots
      PROVE  Seen(r)' = IF r = x THEN v ELSE Seen(r)
  <2>1. r[1] \in Pools /\ r[2] \in Slots /\ (r = x <=> r[1] = p /\ r[2] = s)
    BY LiveRoot DEF Roots
  <2>2. pool'[r[1]].cells[r[2]] = IF r = x THEN v ELSE pool[r[1]].cells[r[2]]
    BY <2>1 DEF Takes
  <2> QED BY <1>2, <2>2, SeenIs, SeenNext
<1> HIDE DEF x
<1> QED BY <1>1, <1>2, <1>4, TableSet

LEMMA ReleaseIsDeleteRoot ==
  ASSUME IInv, IInv', MainCreatesFirst, NEW x \in Roots,
         x[2] \in Live(pool[x[1]]), Releases(x),
         status # "TORE_DOWN", UNCHANGED <<status, gc>>
  PROVE  Table!TableNext
<1>1. Seen(x) # "free"
  BY SeenIs
<1>2. ASSUME NEW r \in Roots
      PROVE  Seen(r)' = IF r = x THEN "free" ELSE Seen(r)
  <2>1. /\ r[1] \in Pools /\ r[2] \in Slots /\ x[1] \in Pools
        /\ pool[x[1]].cells \in [Slots -> Contents]
        /\ r = x <=> r[1] = x[1] /\ r[2] = x[2]
    BY LiveRoot, PoolsOK, Fields DEF Roots
  <2>2. pool'[r[1]].cells[r[2]] = IF r = x THEN "free" ELSE pool[r[1]].cells[r[2]]
    BY <2>1 DEF Releases
  <2> QED BY <2>2, SeenIs, SeenNext
<1> QED BY <1>1, <1>2, TableSet

LEMMA AssignmentIsModifyRoot ==
  ASSUME IInv, IInv', MainCreatesFirst, NEW x \in Roots, NEW v \in {"young", "old"},
         x[2] \in Live(pool[x[1]]), Assigns(x, v),
         gc = "none", status # "TORE_DOWN", UNCHANGED <<status, gc>>
  PROVE  Table!TableNext
<1>1. ASSUME NEW r \in Roots
      PROVE  Seen(r)' = IF r = x THEN v ELSE Seen(r)
  <2>1. /\ r[1] \in Pools /\ r[2] \in Slots /\ x[1] \in Pools
        /\ pool[x[1]].cells \in [Slots -> Contents]
        /\ r = x <=> r[1] = x[1] /\ r[2] = x[2]
    BY LiveRoot, PoolsOK, Fields DEF Roots
  <2>2. pool'[r[1]].cells[r[2]] = IF r = x THEN v ELSE pool[r[1]].cells[r[2]]
    BY <2>1 DEF Assigns
  <2> QED BY <2>2, SeenIs, SeenNext
<1> QED BY <1>1, TableSet

\* The scan of a minor collection promotes, that of a major one is invisible.
LEMMA ScanIsPromote ==
  ASSUME IInv, IInv', MainCreatesFirst, NEW d \in Domains, scan_pools(d)
  PROVE  [Table!TableNext]_(Table!tableVars)
<1>1. /\ pc[d] # "out" /\ UNCHANGED <<status, gc>>
  BY DEF scan_pools
<1>2. /\ gc # "none" /\ gc \in {"minor", "major"}
      /\ status # "TORE_DOWN" /\ status' # "TORE_DOWN"
  BY <1>1, DuringCollection DEF TypeOK
<1>3. ASSUME NEW r \in Roots
      PROVE  pool'[r[1]].cells[r[2]] =
               IF YoungScan(d, r[1]) /\ pool[r[1]].cells[r[2]] = "young" THEN "old"
               ELSE IF GenScan(d, r[1]) /\ pool[r[1]].cells[r[2]] = "old" THEN "marked"
               ELSE pool[r[1]].cells[r[2]]
  BY ScanPoolsPools, LiveRoot
<1>4. ASSUME NEW r \in Roots
      PROVE  /\ Seen(r) \in {"free", "young", "old"}
             /\ Seen(r)' = IF YoungScan(d, r[1]) /\ Seen(r) = "young" THEN "old"
                           ELSE Seen(r)
  <2>1. Seen(r) = IF pool[r[1]].cells[r[2]] = "marked" THEN "old"
                  ELSE pool[r[1]].cells[r[2]]
    BY <1>2, SeenIs
  <2>2. Seen(r)' = IF pool'[r[1]].cells[r[2]] = "marked" THEN "old"
                   ELSE pool'[r[1]].cells[r[2]]
    BY <1>2, SeenNext
  <2>3. pool[r[1]].cells[r[2]] \in {"free", "young", "old", "marked"}
    BY <1>2, SeenIs
  <2> QED BY <1>3, <2>1, <2>2, <2>3
<1>5. CASE gc = "major"
  <2>1. \A r \in Roots : Seen(r)' = Seen(r)
    BY <1>4, <1>5 DEF YoungScan
  <2> QED BY <1>1, <2>1, TableSame
<1>6. CASE gc = "minor"
  <2>1. [r \in Roots |-> Seen(r)]' \in [Roots -> {"young", "old"} \cup {"free"}]
    BY <1>4
  <2>2. \A r \in Roots : [q \in Roots |-> Seen(q)]'[r] # [q \in Roots |-> Seen(q)][r] =>
          /\ [q \in Roots |-> Seen(q)][r] = "young"
          /\ [q \in Roots |-> Seen(q)]'[r] = "old"
    BY <1>4
  <2> QED BY <1>1, <1>6, <2>1, <2>2 DEF Table!TableNext, Table!Promote, Table!Ages
<1> QED BY <1>2, <1>5, <1>6

\* A collection ends with every young value promoted, and loses none.
LEMMA EndGCIsEndCollection ==
  ASSUME IInv, IInv', MainCreatesFirst, EndGC
  PROVE  Table!TableNext
<1>1. /\ gc # "none" /\ gc' = "none" /\ status' = status
      /\ \A e \in running : pc[e] = "done"
      /\ TypeOK /\ LifeCycle
  BY DEF EndGC, IInv
<1>2. MainDomain \in running /\ status # "TORE_DOWN" /\ gc \in {"minor", "major"}
  BY <1>1 DEF LifeCycle, TypeOK
<1>3. ASSUME NEW p \in Pools
      PROVE  ~ HoldsUnscanned(pool[p])
  <2>1. pool[p].ring \notin Orphaned
    BY <1>1, <1>2 DEF IInv, OrphansWait
  <2>2. pool[p].ring # "unmapped" => pool[p].domain_id \in running
    BY <1>1, <1>2, <2>1 DEF LifeCycle
  <2> QED BY <1>1, <2>1, <2>2 DEF IInv, ScanCovers
<1>4. ASSUME NEW r \in Roots
      PROVE  /\ Seen(r)' = Seen(r)
             /\ gc = "minor" => Seen(r) # "young"
  <2>1. r[1] \in Pools /\ r[2] \in Slots
    BY LiveRoot
  <2>2. /\ gc = "minor" => pool[r[1]].cells[r[2]] # "young"
        /\ gc = "major" => pool[r[1]].cells[r[2]] # "old"
    BY <1>3, <2>1 DEF HoldsUnscanned
  <2>3. /\ pool'[r[1]].cells[r[2]] = Swept(pool[r[1]].cells[r[2]])
        /\ gc # "major" => pool[r[1]].cells[r[2]] # "marked"
    BY <2>1, EndGCPools DEF IInv, ScanCovers
  <2>4. pool'[r[1]].cells[r[2]] = IF pool[r[1]].cells[r[2]] = "marked" THEN "old"
                                  ELSE pool[r[1]].cells[r[2]]
    BY <1>2, <2>2, <2>3 DEF Swept
  <2>5. /\ Seen(r) = IF pool[r[1]].cells[r[2]] = "marked" THEN "old"
                     ELSE pool[r[1]].cells[r[2]]
        /\ Seen(r)' = IF pool'[r[1]].cells[r[2]] = "marked" THEN "old"
                      ELSE pool'[r[1]].cells[r[2]]
    BY <1>1, <1>2, SeenIs, SeenNext
  <2> QED BY <2>2, <2>3, <2>4, <2>5
<1> QED BY <1>1, <1>4 DEF Table!TableNext, Table!EndCollection

\* The other steps do not touch what the roots hold.
LEMMA SameCellsSameTable ==
  ASSUME IInv, IInv', MainCreatesFirst, UNCHANGED <<status, gc>>,
         status # "TORE_DOWN",
         \A p \in Pools : pool'[p].cells = pool[p].cells
  PROVE  UNCHANGED Table!tableVars
<1>1. ASSUME NEW r \in Roots PROVE Seen(r)' = Seen(r)
  BY LiveRoot, SeenIs, SeenNext
<1> QED BY <1>1, TableSame

LEMMA TableStep ==
  ASSUME IInv, IInv', MainCreatesFirst, Kind
  PROVE  [Table!TableNext]_(Table!tableVars)
<1>1. CASE \E d \in Domains, p \in Pools, s \in Slots, v \in {"young", "old"} :
             Calls(d) /\ Takes(d, p, s, v)
  BY <1>1, CreationIsCreateRoot
<1>2. CASE \E d \in Domains : Calls(d) /\ Retires(d)
  <2>1. /\ gc' = gc /\ status # "TORE_DOWN" /\ status' # "TORE_DOWN"
        /\ \A p \in Pools : pool'[p].cells = pool[p].cells
    BY <1>2 DEF Calls, Retires
  <2>2. ASSUME NEW r \in Roots PROVE Seen(r)' = Seen(r)
    BY <2>1, LiveRoot, SeenIs, SeenNext
  <2> QED BY <2>1, <2>2, TableSame
<1>3. CASE \E r \in Roots : /\ r[2] \in Live(pool[r[1]]) /\ Releases(r)
                            /\ status # "TORE_DOWN"
                            /\ UNCHANGED <<status, running, gc, pc>>
  BY <1>3, ReleaseIsDeleteRoot
<1>4. CASE \E r \in Roots, v \in {"young", "old"} :
             /\ r[2] \in Live(pool[r[1]]) /\ Assigns(r, v)
             /\ gc = "none" /\ status # "TORE_DOWN"
             /\ UNCHANGED <<status, running, gc, pc>>
  BY <1>4, AssignmentIsModifyRoot
<1>5. ASSUME UNCHANGED <<status, gc, pool>>
      PROVE  UNCHANGED Table!tableVars
  BY <1>5 DEF Seen, Table!tableVars
<1>6. ASSUME NEW d \in Domains, Terminate(d)
      PROVE  UNCHANGED Table!tableVars
  <2>1. UNCHANGED <<status, gc>> /\ status # "TORE_DOWN"
    BY <1>6 DEF Terminate, CanCall, IInv, LifeCycle
  <2> QED BY <1>6, <2>1, TerminatePools, SameCellsSameTable
<1>7. ASSUME NEW d \in Domains, ScanEnter(d)
      PROVE  UNCHANGED Table!tableVars
  <2>1. UNCHANGED <<status, gc>> /\ status # "TORE_DOWN"
    BY <1>7, DuringCollection DEF ScanEnter
  <2>2. \A p \in Pools : pool'[p].cells = pool[p].cells
    BY <1>7, ScanEnterPools, PoolsOK DEF ScanEnter
  <2> QED BY <2>1, <2>2, SameCellsSameTable
<1>8. ASSUME NEW d \in Domains, ScanFinish(d)
      PROVE  UNCHANGED Table!tableVars
  <2>1. UNCHANGED <<status, gc>> /\ status # "TORE_DOWN"
    BY <1>8, DuringCollection DEF ScanFinish
  <2> QED BY <1>8, <2>1, ScanFinishPools, SameCellsSameTable
<1>9. ASSUME NEW kind \in {"minor", "major"}, StartGC(kind)
      PROVE  Table!TableNext
  <2>1. [r \in Roots |-> Seen(r)]' = [r \in Roots |-> Seen(r)]
    BY <1>9 DEF StartGC, Seen
  <2> QED BY <1>9, <2>1 DEF StartGC, Table!TableNext, Table!BeginCollection
<1>10. CASE boxroot_teardown
  <2>1. gc = "none" /\ gc' = gc /\ status' = "TORE_DOWN"
    BY <1>10 DEF boxroot_teardown, IInv, LifeCycle
  <2>2. [r \in Roots |-> Seen(r)]' = [r \in Roots |-> "free"]
    BY <2>1 DEF Seen
  <2> QED BY <2>1, <2>2 DEF Table!TableNext, Table!Release
<1> QED
  BY <1>1, <1>2, <1>3, <1>4, <1>5, <1>6, <1>7, <1>8, <1>9, <1>10,
     ScanIsPromote, EndGCIsEndCollection
  DEF Kind, SwitchThread, Spawn, Shutdown

\* The pool allocator implements the table of GC roots of boxroot.h, provided
\* the initial domain has created a boxroot before any domain terminates:
\* whatever the domains do, each step creates, modifies, promotes or deletes
\* one root as the API says, or is invisible; no root is lost and no block is
\* reclaimed under a root.
THEOREM ImplementsTable == ASSUME MainCreatesFirst PROVE Spec => ImplementsRootTable
<1>1. Init => Table!TableInit
  <2>1. Init => \A r \in Roots : Seen(r) = "free"
    BY LiveRoot DEF Init, Seen, get_empty_pool
  <2> QED BY <2>1 DEF Init, Table!TableInit
<1>2. IInv /\ IInv' /\ [Next]_vars => [Table!TableNext]_(Table!tableVars)
  <2>1. CASE Next
    BY <2>1, EveryStepHasAKind, TableStep
  <2>2. CASE UNCHANGED vars
    BY <2>2 DEF vars, Seen, Table!tableVars
  <2> QED BY <2>1, <2>2
<1> QED
  BY <1>1, <1>2, Invariance, PTL DEF Spec, Table!TableSpec, ImplementsRootTable

-----------------------------------------------------------------------------
(* The life of the pools: three more invariants.                           *)

\* A domain has one current pool at most.
OneCurrent ==
  \A p, q \in Pools :
    /\ pool[p].ring = "current" /\ pool[q].ring = "current"
    /\ pool[p].domain_id = pool[q].domain_id
    => p = q

\* When ids are not reused early, no running domain has the id of an orphan.
OrphanIds ==
  ~ EarlyIdReuse =>
    \A p \in Pools : pool[p].ring \in Orphaned => pool[p].domain_id \notin running

\* A domain that has run its scanning callback is left without young pools by
\* a minor collection, without free ones by a major one.
ScanDone ==
  \A p \in Pools :
    /\ pool[p].ring \notin Orphaned \cup {"unmapped"} /\ gc # "none"
    /\ pc[pool[p].domain_id] = "done"
    => pool[p].ring # IF gc = "minor" THEN "young" ELSE "free"

LifeInv == OneCurrent /\ OrphanIds /\ ScanDone

\* Every pool is mapped by the system or not, and has an owner or not.
LEMMA PoolFacts ==
  ASSUME IInv
  PROVE  \A p \in Pools :
           /\ pool[p].ring \in RingNames /\ pool[p].domain_id \in Domains \cup {NoDomain}
           /\ pool[p].ring # "unmapped" => pool[p].domain_id \in Domains
           /\ pool[p].ring = "free" => Live(pool[p]) = {}
<1>1. \A p \in Pools : pool[p] \in PoolType /\ PoolInv(pool[p])
  BY PoolsOK
<1>2. \A p \in Pools : pool[p].ring # "unmapped" => pool[p].domain_id \in Domains
  BY DEF IInv, LifeCycle, TypeOK
<1> QED BY <1>1, <1>2, Fields DEF PoolInv

LEMMA CreationIsLifeCreate ==
  ASSUME IInv, IInv', LifeInv, NEW d \in Domains, NEW p \in Pools,
         NEW s \in Slots, NEW v \in {"young", "old"}, Calls(d), Takes(d, p, s, v)
  PROVE  LifeInv' /\ Life!LifeNext
<1>1. gc = "none" /\ gc' = gc /\ status # "TORE_DOWN" /\ status' # "TORE_DOWN"
      /\ running' = running
  BY DEF Calls
<1>2. OneCurrent'
  BY DEF LifeInv, OneCurrent, Takes
<1>3. OrphanIds'
  BY <1>1 DEF LifeInv, OrphanIds, Takes, Orphaned
<1>4. ScanDone'
  BY <1>1 DEF ScanDone
<1>5. \A q \in Pools :
        \/ Life!Stays(q) \/ Life!Retire(q, d) \/ Life!Empty(q, d)
        \/ Life!Reuse(q, d) \/ Life!Map(q, d)
  <2>1. \A q \in Pools : pool'[q].ring = "free" => Live(pool'[q]) = {}
    BY DEF IInv, YoungRootsInYoungPools
  <2> QED BY <2>1 DEF Life!Stays, Life!Retire, Life!Empty, Life!Reuse, Life!Map,
                      Life!Moves, Takes, Orphaned
<1>6. {q \in Pools : status # "TORE_DOWN" /\ Live(pool[q]) # {}}
        \subseteq {q \in Pools : status # "TORE_DOWN" /\ Live(pool[q]) # {}}'
  BY <1>1 DEF Takes
<1>7. \A q \in {q \in Pools : status # "TORE_DOWN" /\ Live(pool[q]) # {}}'
                \ {q \in Pools : status # "TORE_DOWN" /\ Live(pool[q]) # {}} :
        pool'[q].ring = "current" /\ pool'[q].domain_id = d
  BY <1>1 DEF Takes
<1>8. Life!Create(d)
  BY <1>1, <1>2, <1>5, <1>6, <1>7 DEF Life!Create, OneCurrent, Orphaned
<1> QED BY <1>2, <1>3, <1>4, <1>8 DEF LifeInv, Life!LifeNext

LEMMA RetirementIsLifeCreate ==
  ASSUME IInv, IInv', LifeInv, NEW d \in Domains, Calls(d), Retires(d)
  PROVE  LifeInv' /\ Life!LifeNext
<1>1. gc = "none" /\ gc' = gc /\ status # "TORE_DOWN" /\ status' # "TORE_DOWN"
      /\ running' = running
  BY DEF Calls
<1>2. OneCurrent'
  BY DEF LifeInv, OneCurrent, Retires
<1>3. OrphanIds'
  BY <1>1 DEF LifeInv, OrphanIds, Retires, Orphaned
<1>4. ScanDone'
  BY <1>1 DEF ScanDone
<1>5. \A q \in Pools : Life!Stays(q) \/ Life!Retire(q, d) \/ Life!Empty(q, d)
  <2>1. \A q \in Pools : pool'[q].ring = "free" => Live(pool'[q]) = {}
    BY DEF IInv, YoungRootsInYoungPools
  <2> QED BY <2>1 DEF Life!Stays, Life!Retire, Life!Empty, Life!Moves, Retires, Orphaned
<1>6. {q \in Pools : status # "TORE_DOWN" /\ Live(pool[q]) # {}}
        = {q \in Pools : status # "TORE_DOWN" /\ Live(pool[q]) # {}}'
  BY <1>1 DEF Retires
<1>7. Life!Create(d)
  BY <1>1, <1>2, <1>5, <1>6 DEF Life!Create, OneCurrent, Orphaned
<1> QED BY <1>2, <1>3, <1>4, <1>7 DEF LifeInv, Life!LifeNext

LEMMA ReleaseIsLifeDelete ==
  ASSUME IInv, IInv', LifeInv, ~ EarlyIdReuse, NEW r \in Roots,
         r[2] \in Live(pool[r[1]]), Releases(r), status # "TORE_DOWN",
         UNCHANGED <<status, running, gc, pc>>
  PROVE  LifeInv' /\ Life!LifeNext
<1> DEFINE g == r[1]
<1>1. g \in Pools /\ r[2] \in Slots
  BY LiveRoot
<1>2. /\ pool'[g].domain_id = pool[g].domain_id
      /\ Live(pool'[g]) = Live(pool[g]) \ {r[2]}
      /\ \A q \in Pools \ {g} : pool'[q] = pool[q]
      /\ \/ pool'[g].ring = pool[g].ring
         \/ /\ gc = "none" /\ pool[g].ring \in {"young", "old"} /\ pool'[g].ring = "free"
  <2>1. /\ pool'[g].ring # pool[g].ring =>
             /\ gc = "none" /\ pool[g].ring # "current"
             /\ pool[g].domain_id \in running
             /\ pool'[g].ring \in {"young", "old", "free"}
        /\ pool'[g].ring = "free" \/ Class(pool'[g]) = Class(pool[g])
    BY DEF Releases
  <2>2. pool[g].ring \in RingNames \ {"unmapped", "free"}
    BY <1>1, PoolFacts, MappedWhenLive
  <2>3. pool[g].domain_id \in running => pool[g].ring \notin Orphaned
    BY <1>1 DEF LifeInv, OrphanIds
  <2>4. pool'[g].ring # pool[g].ring =>
          /\ gc = "none" /\ pool[g].ring \in {"young", "old"} /\ pool'[g].ring = "free"
    BY <2>1, <2>2, <2>3 DEF Class, YoungRings, OldRings, Orphaned, RingNames
  <2> QED BY <2>4 DEF Releases
<1> HIDE DEF g
<1>3. OneCurrent'
  BY <1>1, <1>2 DEF LifeInv, OneCurrent
<1>4. OrphanIds'
  BY <1>1, <1>2 DEF LifeInv, OrphanIds, Orphaned
<1>5. ScanDone'
  BY <1>1, <1>2 DEF LifeInv, ScanDone
<1>6. Life!Delete(g)
  <2>1. Live(pool[g]) # {}
    BY DEF g
  <2>2. pool'[g].ring = "free" => Live(pool'[g]) = {}
    BY <1>1 DEF IInv, YoungRootsInYoungPools
  <2>3. {q \in Pools : status # "TORE_DOWN" /\ Live(pool[q]) # {}}' \in
          {{q \in Pools : status # "TORE_DOWN" /\ Live(pool[q]) # {}},
           {q \in Pools : status # "TORE_DOWN" /\ Live(pool[q]) # {}} \ {g}}
    <3>1. CASE Live(pool'[g]) # {}
      <4>1. \A q \in Pools : Live(pool'[q]) # {} <=> Live(pool[q]) # {}
        BY <1>1, <1>2, <2>1, <3>1
      <4> QED BY <4>1
    <3>2. CASE Live(pool'[g]) = {}
      <4>1. \A q \in Pools : Live(pool'[q]) # {} <=> Live(pool[q]) # {} /\ q # g
        BY <1>1, <1>2, <3>2
      <4> QED BY <4>1
    <3> QED BY <3>1, <3>2
  <2>4. \A q \in Pools \ {g} : Life!Stays(q)
    BY <1>2 DEF Life!Stays
  <2>5. \/ /\ gc = "none" /\ pool[g].ring # "current"
           /\ Life!Empty(g, IF pool[g].ring \in Orphaned \cup {"unmapped"}
                            THEN NoDomain ELSE pool[g].domain_id)
        \/ Life!Stays(g)
    BY <1>1, <1>2, <2>2 DEF Life!Empty, Life!Moves, Life!Stays, Orphaned
  <2> QED BY <1>1, <2>1, <2>3, <2>4, <2>5 DEF Life!Delete, Orphaned
<1> QED BY <1>1, <1>3, <1>4, <1>5, <1>6 DEF LifeInv, Life!LifeNext

\* What does not concern the pools is invisible: an assignment, the threads and
\* the domains that come, the end of the program, a scan of the pools.
LEMMA SameRingsSameLife ==
  ASSUME LifeInv, gc' = gc,
         status' = "TORE_DOWN" <=> status = "TORE_DOWN",
         \A p \in Pools : /\ pool'[p].ring = pool[p].ring
                          /\ pool'[p].domain_id = pool[p].domain_id
                          /\ Live(pool'[p]) = Live(pool[p]),
         \A p \in Pools : pool[p].ring \in Orphaned =>
           (pool[p].domain_id \in running' =>
              EarlyIdReuse \/ pool[p].domain_id \in running),
         \A p \in Pools : pc'[pool[p].domain_id] = "done" => pc[pool[p].domain_id] = "done"
  PROVE  LifeInv' /\ UNCHANGED Life!lifeVars
<1>1. OneCurrent'
  BY DEF LifeInv, OneCurrent
<1>2. OrphanIds'
  BY DEF LifeInv, OrphanIds
<1>3. ScanDone'
  BY DEF LifeInv, ScanDone
<1> QED BY <1>1, <1>2, <1>3 DEF LifeInv, Life!lifeVars

LEMMA TerminationIsLifeTerminate ==
  ASSUME IInv, LifeInv, NEW d \in Domains, Terminate(d)
  PROVE  LifeInv' /\ Life!LifeNext
<1>1. gc = "none" /\ gc' = gc /\ status' = status /\ running' = running \ {d}
  BY DEF Terminate, CanCall
<1>2. \A p \in Pools :
        /\ Live(pool'[p]) = Live(pool[p])
        /\ pool'[p].ring = "unmapped" => Live(pool'[p]) = {}
        /\ IF pool[p].ring \notin Orphaned \cup {"unmapped"} /\ pool[p].domain_id = d
           THEN \/ /\ pool'[p].ring \in Orphaned /\ pool'[p].domain_id = d
                   /\ pool[p].ring \in {"current", "young", "old"}
                   /\ Class(pool'[p]) = Class(pool[p])
                \/ pool'[p].ring = "unmapped"
           ELSE /\ pool'[p].ring = pool[p].ring
                /\ pool'[p].domain_id = pool[p].domain_id \/ pool[p].ring = "unmapped"
  BY TerminatePools
<1>3. OneCurrent'
  BY <1>2 DEF LifeInv, OneCurrent, Orphaned
<1>4. OrphanIds'
  BY <1>1, <1>2 DEF LifeInv, OrphanIds, Orphaned
<1>5. ScanDone'
  BY <1>1 DEF ScanDone
<1>6. Life!Terminate(d)
  <2>1. ASSUME NEW q \in Pools,
               pool[q].ring \notin Orphaned \cup {"unmapped"} /\ pool[q].domain_id = d
        PROVE  Life!Orphan(q) \/ Life!Unmap(q)
    <3>1. CASE pool'[q].ring = "unmapped"
      BY <1>2, <2>1, <3>1 DEF Life!Unmap
    <3>2. CASE pool'[q].ring # "unmapped"
      BY <1>2, <2>1, <3>2 DEF Life!Orphan, Class, YoungRings, OldRings, Orphaned
    <3> QED BY <3>1, <3>2
  <2>2. ASSUME NEW q \in Pools,
               ~ (pool[q].ring \notin Orphaned \cup {"unmapped"} /\ pool[q].domain_id = d)
        PROVE  Life!Stays(q)
    BY <1>2, <2>2 DEF Life!Stays
  <2>3. \A q \in Pools :
          [p \in Pools |-> IF pool[p].ring \in Orphaned \cup {"unmapped"}
                           THEN NoDomain ELSE pool[p].domain_id][q] = d
          <=> pool[q].ring \notin Orphaned \cup {"unmapped"} /\ pool[q].domain_id = d
    BY DomainAssumption
  <2>4. {p \in Pools : status # "TORE_DOWN" /\ Live(pool[p]) # {}}'
          = {p \in Pools : status # "TORE_DOWN" /\ Live(pool[p]) # {}}
    BY <1>1, <1>2
  <2> QED BY <1>1, <2>1, <2>2, <2>3, <2>4 DEF Life!Terminate
<1> QED BY <1>3, <1>4, <1>5, <1>6 DEF LifeInv, Life!LifeNext

LEMMA StartIsBeginCollection ==
  ASSUME IInv, LifeInv, NEW kind \in {"minor", "major"}, StartGC(kind)
  PROVE  LifeInv' /\ Life!LifeNext
<1>1. /\ gc = "none" /\ gc' \in {"minor", "major"} /\ UNCHANGED <<status, running, pool>>
      /\ pc' = [d \in Domains |-> IF d \in running THEN "enter" ELSE "out"]
  BY DEF StartGC
<1>2. OneCurrent' /\ OrphanIds'
  BY <1>1 DEF LifeInv, OneCurrent, OrphanIds
<1>3. Life!BeginCollection
  BY <1>1 DEF Life!BeginCollection
<1>4. ScanDone'
  BY <1>1, PoolFacts DEF ScanDone
<1> QED BY <1>2, <1>3, <1>4 DEF LifeInv, Life!LifeNext

LEMMA EnteringIsLifeReady ==
  ASSUME IInv, LifeInv, NEW d \in Domains, ScanEnter(d)
  PROVE  LifeInv' /\ [Life!LifeNext]_(Life!lifeVars)
<1>1. /\ gc # "none" /\ UNCHANGED <<status, running, gc>>
      /\ pc \in [Domains -> {"out", "enter", "scan", "finish", "done"}]
  BY DuringCollection DEF ScanEnter, IInv, TypeOK
<1>2. CASE status = "RUNNING" /\ d \in inited
  <2>1. /\ pc' = [pc EXCEPT ![d] = "scan"]
        /\ \A p \in Pools :
             /\ Live(pool'[p]) = Live(pool[p]) /\ PoolInv(pool'[p])
             /\ IF pool[p].ring \in Orphaned
                THEN pool'[p].ring \in {"young", "old"} /\ pool'[p].domain_id = d
                ELSE /\ pool'[p].domain_id = pool[p].domain_id
                     /\ \/ pool'[p].ring = pool[p].ring
                        \/ /\ pool[p].domain_id = d
                           /\ pool[p].ring \in {"current", "young", "old"}
                           /\ pool'[p].ring \in {"young", "old", "free"}
             /\ pool'[p].ring = "free" \/ Class(pool'[p]) = Class(pool[p])
    BY <1>2, ScanEnterPools, PoolsOK DEF ScanEnter
  <2>2. \A p \in Pools : pool'[p].ring \notin Orphaned
    BY <2>1 DEF Orphaned
  <2>3. OneCurrent'
    BY <2>1 DEF LifeInv, OneCurrent
  <2>4. OrphanIds'
    BY <2>2 DEF OrphanIds
  <2>5. ScanDone'
    BY <1>1, <2>1, PoolFacts DEF LifeInv, ScanDone
  <2>6. Life!Ready(d)
    <3>1. ASSUME NEW q \in Pools
          PROVE  \/ Life!Stays(q) \/ Life!Retire(q, d)
                 \/ Life!Empty(q, d) \/ Life!Adopt(q, d)
      <4>1. CASE pool[q].ring \in Orphaned
        BY <2>1, <4>1 DEF Life!Adopt, Class, YoungRings, OldRings, Orphaned
      <4>2. CASE pool[q].ring \notin Orphaned /\ pool'[q].ring = pool[q].ring
        BY <2>1, <4>2 DEF Life!Stays
      <4>3. CASE pool[q].ring \notin Orphaned /\ pool'[q].ring # pool[q].ring
        <5>1. pool'[q].ring = "free" => Live(pool'[q]) = {}
          BY <2>1 DEF PoolInv
        <5> QED BY <2>1, <4>3, <5>1 DEF Life!Retire, Life!Empty, Life!Moves, Class,
                                        YoungRings, OldRings, Orphaned
      <4> QED BY <4>1, <4>2, <4>3
    <3>2. {p \in Pools : status # "TORE_DOWN" /\ Live(pool[p]) # {}}'
            = {p \in Pools : status # "TORE_DOWN" /\ Live(pool[p]) # {}}
      BY <1>1, <2>1
    <3> QED BY <1>1, <2>2, <3>1, <3>2 DEF Life!Ready, Orphaned
  <2> QED BY <2>3, <2>4, <2>5, <2>6 DEF LifeInv, Life!LifeNext
<1>3. CASE ~ (status = "RUNNING" /\ d \in inited)
  <2>1. pc' = [pc EXCEPT ![d] = "done"] /\ pool' = pool
    BY <1>3 DEF ScanEnter
  <2>2. \A p \in Pools : pool[p].ring # "unmapped" => pool[p].domain_id # d
    BY <1>3 DEF IInv, LifeCycle
  <2>3. OneCurrent' /\ OrphanIds'
    BY <1>1, <2>1 DEF LifeInv, OneCurrent, OrphanIds
  <2>4. ScanDone'
    BY <1>1, <2>1, <2>2, PoolFacts DEF LifeInv, ScanDone
  <2>5. UNCHANGED Life!lifeVars
    BY <1>1, <2>1 DEF Life!lifeVars
  <2> QED BY <2>3, <2>4, <2>5 DEF LifeInv
<1> QED BY <1>2, <1>3

LEMMA FinishIsPromoteOrRelease ==
  ASSUME IInv, LifeInv, NEW d \in Domains, ScanFinish(d)
  PROVE  LifeInv' /\ Life!LifeNext
<1>1. /\ gc \in {"minor", "major"} /\ UNCHANGED <<status, running, gc>>
      /\ pc \in [Domains -> {"out", "enter", "scan", "finish", "done"}]
      /\ pc' = [pc EXCEPT ![d] = "done"] /\ pc[d] = "finish"
  BY DuringCollection DEF ScanFinish, IInv, TypeOK
<1>2. \A p \in Pools :
        /\ Live(pool'[p]) = Live(pool[p])
        /\ pool'[p].ring = "unmapped" => Live(pool'[p]) = {} \/ pool'[p] = pool[p]
        /\ IF gc = "minor" /\ pool[p].ring = "young" /\ pool[p].domain_id = d
           THEN pool'[p].ring = "old" /\ pool'[p].domain_id = d
           ELSE IF gc = "major" /\ pool[p].ring = "free" /\ pool[p].domain_id = d
           THEN pool'[p].ring = "unmapped" /\ Live(pool[p]) = {}
           ELSE pool'[p] = pool[p]
  BY ScanFinishPools, PoolFacts
<1>3. OneCurrent'
  BY <1>2 DEF LifeInv, OneCurrent
<1>4. OrphanIds'
  BY <1>1, <1>2 DEF LifeInv, OrphanIds, Orphaned
<1>5. ScanDone'
  BY <1>1, <1>2, PoolFacts DEF LifeInv, ScanDone
<1>6. {p \in Pools : status # "TORE_DOWN" /\ Live(pool[p]) # {}}'
        = {p \in Pools : status # "TORE_DOWN" /\ Live(pool[p]) # {}}
  BY <1>1, <1>2
<1>7. CASE gc = "minor"
  <2>1. Life!Promote(d)
    BY <1>1, <1>2, <1>6, <1>7, DomainAssumption
    DEF Life!Promote, Life!Moves, Life!Stays, Orphaned
  <2> QED BY <1>3, <1>4, <1>5, <2>1 DEF LifeInv, Life!LifeNext
<1>8. CASE gc = "major"
  <2>1. Life!Release(d)
    BY <1>1, <1>2, <1>6, <1>8, DomainAssumption
    DEF Life!Release, Life!Unmap, Life!Stays, Orphaned
  <2> QED BY <1>3, <1>4, <1>5, <2>1 DEF LifeInv, Life!LifeNext
<1> QED BY <1>1, <1>7, <1>8

\* When a collection ends, no orphan is left (OrphansWait), no current pool
\* (ScanCovers), and every domain is done.
LEMMA EndGCIsLifeEndCollection ==
  ASSUME IInv, LifeInv, MainCreatesFirst, EndGC
  PROVE  LifeInv' /\ Life!LifeNext
<1>1. /\ gc \in {"minor", "major"} /\ gc' = "none" /\ UNCHANGED <<status, running>>
      /\ \A d \in running : pc[d] = "done"
      /\ MainDomain \in running
  BY DEF EndGC, IInv, TypeOK, LifeCycle
<1>2. \A p \in Pools : /\ pool'[p].ring = pool[p].ring
                       /\ pool'[p].domain_id = pool[p].domain_id
                       /\ Live(pool'[p]) = Live(pool[p])
  BY EndGCPools
<1>3. OneCurrent'
  BY <1>2 DEF LifeInv, OneCurrent
<1>4. OrphanIds'
  BY <1>1, <1>2 DEF LifeInv, OrphanIds, Orphaned
<1>5. ScanDone'
  BY <1>1 DEF ScanDone
<1>6. ASSUME NEW p \in Pools
      PROVE  pool[p].ring \in IF gc = "minor" THEN {"unmapped", "old", "free"}
                                              ELSE {"unmapped", "young", "old"}
  <2>1. pool[p].ring \notin Orphaned
    BY <1>1 DEF IInv, OrphansWait
  <2>2. pool[p].ring # "unmapped" =>
          pool[p].domain_id \in running /\ pc[pool[p].domain_id] = "done"
    BY <1>1, <2>1 DEF IInv, LifeCycle
  <2>3. pool[p].ring # "current"
    BY <1>1, <2>2 DEF IInv, ScanCovers
  <2>4. pool[p].ring # "unmapped" => pool[p].ring # IF gc = "minor" THEN "young" ELSE "free"
    BY <1>1, <2>1, <2>2 DEF LifeInv, ScanDone
  <2> QED BY <1>1, <2>1, <2>3, <2>4, PoolFacts DEF RingNames, Orphaned
<1>7. Life!EndCollection
  BY <1>1, <1>2, <1>6 DEF Life!EndCollection
<1> QED BY <1>3, <1>4, <1>5, <1>7 DEF LifeInv, Life!LifeNext

LEMMA TeardownIsLifeTeardown ==
  ASSUME IInv, boxroot_teardown
  PROVE  LifeInv' /\ Life!LifeNext
<1>1. gc = "none" /\ gc' = "none" /\ status' = "TORE_DOWN" /\ running' = {}
  BY DEF boxroot_teardown, IInv, LifeCycle, TypeOK
<1>2. \A p \in Pools : pool'[p].ring = "unmapped" /\ pool'[p].domain_id = NoDomain
  BY DEF boxroot_teardown, bxr_free_pool, get_empty_pool
<1>3. LifeInv'
  BY <1>1, <1>2 DEF LifeInv, OneCurrent, OrphanIds, ScanDone, Orphaned
<1>4. Life!Teardown
  BY <1>1, <1>2 DEF Life!Teardown
<1> QED BY <1>3, <1>4 DEF Life!LifeNext

LEMMA LifeStep ==
  ASSUME IInv, IInv', LifeInv, MainCreatesFirst, ~ EarlyIdReuse, Kind
  PROVE  LifeInv' /\ [Life!LifeNext]_(Life!lifeVars)
<1>1. CASE \E d \in Domains, p \in Pools, s \in Slots, v \in {"young", "old"} :
             Calls(d) /\ Takes(d, p, s, v)
  BY <1>1, CreationIsLifeCreate
<1>2. CASE \E d \in Domains : Calls(d) /\ Retires(d)
  BY <1>2, RetirementIsLifeCreate
<1>3. CASE \E r \in Roots : /\ r[2] \in Live(pool[r[1]]) /\ Releases(r)
                            /\ status # "TORE_DOWN"
                            /\ UNCHANGED <<status, running, gc, pc>>
  BY <1>3, ReleaseIsLifeDelete
<1>4. CASE \E r \in Roots, v \in {"young", "old"} :
             /\ r[2] \in Live(pool[r[1]]) /\ Assigns(r, v)
             /\ gc = "none" /\ status # "TORE_DOWN"
             /\ UNCHANGED <<status, running, gc, pc>>
  BY <1>4, SameRingsSameLife DEF Assigns
<1>5. ASSUME NEW d \in Domains, SwitchThread(d)
      PROVE  LifeInv' /\ UNCHANGED Life!lifeVars
  BY <1>5, SameRingsSameLife DEF SwitchThread
<1>6. ASSUME NEW d \in Domains, Spawn(d)
      PROVE  LifeInv' /\ UNCHANGED Life!lifeVars
  BY <1>6, SameRingsSameLife DEF Spawn
<1>7. ASSUME NEW d \in Domains, scan_pools(d)
      PROVE  LifeInv' /\ UNCHANGED Life!lifeVars
  <2>1. /\ UNCHANGED <<status, running, gc>> /\ pc' = [pc EXCEPT ![d] = "finish"]
        /\ pc \in [Domains -> {"out", "enter", "scan", "finish", "done"}]
    BY <1>7 DEF scan_pools, IInv, TypeOK
  <2>2. \A p \in Pools : /\ pool'[p].ring = pool[p].ring
                         /\ pool'[p].domain_id = pool[p].domain_id
                         /\ Live(pool'[p]) = Live(pool[p])
    BY <1>7, ScanPoolsPools
  <2>3. \A e : pc'[e] = "done" /\ e \in Domains => pc[e] = "done"
    BY <2>1
  <2>4. OneCurrent' /\ OrphanIds'
    BY <2>1, <2>2 DEF LifeInv, OneCurrent, OrphanIds
  <2>5. ScanDone'
    <3>1. ASSUME NEW p \in Pools,
                 pool[p].ring \notin Orphaned \cup {"unmapped"}, gc # "none",
                 pc'[pool[p].domain_id] = "done"
          PROVE  pool[p].ring # IF gc = "minor" THEN "young" ELSE "free"
      BY <2>3, <3>1, PoolFacts DEF LifeInv, ScanDone
    <3> QED BY <2>1, <2>2, <3>1 DEF ScanDone
  <2> QED BY <2>1, <2>2, <2>4, <2>5 DEF LifeInv, Life!lifeVars
<1>8. CASE Shutdown
  BY <1>8, SameRingsSameLife DEF Shutdown
<1> QED
  BY <1>1, <1>2, <1>3, <1>4, <1>5, <1>6, <1>7, <1>8,
     TerminationIsLifeTerminate, StartIsBeginCollection, EnteringIsLifeReady,
     FinishIsPromoteOrRelease, EndGCIsLifeEndCollection, TeardownIsLifeTeardown
  DEF Kind

\* The pools live as PoolLife says: a domain moves its own pools only and has
\* one current pool at most, an orphan leaves its ring by adoption in a
\* collection, a pool with a root is never freed nor left behind, and when a
\* collection ends every pool has been adopted, promoted or released. It takes
\* the initial domain to have created a boxroot, or orphans may outlast a
\* collection; and a domain id not to be reused while pools of its former domain
\* are orphaned, or the new domain may move them as if they were its own.
THEOREM PoolsLiveTheirLife ==
  ASSUME MainCreatesFirst, ~ EarlyIdReuse
  PROVE  Spec => FollowsPoolLife
<1>1. Init => Life!LifeInit /\ LifeInv
  BY DEF Init, Life!LifeInit, LifeInv, OneCurrent, OrphanIds, ScanDone, Orphaned,
         get_empty_pool, Live
<1>2. IInv /\ IInv' /\ LifeInv /\ [Next]_vars
        => LifeInv' /\ [Life!LifeNext]_(Life!lifeVars)
  <2>1. CASE Next
    BY <2>1, EveryStepHasAKind, LifeStep
  <2>2. CASE UNCHANGED vars
    BY <2>2 DEF vars, Life!lifeVars, LifeInv, OneCurrent, OrphanIds, ScanDone
  <2> QED BY <2>1, <2>2
<1> QED
  BY <1>1, <1>2, Invariance, PTL DEF Spec, Life!LifeSpec, FollowsPoolLife

=============================================================================
