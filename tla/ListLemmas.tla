------------------------------ MODULE ListLemmas ------------------------------
(* Lists, as the proofs see them.                                            *)
(*                                                                            *)
(* Free lists: a list of n cells is a path, the function p that gives its     *)
(* cells in the order of the links; nx is what each cell contains.  The       *)
(* lemmas say what taking the first cell, putting a cell in front and joining *)
(* two lists make of two lists that share out the cells with those in use.    *)
(*                                                                            *)
(* Rings as sequences: enumerations of a set, each member once.               *)
(*                                                                            *)
(* Rings in memory: a set of nodes closed under `next` and `prev`, which are  *)
(* inverses there, and such that no smaller set is closed under `next`.  No   *)
(* order of the nodes is needed to say what unlinking a node, joining two     *)
(* rings and walking along one make of such sets.                             *)
EXTENDS Rings, RingSequences, SequencesExt, FiniteSetTheorems, TLAPS

On(s, p, n) == \E i \in 1 .. n : s = p[i]
Cells(C, p, n) == {s \in C : On(s, p, n)}

\* From h, following nx, p goes through n cells and ends at e.
Path(nx, e, h, p, n) ==
  /\ h = IF n = 0 THEN e ELSE p[1]
  /\ \A i \in 1 .. n : nx[p[i]] = IF i = n THEN e ELSE p[i + 1]
  /\ \A i, j \in 1 .. n : p[i] = p[j] => i = j

\* Each cell of C is on one of two lists, or contains v.
Shared(C, v, nx, p, m, q, n) ==
  /\ \A s \in C : ~ (On(s, p, m) /\ On(s, q, n))
  /\ \A s \in C : nx[s] = v <=> ~ On(s, p, m) /\ ~ On(s, q, n)

TwoLists(C, v, e, nx, hp, p, m, hq, q, n) ==
  Path(nx, e, hp, p, m) /\ Path(nx, e, hq, q, n) /\ Shared(C, v, nx, p, m, q, n)

-----------------------------------------------------------------------------
(* Finite numbers.                                                         *)

\* A set of naturals that holds 0 and the successor of each of its members
\* below c holds all of 0 .. c: a bounded induction, without a scheme.
LEMMA IntervalInduction ==
  ASSUME NEW N \in Nat, NEW T \in SUBSET (0 .. N), 0 \in T,
         \A i \in 0 .. N - 1 : i \in T => i + 1 \in T
  PROVE  T = 0 .. N
<1> SUFFICES ASSUME NEW c \in 0 .. N, c \notin T PROVE FALSE
  OBVIOUS
<1> DEFINE B == T \cap (0 .. c)
           f == [j \in B |-> j + 1]
<1>1. f \in [B -> B] /\ \A i, j \in B : f[i] = f[j] => i = j
  <2>1. \A j \in B : j \in 0 .. N - 1 /\ j + 1 \in B
    <3> TAKE j \in B
    <3>1. j \in Nat /\ j <= c /\ j # c
      OBVIOUS
    <3>2. j \in 0 .. N - 1 /\ j + 1 \in 0 .. c
      BY <3>1
    <3> QED BY <3>2
  <2> QED BY <2>1
<1>2. f \in Injection(B, B)
  BY <1>1 DEF Injection, IsInjective
<1>3. IsFiniteSet(B)
  <2>1. IsFiniteSet(0 .. c)
    BY FS_Interval
  <2> QED BY <2>1, FS_Subset
<1>4. f \in Surjection(B, B)
  BY <1>2, <1>3, FS_Injection
<1>5. 0 \in B
  OBVIOUS
<1>6. \E j \in B : f[j] = 0
  <2> HIDE DEF B, f
  <2> QED BY <1>4, <1>5 DEF Surjection
<1> QED BY <1>6

\* A path is no longer than the number of cells, and there are as many cells
\* on it as it is long.
LEMMA RangeSize ==
  ASSUME NEW C, NEW n \in Nat, NEW p \in [1 .. n -> C],
         \A i, j \in 1 .. n : p[i] = p[j] => i = j
  PROVE  IsFiniteSet(Cells(C, p, n)) /\ Cardinality(Cells(C, p, n)) = n
<1> DEFINE R == Cells(C, p, n)
<1>1. p \in Injection(1 .. n, R) /\ p \in Surjection(1 .. n, R)
  BY DEF Injection, Surjection, IsInjective, On, Cells
<1>2. IsFiniteSet(1 .. n) /\ Cardinality(1 .. n) = n
  BY FS_Interval
<1> QED BY <1>1, <1>2, FS_Surjection

\* Those who hold distinct cells of a path are no more than its cells.
LEMMA HoldersFit ==
  ASSUME NEW T, NEW h, NEW n \in Nat, NEW q,
         \A t \in T : On(h[t], q, n),
         \A t, u \in T : h[t] = h[u] => t = u
  PROVE  IsFiniteSet(T) /\ Cardinality(T) \in Nat /\ Cardinality(T) <= n
<1> DEFINE f == [t \in T |-> CHOOSE i \in 1 .. n : h[t] = q[i]]
<1>1. \A t \in T : f[t] \in 1 .. n /\ h[t] = q[f[t]]
  BY DEF On
<1>2. f \in [T -> 1 .. n]
  BY <1>1
<1>3. f \in Injection(T, 1 .. n)
  <2> HIDE DEF f
  <2> QED BY <1>1, <1>2 DEF Injection, IsInjective
<1>4. IsFiniteSet(1 .. n) /\ Cardinality(1 .. n) = n
  BY FS_Interval
<1> HIDE DEF f
<1> QED BY <1>3, <1>4, FS_Injection, FS_CardinalityType

\* What two lists leave is in use.
LEMMA SharedSizes ==
  ASSUME NEW C, IsFiniteSet(C), NEW v, NEW nx,
         NEW m \in Nat, NEW p \in [1 .. m -> C],
         \A i, j \in 1 .. m : p[i] = p[j] => i = j,
         NEW n \in Nat, NEW q \in [1 .. n -> C],
         \A i, j \in 1 .. n : q[i] = q[j] => i = j,
         Shared(C, v, nx, p, m, q, n)
  PROVE  /\ Cardinality({s \in C : nx[s] = v}) = Cardinality(C) - m - n
         /\ m + n <= Cardinality(C)
<1> DEFINE P == Cells(C, p, m)
           Q == Cells(C, q, n)
           U == {s \in C : nx[s] = v}
<1>1. IsFiniteSet(P) /\ Cardinality(P) = m
  BY RangeSize
<1>a. IsFiniteSet(Q) /\ Cardinality(Q) = n
  BY RangeSize
<1>2. P \cap Q = {} /\ U = C \ (P \cup Q)
  BY DEF Shared, Cells
<1>3. IsFiniteSet(P \cup Q) /\ Cardinality(P \cup Q) = m + n
  <2>1. Cardinality(P \cap Q) = 0
    BY <1>2, FS_EmptySet
  <2> HIDE DEF P, Q
  <2> QED BY <1>1, <1>a, <2>1, FS_Union, SMTT(30)
<1>4. C \cap (P \cup Q) = P \cup Q
  BY DEF Cells
<1>5. Cardinality(C) \in Nat /\ Cardinality(P \cup Q) <= Cardinality(C)
  BY <1>4, FS_CardinalityType, FS_Subset
<1>6. Cardinality(C \ (P \cup Q)) = Cardinality(C) - Cardinality(C \cap (P \cup Q))
  BY FS_Difference
<1>7. Cardinality(U) = Cardinality(C) - m - n /\ m + n <= Cardinality(C)
  <2> HIDE DEF P, Q, U
  <2>1. /\ Cardinality(U) = Cardinality(C \ (P \cup Q))
        /\ Cardinality(C \cap (P \cup Q)) = Cardinality(P \cup Q)
    BY <1>2, <1>4, Zenon
  <2> QED BY <1>3, <1>5, <1>6, <2>1
<1> QED BY <1>7

-----------------------------------------------------------------------------
(* The operations on a list.                                               *)

Behind(p, m) == [i \in 1 .. m - 1 |-> p[i + 1]]
Ahead(s, p, m) == [i \in 1 .. m + 1 |-> IF i = 1 THEN s ELSE p[i - 1]]
Joined(q, n, p, m) == [i \in 1 .. m + n |-> IF i <= n THEN q[i] ELSE p[i - n]]

\* The two lists play the same part.
LEMMA TwoListsSym ==
  ASSUME NEW C, NEW v, NEW e, NEW nx, NEW hp, NEW p, NEW m, NEW hq, NEW q, NEW n,
         TwoLists(C, v, e, nx, hp, p, m, hq, q, n)
  PROVE  TwoLists(C, v, e, nx, hq, q, n, hp, p, m)
BY DEF TwoLists, Shared

\* The cells of a list behind the first one.
LEMMA BehindOn ==
  ASSUME NEW C, NEW m \in Nat, m > 0, NEW p \in [1 .. m -> C],
         \A i, j \in 1 .. m : p[i] = p[j] => i = j
  PROVE  \A s \in C : On(s, Behind(p, m), m - 1) <=> On(s, p, m) /\ s # p[1]
<1> DEFINE p1 == Behind(p, m)
<1>0. p1 = [i \in 1 .. m - 1 |-> p[i + 1]] /\ 1 \in 1 .. m
  BY DEF Behind
<1> SUFFICES ASSUME NEW s \in C
             PROVE  On(s, p1, m - 1) <=> On(s, p, m) /\ s # p[1]
  OBVIOUS
<1> HIDE DEF p1
<1>1. ASSUME On(s, p, m), s # p[1] PROVE On(s, p1, m - 1)
  <2>1. PICK i \in 1 .. m : s = p[i]
    BY <1>1 DEF On
  <2>2. i - 1 \in 1 .. m - 1 /\ p1[i - 1] = s
    BY <1>0, <1>1, <2>1
  <2> QED BY <2>2 DEF On
<1>2. ASSUME On(s, p1, m - 1) PROVE On(s, p, m) /\ s # p[1]
  <2>1. PICK i \in 1 .. m - 1 : s = p1[i]
    BY <1>2 DEF On
  <2>2. i + 1 \in 1 .. m /\ i + 1 # 1 /\ s = p[i + 1]
    BY <1>0, <2>1
  <2> QED BY <1>0, <2>2 DEF On
<1> QED BY <1>1, <1>2

\* The first cell of a list is taken.
LEMMA TakeFirst ==
  ASSUME NEW C, NEW e, NEW v, e \notin C, v \notin C, v # e, NEW nx \in [C -> C \cup {e, v}],
         NEW hp, NEW m \in Nat, m > 0, NEW p \in [1 .. m -> C],
         NEW hq, NEW n \in Nat, NEW q \in [1 .. n -> C],
         TwoLists(C, v, e, nx, hp, p, m, hq, q, n),
         NEW nx1, \A s \in C : nx1[s] = IF s = hp THEN v ELSE nx[s]
  PROVE  TwoLists(C, v, e, nx1, nx[hp], Behind(p, m), m - 1, hq, q, n)
<1> DEFINE p1 == Behind(p, m)
<1>0. p1 = [i \in 1 .. m - 1 |-> p[i + 1]]
  BY DEF Behind
<1>1. hp \in C /\ hp = p[1] /\ 1 \in 1 .. m
  BY DEF TwoLists, Path
<1>2. p1 \in [1 .. m - 1 -> C] /\ (m > 1 => p1[m - 1] = p[m])
  BY <1>0
<1>3. \A s \in C : On(s, p1, m - 1) <=> On(s, p, m) /\ s # hp
  <2>1. \A i, j \in 1 .. m : p[i] = p[j] => i = j
    BY DEF TwoLists, Path
  <2> QED BY <1>1, <2>1, BehindOn
<1>5. Path(nx1, e, nx[hp], p1, m - 1)
  BY <1>0, <1>1, <1>2, SMTT(30) DEF TwoLists, Path
<1>6. Path(nx1, e, hq, q, n)
  <2>1. \A i \in 1 .. n : q[i] # hp
    BY <1>1 DEF TwoLists, Shared, On
  <2> QED BY <2>1 DEF TwoLists, Path
<1>7. Shared(C, v, nx1, p1, m - 1, q, n)
  <2>1. On(hp, p, m)
    BY <1>1 DEF On
  <2> HIDE DEF p1
  <2> QED BY <1>1, <1>3, <2>1 DEF TwoLists, Shared
<1> QED BY <1>2, <1>5, <1>6, <1>7 DEF TwoLists

\* The cells of a list with one more in front.
LEMMA AheadOn ==
  ASSUME NEW C, NEW m \in Nat, NEW p \in [1 .. m -> C], NEW s \in C
  PROVE  \A x \in C : On(x, Ahead(s, p, m), m + 1) <=> x = s \/ On(x, p, m)
<1> DEFINE p1 == Ahead(s, p, m)
<1>0. /\ p1 = [i \in 1 .. m + 1 |-> IF i = 1 THEN s ELSE p[i - 1]]
      /\ p1[1] = s
      /\ \A i \in 1 .. m : p1[i + 1] = p[i]
      /\ \A i \in 2 .. m + 1 : i - 1 \in 1 .. m /\ p1[i] = p[i - 1]
  BY DEF Ahead
<1>1. \A x \in C : On(x, p1, m + 1) <=> x = s \/ On(x, p, m)
  <2> TAKE x \in C
  <2>1. ASSUME On(x, p, m) PROVE On(x, p1, m + 1)
    <3>1. PICK i \in 1 .. m : x = p[i]
      BY <2>1 DEF On
    <3>2. i + 1 \in 1 .. m + 1 /\ p1[i + 1] = x
      BY <1>0, <3>1
    <3> HIDE DEF p1
    <3> QED BY <3>2 DEF On
  <2>2. On(s, p1, m + 1)
    <3>1. 1 \in 1 .. m + 1 /\ p1[1] = s
      BY <1>0
    <3> HIDE DEF p1
    <3> QED BY <3>1 DEF On
  <2>3. ASSUME On(x, p1, m + 1) PROVE x = s \/ On(x, p, m)
    <3>1. PICK i \in 1 .. m + 1 : x = p1[i]
      BY <2>3 DEF On
    <3>2. i = 1 \/ (i - 1 \in 1 .. m /\ p1[i] = p[i - 1])
      BY <1>0
    <3> QED BY <1>0, <3>1, <3>2 DEF On
  <2> HIDE DEF p1
  <2> QED BY <2>1, <2>2, <2>3
<1> QED BY <1>1

\* A cell in use is put in front of a list.
LEMMA PutFirst ==
  ASSUME NEW C, NEW e, NEW v, e \notin C, v \notin C, v # e, NEW nx \in [C -> C \cup {e, v}],
         NEW hp, NEW m \in Nat, NEW p \in [1 .. m -> C],
         NEW hq, NEW n \in Nat, NEW q \in [1 .. n -> C],
         TwoLists(C, v, e, nx, hp, p, m, hq, q, n),
         NEW s \in C, nx[s] = v,
         NEW nx1, \A x \in C : nx1[x] = IF x = s THEN hp ELSE nx[x]
  PROVE  TwoLists(C, v, e, nx1, s, Ahead(s, p, m), m + 1, hq, q, n)
<1> DEFINE p1 == Ahead(s, p, m)
<1>0. /\ \A i \in 1 .. m + 1 : p1[i] \in C
      /\ p1[1] = s
      /\ \A i \in 1 .. m : p1[i + 1] = p[i]
      /\ \A i \in 2 .. m + 1 : i - 1 \in 1 .. m /\ p1[i] = p[i - 1]
  <2>1. \A i \in 1 .. m + 1 : p1[i] = IF i = 1 THEN s ELSE p[i - 1]
    BY DEF Ahead
  <2>2. \A i \in 2 .. m + 1 : i \in 1 .. m + 1 /\ i # 1 /\ i - 1 \in 1 .. m
    OBVIOUS
  <2>3. \A i \in 1 .. m : i + 1 \in 1 .. m + 1 /\ i + 1 # 1 /\ (i + 1) - 1 = i
    OBVIOUS
  <2>4. \A i \in 1 .. m + 1 : i = 1 \/ i \in 2 .. m + 1
    OBVIOUS
  <2>5. \A i \in 1 .. m : p[i] \in C
    OBVIOUS
  <2>6. 1 \in 1 .. m + 1
    OBVIOUS
  <2> HIDE DEF p1
  <2> QED BY <2>1, <2>2, <2>3, <2>4, <2>5, <2>6
<1>2. \A x \in C : On(x, p1, m + 1) <=> x = s \/ On(x, p, m)
  BY AheadOn
<1> HIDE DEF p1
<1>1. ~ On(s, p, m) /\ ~ On(s, q, n)
  BY DEF TwoLists, Shared
<1>5. Path(nx1, e, s, p1, m + 1)
  <2>1. \A i \in 1 .. m : p[i] # s /\ p[i] \in C
    BY <1>1 DEF On
  <2>2. hp = IF m = 0 THEN e ELSE p[1]
    BY DEF TwoLists, Path
  <2>3. \A i \in 1 .. m + 1 : nx1[p1[i]] = IF i = m + 1 THEN e ELSE p1[i + 1]
    <3> TAKE i \in 1 .. m + 1
    <3>1. CASE i = 1
      BY <1>0, <1>2, <3>1, <2>1, <2>2
    <3>2. CASE i # 1
      <4>1. i - 1 \in 1 .. m /\ p1[i] = p[i - 1]
        BY <1>0, <1>2, <3>2
      <4>2. nx1[p1[i]] = nx[p[i - 1]]
        BY <2>1, <4>1
      <4>3. nx[p[i - 1]] = IF i - 1 = m THEN e ELSE p[(i - 1) + 1]
        BY <4>1 DEF TwoLists, Path
      <4>4. i # m + 1 => i \in 1 .. m /\ p1[i + 1] = p[i]
        BY <1>0, <1>2, <3>2
      <4> QED BY <4>1, <4>2, <4>3, <4>4
    <3> QED BY <3>1, <3>2
  <2>4. \A i, j \in 1 .. m + 1 : p1[i] = p1[j] => i = j
    <3>1. \A i \in 1 .. m + 1 : \/ i = 1
                               \/ /\ i - 1 \in 1 .. m
                                  /\ p1[i] = p[i - 1]
      BY <1>0
    <3> QED BY <1>0, <1>2, <2>1, <3>1 DEF TwoLists, Path
  <2>5. p1[1] = s
    BY <1>0
  <2> QED BY <2>3, <2>4, <2>5 DEF Path
<1>6. Path(nx1, e, hq, q, n)
  <2>1. \A i \in 1 .. n : q[i] # s
    BY <1>1 DEF On
  <2> QED BY <2>1 DEF TwoLists, Path
<1>7. Shared(C, v, nx1, p1, m + 1, q, n)
  <2>1. hp # v
    BY DEF TwoLists, Path
  <2> QED BY <1>0, <1>1, <1>2, <2>1 DEF TwoLists, Shared
<1> QED BY <1>5, <1>6, <1>7 DEF TwoLists, p1

\* The cells of a list put in front of another one.
LEMMA JoinedOn ==
  ASSUME NEW C, NEW m \in Nat, NEW p \in [1 .. m -> C], NEW n \in Nat, NEW q \in [1 .. n -> C]
  PROVE  \A x \in C : On(x, Joined(q, n, p, m), m + n) <=> On(x, q, n) \/ On(x, p, m)
<1> DEFINE p1 == Joined(q, n, p, m)
<1>0. /\ p1 = [i \in 1 .. m + n |-> IF i <= n THEN q[i] ELSE p[i - n]]
      /\ \A i \in 1 .. n : i \in 1 .. m + n /\ p1[i] = q[i]
      /\ \A i \in 1 .. m : i + n \in 1 .. m + n /\ p1[i + n] = p[i]
      /\ \A i \in 1 .. m + n : \/ i \in 1 .. n
                               \/ /\ i - n \in 1 .. m /\ i > n
                                  /\ p1[i] = p[i - n]
  BY DEF Joined
<1>1. \A x \in C : On(x, p1, m + n) <=> On(x, q, n) \/ On(x, p, m)
  <2> TAKE x \in C
  <2>1. ASSUME On(x, p, m) PROVE On(x, p1, m + n)
    <3>1. PICK i \in 1 .. m : x = p[i]
      BY <2>1 DEF On
    <3>2. i + n \in 1 .. m + n /\ p1[i + n] = x
      BY <1>0, <3>1
    <3> HIDE DEF p1
    <3> QED BY <3>2 DEF On
  <2>2. ASSUME On(x, q, n) PROVE On(x, p1, m + n)
    <3>1. PICK i \in 1 .. n : x = q[i]
      BY <2>2 DEF On
    <3>2. i \in 1 .. m + n /\ p1[i] = x
      BY <1>0, <3>1
    <3> HIDE DEF p1
    <3> QED BY <3>2 DEF On
  <2>3. ASSUME On(x, p1, m + n) PROVE On(x, q, n) \/ On(x, p, m)
    BY <1>0, <2>3 DEF On
  <2> HIDE DEF p1
  <2> QED BY <2>1, <2>2, <2>3
<1> QED BY <1>1

\* The second list, which is not empty, is put in front of the first.
LEMMA JoinLists ==
  ASSUME NEW C, NEW e, NEW v, e \notin C, v \notin C, v # e, NEW nx \in [C -> C \cup {e, v}],
         NEW hp, NEW m \in Nat, NEW p \in [1 .. m -> C],
         NEW hq, NEW n \in Nat, n > 0, NEW q \in [1 .. n -> C],
         TwoLists(C, v, e, nx, hp, p, m, hq, q, n),
         NEW nx1, \A x \in C : nx1[x] = IF x = q[n] THEN hp ELSE nx[x]
  PROVE  TwoLists(C, v, e, nx1, hq, Joined(q, n, p, m), m + n, e, << >>, 0)
<1> DEFINE p1 == Joined(q, n, p, m)
           q1 == << >>
<1>0. /\ p1 = [i \in 1 .. m + n |-> IF i <= n THEN q[i] ELSE p[i - n]]
      /\ \A i \in 1 .. n : i \in 1 .. m + n /\ p1[i] = q[i]
      /\ \A i \in 1 .. m : i + n \in 1 .. m + n /\ p1[i + n] = p[i]
      /\ \A i \in 1 .. m + n : \/ i \in 1 .. n
                               \/ /\ i - n \in 1 .. m /\ i > n
                                  /\ p1[i] = p[i - n]
  BY DEF Joined
<1>1. n \in 1 .. n /\ 1 \in 1 .. n /\ q[n] \in C
  OBVIOUS
<1>2. p1 \in [1 .. m + n -> C] /\ p1[m + n] = IF m = 0 THEN q[n] ELSE p[m]
  <2>1. \A i \in 1 .. m + n : i \in 1 .. n \/ i - n \in 1 .. m
    OBVIOUS
  <2> QED BY <1>0, <2>1, SMTT(30)
<1>3. \A x \in C : On(x, p1, m + n) <=> On(x, q, n) \/ On(x, p, m)
  BY JoinedOn
<1>a. \A i \in 1 .. m, j \in 1 .. n : p[i] # q[j]
  <2> SUFFICES ASSUME NEW i \in 1 .. m, NEW j \in 1 .. n, p[i] = q[j] PROVE FALSE
    OBVIOUS
  <2>1. p[i] \in C /\ On(p[i], p, m) /\ On(p[i], q, n)
    BY DEF On
  <2> QED BY <2>1 DEF TwoLists, Shared
<1>5. Path(nx1, e, hq, p1, m + n)
  <2>1. hp = IF m = 0 THEN e ELSE p[1]
    BY DEF TwoLists, Path
  <2>2. \A i \in 1 .. m + n : nx1[p1[i]] = IF i = m + n THEN e ELSE p1[i + 1]
    <3> TAKE i \in 1 .. m + n
    <3>1. CASE i < n
      <4>1. i \in 1 .. n /\ i # n /\ p1[i] = q[i] /\ p1[i + 1] = q[i + 1]
        BY <1>0, <3>1
      <4>2. q[i] # q[n] /\ nx[q[i]] = q[i + 1]
        BY <1>1, <4>1 DEF TwoLists, Path
      <4> QED BY <3>1, <4>1, <4>2
    <3>2. CASE i = n
      <4>1. i \in 1 .. n /\ p1[i] = q[n] /\ nx1[q[n]] = hp
        BY <1>0, <1>1, <3>2
      <4>2. m # 0 => 1 \in 1 .. m /\ p1[1 + n] = p[1]
        BY <1>0
      <4> QED BY <4>1, <4>2, <3>2, <2>1
    <3>3. CASE i > n
      <4>1. i - n \in 1 .. m /\ p1[i] = p[i - n]
        BY <1>0, <3>3
      <4>2. nx1[p1[i]] = nx[p[i - n]]
        BY <1>1, <1>a, <4>1
      <4>3. i # m + n => (i - n) + 1 \in 1 .. m /\ p1[i + 1] = p[(i - n) + 1]
        <5> SUFFICES ASSUME i # m + n PROVE (i - n) + 1 \in 1 .. m /\ p1[i + 1] = p[(i - n) + 1]
          OBVIOUS
        <5>1. (i - n) + 1 \in 1 .. m /\ ((i - n) + 1) + n = i + 1
          BY <3>3
        <5> QED BY <1>0, <5>1
      <4>4. nx[p[i - n]] = IF i - n = m THEN e ELSE p[(i - n) + 1]
        BY <4>1 DEF TwoLists, Path
      <4> QED BY <4>1, <4>2, <4>3, <4>4, <3>3
    <3> QED BY <3>1, <3>2, <3>3
  <2>3. \A i, j \in 1 .. m + n : p1[i] = p1[j] => i = j
    <3>1. \A i \in 1 .. m + n :
            \/ /\ i \in 1 .. n
               /\ p1[i] = q[i]
            \/ /\ i - n \in 1 .. m /\ i > n
               /\ p1[i] = p[i - n]
      BY <1>0
    <3> HIDE DEF p1
    <3> SUFFICES ASSUME NEW i \in 1 .. m + n, NEW j \in 1 .. m + n, p1[i] = p1[j] PROVE i = j
      OBVIOUS
    <3>2. /\ \A k, l \in 1 .. m : p[k] = p[l] => k = l
          /\ \A k, l \in 1 .. n : q[k] = q[l] => k = l
      BY DEF TwoLists, Path
    <3>3. \A k \in 1 .. m, l \in 1 .. n : p[k] # q[l]
      BY DEF TwoLists, Shared, On
    <3> QED BY <3>1, <3>2, <3>3
  <2>4. p1[1] = hq
    BY <1>0, <1>1 DEF TwoLists, Path
  <2> HIDE DEF p1
  <2> QED BY <2>2, <2>3, <2>4 DEF Path
<1>6. Path(nx1, e, e, q1, 0) /\ \A x : ~ On(x, q1, 0)
  BY DEF Path, On
<1>7. Shared(C, v, nx1, p1, m + n, q1, 0)
  <2>1. hp # v /\ On(q[n], q, n)
    BY <1>1 DEF TwoLists, Path, On
  <2> HIDE DEF p1, q1
  <2> QED BY <1>1, <1>3, <1>6, <2>1 DEF TwoLists, Shared
<1> QED BY <1>2, <1>5, <1>6, <1>7 DEF TwoLists

-----------------------------------------------------------------------------
(* Walking along a list.                                                   *)

Step(C, nx, x) == IF x \in C THEN nx[x] ELSE x

\* w is what is met from h on, up to the N-th address.
Walks(C, nx, h, N, w) ==
  \A k \in 0 .. N : w[k] = IF k = 0 THEN h ELSE Step(C, nx, w[k - 1])

\* g goes through the n cells of p, then stays at e.
Follows(p, n, e, N, g) == \A k \in 0 .. N : g[k] = IF k < n THEN p[k + 1] ELSE e

\* The addresses met from h on are those of the path, then the end.
LEMMA WalkAlongPath ==
  ASSUME NEW C, NEW e, e \notin C, NEW nx, NEW h, NEW n \in Nat, NEW p \in [1 .. n -> C],
         Path(nx, e, h, p, n), NEW N \in Nat, n <= N,
         NEW g, Follows(p, n, e, N, g)
  PROVE  Walks(C, nx, h, N, g)
<1> USE DEF Follows
<1> SUFFICES ASSUME NEW k \in 0 .. N
             PROVE  g[k] = IF k = 0 THEN h ELSE Step(C, nx, g[k - 1])
  BY DEF Walks
<1>1. CASE k = 0
  BY <1>1 DEF Path
<1>2. CASE k # 0 /\ k - 1 < n
  <2>1. k \in 1 .. n /\ g[k - 1] = p[k] /\ p[k] \in C
    BY <1>2
  <2>2. nx[p[k]] = IF k = n THEN e ELSE p[k + 1]
    BY <2>1 DEF Path
  <2> QED BY <1>2, <2>1, <2>2 DEF Step
<1>3. CASE k # 0 /\ k - 1 >= n
  BY <1>3 DEF Step
<1> QED BY <1>1, <1>2, <1>3

\* Nothing else is met.
LEMMA WalkIsUnique ==
  ASSUME NEW C, NEW nx, NEW h, NEW N \in Nat, NEW w, NEW g,
         Walks(C, nx, h, N, w), Walks(C, nx, h, N, g)
  PROVE  \A k \in 0 .. N : w[k] = g[k]
<1> USE DEF Walks
<1> DEFINE T == {k \in 0 .. N : w[k] = g[k]}
<1>2. 0 \in T
  OBVIOUS
<1>3. \A i \in 0 .. N - 1 : i \in T => i + 1 \in T
  <2> SUFFICES ASSUME NEW i \in 0 .. N - 1, w[i] = g[i] PROVE w[i + 1] = g[i + 1]
    OBVIOUS
  <2>1. i + 1 \in 0 .. N /\ i + 1 # 0 /\ (i + 1) - 1 = i
    OBVIOUS
  <2> QED BY <2>1
<1>4. T = 0 .. N
  <2>1. T \in SUBSET (0 .. N)
    OBVIOUS
  <2> HIDE DEF T
  <2> QED BY <1>2, <1>3, <2>1, IntervalInduction
<1> QED BY <1>4

-----------------------------------------------------------------------------
(* Sequences without repetition.                                           *)

\* s has each member of A once, and nothing else.
Enumerates(s, A) ==
  /\ s \in Seq(A)
  /\ \A i, j \in 1 .. Len(s) : s[i] = s[j] => i = j
  /\ \A x \in A : \E i \in 1 .. Len(s) : s[i] = x

LEMMA EnumeratesToSet ==
  ASSUME NEW A, NEW s, Enumerates(s, A)
  PROVE  ToSet(s) = A /\ IsInjective(s)
<1>1. s \in Seq(A) /\ DOMAIN s = 1 .. Len(s) /\ \A i \in 1 .. Len(s) : s[i] \in A
  BY DEF Enumerates
<1>2. ToSet(s) = A
  BY <1>1 DEF Enumerates, ToSet
<1>3. IsInjective(s)
  BY <1>1 DEF Enumerates, IsInjective
<1> QED BY <1>2, <1>3

LEMMA EnumeratesWhen ==
  ASSUME NEW A, NEW s \in Seq(A), IsInjective(s)
  PROVE  Enumerates(s, ToSet(s)) /\ ToSet(s) \subseteq A
<1>1. DOMAIN s = 1 .. Len(s) /\ \A i \in 1 .. Len(s) : s[i] \in ToSet(s)
  BY DEF ToSet
<1>2. s \in Seq(ToSet(s))
  BY <1>1
<1> QED BY <1>1, <1>2 DEF Enumerates, ToSet, IsInjective

\* There are as many members as the sequence is long.
LEMMA EnumeratesSize ==
  ASSUME NEW A, NEW s, Enumerates(s, A)
  PROVE  IsFiniteSet(A) /\ Cardinality(A) = Len(s)
<1>1. /\ Len(s) \in Nat /\ s \in [1 .. Len(s) -> A]
      /\ \A i, j \in 1 .. Len(s) : s[i] = s[j] => i = j
  BY DEF Enumerates
<1>2. PICK n \in Nat : n = Len(s)
  BY <1>1
<1>2a. PICK p \in [1 .. n -> A] : p = s
  BY <1>1, <1>2
<1>3. IsFiniteSet(Cells(A, p, n)) /\ Cardinality(Cells(A, p, n)) = n
  BY <1>1, <1>2, <1>2a, RangeSize
<1>4. Cells(A, p, n) = A
  BY <1>2, <1>2a DEF Cells, On, Enumerates
<1> QED BY <1>2, <1>3, <1>4

\* The empty sequence enumerates the empty set.
LEMMA EnumeratesNone == Enumerates(<< >>, {})
BY DEF Enumerates

\* A sequence of one.
LEMMA EnumeratesOne ==
  ASSUME NEW x
  PROVE  Enumerates(<<x>>, {x})
BY DEF Enumerates

\* Two sequences of disjoint sets, one behind the other.
LEMMA EnumeratesJoin ==
  ASSUME NEW A, NEW B, A \cap B = {}, NEW s, NEW t, Enumerates(s, A), Enumerates(t, B)
  PROVE  Enumerates(s \o t, A \cup B)
<1>1. s \in Seq(A \cup B) /\ t \in Seq(A \cup B)
  BY DEF Enumerates
<1>2. /\ s \o t \in Seq(A \cup B) /\ Len(s \o t) = Len(s) + Len(t)
      /\ Len(s) \in Nat /\ Len(t) \in Nat
  BY <1>1
<1>a. \A i \in 1 .. Len(s) : s[i] \in A
  BY DEF Enumerates
<1>b. \A i \in 1 .. Len(t) : t[i] \in B
  BY DEF Enumerates
<1>3. \A i \in 1 .. Len(s \o t) : (s \o t)[i] = IF i <= Len(s) THEN s[i] ELSE t[i - Len(s)]
  BY <1>1
<1> DEFINE u == s \o t
<1>d. /\ u \in Seq(A \cup B) /\ Len(u) = Len(s) + Len(t)
      /\ \A i \in 1 .. Len(u) : u[i] = IF i <= Len(s) THEN s[i] ELSE t[i - Len(s)]
  BY <1>2, <1>3
<1> HIDE DEF u
<1>c. /\ \A i \in 1 .. Len(s) : i \in 1 .. Len(u) /\ u[i] = s[i] /\ u[i] \in A
      /\ \A i \in 1 .. Len(t) : /\ i + Len(s) \in 1 .. Len(u)
                               /\ u[i + Len(s)] = t[i] /\ u[i + Len(s)] \in B
      /\ \A i \in 1 .. Len(u) : i \in 1 .. Len(s) \/ \E k \in 1 .. Len(t) : i = k + Len(s)
  <2>1. \A i \in 1 .. Len(s) : i \in 1 .. Len(u) /\ u[i] = s[i] /\ u[i] \in A
    BY <1>2, <1>a, <1>d
  <2>2. \A i \in 1 .. Len(t) : i + Len(s) \in 1 .. Len(u) /\ ~ (i + Len(s) <= Len(s)) /\ (i + Len(s)) - Len(s) = i
    BY <1>2, <1>d
  <2>3. \A i \in 1 .. Len(t) : u[i + Len(s)] = t[i] /\ u[i + Len(s)] \in B
    BY <1>b, <1>d, <2>2
  <2>4. \A i \in 1 .. Len(u) : i \in 1 .. Len(s) \/ (i - Len(s) \in 1 .. Len(t) /\ i = (i - Len(s)) + Len(s))
    BY <1>2, <1>d
  <2> QED BY <2>1, <2>2, <2>3, <2>4
<1>4. \A i, j \in 1 .. Len(u) : u[i] = u[j] => i = j
  <2> SUFFICES ASSUME NEW i \in 1 .. Len(u), NEW j \in 1 .. Len(u), u[i] = u[j] PROVE i = j
    OBVIOUS
  <2>1. CASE i \in 1 .. Len(s)
    <3>1. j \in 1 .. Len(s)
      <4>1. ASSUME NEW k \in 1 .. Len(t), j = k + Len(s) PROVE FALSE
        <5>1. u[i] \in A
          BY <1>c, <2>1
        <5>2. u[k + Len(s)] \in B
          BY <1>c
        <5> QED BY <4>1, <5>1, <5>2
      <4>2. j \in 1 .. Len(s) \/ \E k \in 1 .. Len(t) : j = k + Len(s)
        BY <1>c
      <4> QED BY <4>1, <4>2
    <3> QED BY <1>c, <2>1, <3>1 DEF Enumerates
  <2>2. CASE i \notin 1 .. Len(s)
    <3>1. PICK k \in 1 .. Len(t) : i = k + Len(s)
      BY <1>c, <2>2
    <3>2. PICK l \in 1 .. Len(t) : j = l + Len(s)
      BY <1>c, <3>1
    <3>3. t[k] = t[l]
      BY <1>c, <3>1, <3>2
    <3> QED BY <3>1, <3>2, <3>3 DEF Enumerates
  <2> QED BY <2>1, <2>2
<1>5. \A x \in A \cup B : \E i \in 1 .. Len(u) : u[i] = x
  <2>1. ASSUME NEW x \in A PROVE \E i \in 1 .. Len(u) : u[i] = x
    BY <1>c DEF Enumerates
  <2>2. ASSUME NEW x \in B PROVE \E i \in 1 .. Len(u) : u[i] = x
    <3>1. PICK k \in 1 .. Len(t) : t[k] = x
      BY DEF Enumerates
    <3>2. k + Len(s) \in 1 .. Len(u) /\ u[k + Len(s)] = x
      BY <1>c, <3>1
    <3> QED BY <3>2
  <2> QED BY <2>1, <2>2
<1>6. u \in Seq(A \cup B)
  BY <1>d
<1>7. Enumerates(u, A \cup B)
  BY <1>4, <1>5, <1>6 DEF Enumerates
<1> QED BY <1>7 DEF u

\* A sequence is cut in two.
LEMMA EnumeratesCut ==
  ASSUME NEW A, NEW s, Enumerates(s, A), NEW n \in 0 .. Len(s)
  PROVE  /\ Enumerates(SubSeq(s, 1, n), ToSet(SubSeq(s, 1, n)))
         /\ ToSet(SubSeq(s, 1, n)) \subseteq A
         /\ Enumerates(SubSeq(s, n + 1, Len(s)), A \ ToSet(SubSeq(s, 1, n)))
<1> DEFINE u == SubSeq(s, 1, n)
           v == SubSeq(s, n + 1, Len(s))
           B == ToSet(u)
<1>0. s \in Seq(A) /\ Len(s) \in Nat
  BY DEF Enumerates
<1>1. /\ u \in Seq(A) /\ Len(u) = n
      /\ \A i \in 1 .. n : u[i] = s[i]
  BY <1>0
<1>2. /\ v \in Seq(A) /\ Len(v) = Len(s) - n
      /\ \A i \in 1 .. Len(s) - n : v[i] = s[i + n]
  BY <1>0
<1> HIDE DEF u, v
<1>3. B = {s[i] : i \in 1 .. n} /\ B \subseteq A
  BY <1>1 DEF ToSet
<1>4. Enumerates(u, B)
  <2>1. \A i, j \in 1 .. Len(u) : u[i] = u[j] => i = j
    <3>1. \A i \in 1 .. Len(u) : i \in 1 .. Len(s) /\ u[i] = s[i]
      BY <1>0, <1>1
    <3>2. \A i, j \in 1 .. Len(s) : s[i] = s[j] => i = j
      BY DEF Enumerates
    <3> QED BY <3>1, <3>2
  <2>2. IsInjective(u)
    BY <1>1, <2>1 DEF IsInjective
  <2> QED BY <1>1, <2>2, EnumeratesWhen
<1>5. Enumerates(v, A \ B)
  <2>1. \A i \in 1 .. Len(v) : v[i] \in A \ B
    <3> SUFFICES ASSUME NEW i \in 1 .. Len(v), v[i] \in B PROVE FALSE
      BY <1>2
    <3>1. PICK j \in 1 .. n : v[i] = s[j]
      BY <1>3
    <3>2. i + n \in 1 .. Len(s) /\ j \in 1 .. Len(s) /\ i + n # j /\ v[i] = s[i + n]
      BY <1>0, <1>2
    <3> QED BY <3>1, <3>2 DEF Enumerates
  <2>2. v \in Seq(A \ B)
    BY <1>2, <2>1
  <2>3. \A i, j \in 1 .. Len(v) : v[i] = v[j] => i = j
    <3> SUFFICES ASSUME NEW i \in 1 .. Len(v), NEW j \in 1 .. Len(v), v[i] = v[j] PROVE i = j
      OBVIOUS
    <3>1. i + n \in 1 .. Len(s) /\ j + n \in 1 .. Len(s) /\ s[i + n] = s[j + n]
      BY <1>0, <1>2
    <3>2. i + n = j + n
      BY <3>1 DEF Enumerates
    <3> QED BY <1>0, <1>2, <3>2
  <2>4. ASSUME NEW x \in A \ B PROVE \E i \in 1 .. Len(v) : v[i] = x
    <3>1. PICK k \in 1 .. Len(s) : s[k] = x
      BY DEF Enumerates
    <3>2. k \notin 1 .. n
      BY <1>3, <3>1
    <3>3. k - n \in 1 .. Len(v) /\ (k - n) + n = k
      BY <1>0, <1>2, <3>2
    <3> QED BY <1>2, <3>1, <3>3
  <2> QED BY <2>2, <2>3, <2>4 DEF Enumerates
<1> QED BY <1>3, <1>4, <1>5 DEF u, v

\* The first member removed.
LEMMA EnumeratesTail ==
  ASSUME NEW A, NEW s, Enumerates(s, A), s # << >>
  PROVE  Head(s) \in A /\ Enumerates(Tail(s), A \ {Head(s)})
<1>1. s \in Seq(A) /\ Len(s) \in Nat /\ Len(s) # 0
  BY DEF Enumerates
<1>2. 1 \in 0 .. Len(s) /\ 1 \in 1 .. Len(s)
  BY <1>1
<1>3. Tail(s) = SubSeq(s, 2, Len(s)) /\ Head(s) = s[1] /\ s[1] \in A
  BY <1>1, <1>2
<1>4. ToSet(SubSeq(s, 1, 1)) = {Head(s)}
  BY <1>1, <1>2, <1>3 DEF ToSet
<1>5. Enumerates(SubSeq(s, 1 + 1, Len(s)), A \ ToSet(SubSeq(s, 1, 1)))
  BY <1>2, EnumeratesCut
<1>6. 1 + 1 = 2
  OBVIOUS
<1> QED BY <1>3, <1>4, <1>5, <1>6

\* A new member at the back.
LEMMA EnumeratesAppend ==
  ASSUME NEW A, NEW s, Enumerates(s, A), NEW x, x \notin A
  PROVE  Enumerates(Append(s, x), A \cup {x})
<1>1. Enumerates(s \o <<x>>, A \cup {x})
  BY EnumeratesOne, EnumeratesJoin
<1>2. Append(s, x) = s \o <<x>>
  BY DEF Enumerates
<1> QED BY <1>1, <1>2

\* A new member at the front.
LEMMA EnumeratesCons ==
  ASSUME NEW A, NEW s, Enumerates(s, A), NEW x, x \notin A
  PROVE  Enumerates(<<x>> \o s, A \cup {x})
<1>1. Enumerates(<<x>> \o s, {x} \cup A)
  BY EnumeratesOne, EnumeratesJoin
<1>2. {x} \cup A = A \cup {x}
  OBVIOUS
<1> QED BY <1>1, <1>2

\* The place of i among the positions of K.
Rank(K, i) == Cardinality({j \in K : j <= i})

\* The positions are numbered from 1 on, each by one number.
LEMMA RankNumbers ==
  ASSUME NEW n \in Nat, NEW K \in SUBSET (1 .. n)
  PROVE  /\ IsFiniteSet(K) /\ Cardinality(K) \in Nat
         /\ \A i \in K : Rank(K, i) \in 1 .. Cardinality(K)
         /\ \A i, j \in K : i < j => Rank(K, i) < Rank(K, j)
         /\ \A i, j \in K : Rank(K, i) = Rank(K, j) => i = j
         /\ \A k \in 1 .. Cardinality(K) : \E i \in K : Rank(K, i) = k
<1>1. IsFiniteSet(K) /\ Cardinality(K) \in Nat
  <2>1. IsFiniteSet(1 .. n)
    BY FS_Interval
  <2>2. IsFiniteSet(K)
    BY <2>1, FS_Subset
  <2> QED BY <2>2, FS_CardinalityType
<1> DEFINE Upto(i) == {j \in K : j <= i}
<1>2. \A i \in K : /\ IsFiniteSet(Upto(i)) /\ Cardinality(Upto(i)) \in Nat
                  /\ Cardinality(Upto(i)) <= Cardinality(K) /\ Cardinality(Upto(i)) # 0
  <2> TAKE i \in K
  <2>1. Upto(i) \in SUBSET K /\ i \in Upto(i)
    OBVIOUS
  <2> HIDE DEF Upto
  <2>2. IsFiniteSet(Upto(i)) /\ Cardinality(Upto(i)) <= Cardinality(K)
    BY <1>1, <2>1, FS_Subset
  <2>3. Cardinality(Upto(i)) # 0
    BY <2>1, <2>2, FS_EmptySet
  <2> QED BY <2>2, <2>3, FS_CardinalityType
<1>3. \A i \in K, j \in K : i < j => Cardinality(Upto(i)) < Cardinality(Upto(j))
  <2> SUFFICES ASSUME NEW i \in K, NEW j \in K, i < j
               PROVE  Cardinality(Upto(i)) < Cardinality(Upto(j))
    OBVIOUS
  <2>0. K \in SUBSET Int
    OBVIOUS
  <2>1. Upto(i) \in SUBSET Upto(j) /\ j \in Upto(j) /\ j \notin Upto(i)
    <3>1. \A k \in K : k <= i => k <= j
      BY <2>0
    <3>2. j <= j /\ ~ (j <= i)
      BY <2>0
    <3> QED BY <3>1, <3>2
  <2>2. IsFiniteSet(Upto(j)) /\ Cardinality(Upto(i)) \in Nat /\ Cardinality(Upto(j)) \in Nat
    BY <1>2
  <2> HIDE DEF Upto
  <2>3. /\ Cardinality(Upto(i)) <= Cardinality(Upto(j))
        /\ Cardinality(Upto(j)) = Cardinality(Upto(i)) => Upto(j) = Upto(i)
    BY <2>1, <2>2, FS_Subset
  <2> QED BY <2>1, <2>2, <2>3
<1>4. \A i \in K : Rank(K, i) = Cardinality(Upto(i))
  BY DEF Rank
<1> HIDE DEF Upto
<1>5. \A i \in K : Rank(K, i) \in 1 .. Cardinality(K)
  BY <1>1, <1>2, <1>4
<1>6. \A i, j \in K : Rank(K, i) = Rank(K, j) => i = j
  <2> SUFFICES ASSUME NEW i \in K, NEW j \in K, Rank(K, i) = Rank(K, j) PROVE i = j
    OBVIOUS
  <2>1. i \in Int /\ j \in Int /\ ~ (i < j) /\ ~ (j < i)
    BY <1>2, <1>3, <1>4
  <2> QED BY <2>1
<1>7. \A k \in 1 .. Cardinality(K) : \E i \in K : Rank(K, i) = k
  <2> DEFINE f == [i \in K |-> Rank(K, i)]
             N == 1 .. Cardinality(K)
  <2>1. f \in [K -> N] /\ \A i \in K : f[i] = Rank(K, i)
    BY <1>5
  <2>2. IsFiniteSet(N) /\ Cardinality(N) = Cardinality(K)
    BY <1>1, FS_Interval
  <2> HIDE DEF f, N
  <2>3. f \in Injection(K, N)
    BY <1>6, <2>1 DEF Injection, IsInjective
  <2>4. f \in Surjection(K, N)
    BY <2>2, <2>3, FS_Injection
  <2> QED BY <2>1, <2>4 DEF Surjection, N
<1>8. \A i, j \in K : i < j => Rank(K, i) < Rank(K, j)
  BY <1>3, <1>4
<1> QED BY <1>1, <1>5, <1>6, <1>7, <1>8

\* The pools that stay on a ring.
LEMMA EnumeratesWithout ==
  ASSUME NEW A, NEW s, Enumerates(s, A), NEW B
  PROVE  Enumerates(Without(s, B), A \ B)
<1> DEFINE K == {i \in DOMAIN s : s[i] \notin B}
           at(k) == CHOOSE i \in K : Rank(K, i) = k
           u == Without(s, B)
<1>1. s \in Seq(A) /\ Len(s) \in Nat /\ DOMAIN s = 1 .. Len(s)
  BY DEF Enumerates
<1>2. K \in SUBSET (1 .. Len(s)) /\ \A i \in 1 .. Len(s) : i \in K <=> s[i] \notin B
  BY <1>1
<1>3. u = [k \in 1 .. Cardinality(K) |-> s[at(k)]]
  BY DEF Without, Rank
<1> HIDE DEF K, u
<1>4. /\ IsFiniteSet(K) /\ Cardinality(K) \in Nat
      /\ \A i \in K : Rank(K, i) \in 1 .. Cardinality(K)
      /\ \A i, j \in K : Rank(K, i) = Rank(K, j) => i = j
      /\ \A k \in 1 .. Cardinality(K) : \E i \in K : Rank(K, i) = k
  BY <1>1, <1>2, RankNumbers
<1>5. \A k \in 1 .. Cardinality(K) : at(k) \in K /\ Rank(K, at(k)) = k
  BY <1>4
<1>6. \A i \in K : at(Rank(K, i)) = i
  BY <1>4, <1>5
<1> HIDE DEF at
<1>7. Len(u) = Cardinality(K) /\ \A k \in 1 .. Len(u) : u[k] = s[at(k)] /\ at(k) \in K
  BY <1>3, <1>4, <1>5
<1>8. \A k \in 1 .. Len(u) : u[k] \in A \ B
  <2> TAKE k \in 1 .. Len(u)
  <2>1. at(k) \in 1 .. Len(s) /\ u[k] = s[at(k)] /\ s[at(k)] \notin B
    BY <1>2, <1>7
  <2> QED BY <1>1, <2>1 DEF Enumerates
<1>9. u \in Seq(A \ B)
  <2>1. u = [k \in 1 .. Cardinality(K) |-> u[k]]
    BY <1>3
  <2> QED BY <1>4, <1>7, <1>8, <2>1
<1>10. \A k, l \in 1 .. Len(u) : u[k] = u[l] => k = l
  <2> SUFFICES ASSUME NEW k \in 1 .. Len(u), NEW l \in 1 .. Len(u), u[k] = u[l] PROVE k = l
    OBVIOUS
  <2>1. at(k) \in 1 .. Len(s) /\ at(l) \in 1 .. Len(s) /\ s[at(k)] = s[at(l)]
    BY <1>2, <1>7
  <2>2. at(k) = at(l)
    BY <2>1 DEF Enumerates
  <2> QED BY <1>5, <1>7, <2>2
<1>11. \A x \in A \ B : \E k \in 1 .. Len(u) : u[k] = x
  <2> TAKE x \in A \ B
  <2>1. PICK i \in 1 .. Len(s) : s[i] = x
    BY DEF Enumerates
  <2>2. i \in K
    BY <1>2, <2>1
  <2>3. Rank(K, i) \in 1 .. Len(u) /\ at(Rank(K, i)) = i
    BY <1>4, <1>6, <1>7, <2>2
  <2> QED BY <1>7, <2>1, <2>3
<1>12. Enumerates(u, A \ B)
  BY <1>9, <1>10, <1>11 DEF Enumerates
<1> QED BY <1>12 DEF u

\* a comes before b.
Before(s, a, b) == \E i, j \in 1 .. Len(s) : i < j /\ s[i] = a /\ s[j] = b

\* The members that stay do so in the same order.
LEMMA BeforeWithout ==
  ASSUME NEW A, NEW s \in Seq(A), NEW B, NEW a, NEW b, Before(Without(s, B), a, b)
  PROVE  Before(s, a, b) /\ a \notin B /\ b \notin B
<1> DEFINE K == {i \in DOMAIN s : s[i] \notin B}
           at(k) == CHOOSE i \in K : Rank(K, i) = k
           u == Without(s, B)
<1>1. Len(s) \in Nat /\ DOMAIN s = 1 .. Len(s)
  OBVIOUS
<1>2. K \in SUBSET (1 .. Len(s)) /\ \A i \in K : s[i] \notin B
  BY <1>1
<1>3. u = [k \in 1 .. Cardinality(K) |-> s[at(k)]]
  BY DEF Without, Rank
<1>4. PICK k \in 1 .. Len(u), l \in 1 .. Len(u) : k < l /\ u[k] = a /\ u[l] = b
  BY DEF Before
<1> HIDE DEF K, u
<1>5. /\ Cardinality(K) \in Nat
      /\ \A i \in K : Rank(K, i) \in 1 .. Cardinality(K)
      /\ \A i, j \in K : i < j => Rank(K, i) < Rank(K, j)
      /\ \A n \in 1 .. Cardinality(K) : \E i \in K : Rank(K, i) = n
  BY <1>1, <1>2, RankNumbers
<1>6. \A n \in 1 .. Cardinality(K) : at(n) \in K /\ Rank(K, at(n)) = n
  BY <1>5
<1> HIDE DEF at
<1>7. k \in 1 .. Cardinality(K) /\ l \in 1 .. Cardinality(K) /\ a = s[at(k)] /\ b = s[at(l)]
  BY <1>3, <1>4, <1>5
<1>8. at(k) \in 1 .. Len(s) /\ at(l) \in 1 .. Len(s) /\ at(k) < at(l)
  <2>1. PICK i \in K, j \in K : i = at(k) /\ j = at(l)
    BY <1>6, <1>7
  <2>2. Rank(K, i) = k /\ Rank(K, j) = l /\ i \in 1 .. Len(s) /\ j \in 1 .. Len(s)
    BY <1>2, <1>6, <1>7, <2>1
  <2>3. i # j /\ ~ (j < i)
    <3>1. j < i => Rank(K, j) < Rank(K, i)
      BY <1>5
    <3> QED BY <1>4, <2>2, <3>1
  <2> QED BY <2>1, <2>2, <2>3
<1>9. a \notin B /\ b \notin B
  BY <1>2, <1>6, <1>7
<1> QED BY <1>7, <1>8, <1>9 DEF Before

\* A new member at the back changes the order of no others.
LEMMA BeforeAppend ==
  ASSUME NEW A, NEW s \in Seq(A), NEW x, NEW a, NEW b, Before(s \o <<x>>, a, b)
  PROVE  Before(s, a, b) \/ b = x
<1> DEFINE u == s \o <<x>>
<1>1. PICK i \in 1 .. Len(u), j \in 1 .. Len(u) : i < j /\ u[i] = a /\ u[j] = b
  BY DEF Before
<1>2. /\ Len(s) \in Nat /\ Len(u) = Len(s) + 1
      /\ \A k \in 1 .. Len(s) : u[k] = s[k]
      /\ u[Len(s) + 1] = x
  OBVIOUS
<1> HIDE DEF u
<1>3. i \in 1 .. Len(s) /\ (j \in 1 .. Len(s) \/ j = Len(s) + 1)
  BY <1>1, <1>2
<1> QED BY <1>1, <1>2, <1>3 DEF Before

\* Nor does one at the front.
LEMMA BeforeCons ==
  ASSUME NEW A, NEW s \in Seq(A), NEW x, NEW a, NEW b, Before(<<x>> \o s, a, b)
  PROVE  Before(s, a, b) \/ a = x
<1> DEFINE u == <<x>> \o s
<1>1. PICK i \in 1 .. Len(u), j \in 1 .. Len(u) : i < j /\ u[i] = a /\ u[j] = b
  BY DEF Before
<1>2. /\ Len(s) \in Nat /\ Len(u) = Len(s) + 1
      /\ \A k \in 1 .. Len(s) : u[k + 1] = s[k]
      /\ u[1] = x
  OBVIOUS
<1> HIDE DEF u
<1>3. i = 1 \/ (/\ i - 1 \in 1 .. Len(s) /\ j - 1 \in 1 .. Len(s) /\ i - 1 < j - 1
                /\ (i - 1) + 1 = i /\ (j - 1) + 1 = j)
  BY <1>1, <1>2
<1>4. CASE i = 1
  BY <1>1, <1>2, <1>4
<1>5. CASE i # 1
  BY <1>1, <1>2, <1>3, <1>5 DEF Before
<1> QED BY <1>4, <1>5

\* Nothing comes before the head.
LEMMA BeforeHead ==
  ASSUME NEW A, NEW s, Enumerates(s, A), s # << >>, NEW a
  PROVE  ~ Before(s, a, Head(s))
<1>1. s \in Seq(A) /\ Len(s) \in Nat /\ Len(s) # 0 /\ Head(s) = s[1]
  BY DEF Enumerates
<1>2. \A j \in 1 .. Len(s) : s[j] = s[1] => j = 1
  BY <1>1 DEF Enumerates
<1> QED BY <1>1, <1>2 DEF Before
-----------------------------------------------------------------------------
(* Circular lists as closed sets of nodes.                                 *)

Closed(nx, B) == \A s \in B : nx[s] \in B

Cycle(nx, pv, A) ==
  /\ A # {}
  /\ \A s \in A : nx[s] \in A /\ pv[s] \in A /\ pv[nx[s]] = s /\ nx[pv[s]] = s
  /\ \A B \in SUBSET A : B # {} /\ Closed(nx, B) => B = A

-----------------------------------------------------------------------------
(* Unlinking and joining.                                                  *)

\* Only the links of its own nodes matter to a ring.
LEMMA CycleFrame ==
  ASSUME NEW A, NEW nx, NEW pv, Cycle(nx, pv, A), NEW nx1, NEW pv1,
         \A s \in A : nx1[s] = nx[s] /\ pv1[s] = pv[s]
  PROVE  Cycle(nx1, pv1, A)
BY DEF Cycle, Closed

\* A node that is linked to itself is a ring.
LEMMA CycleAlone ==
  ASSUME NEW x, NEW nx, NEW pv, nx[x] = x, pv[x] = x
  PROVE  Cycle(nx, pv, {x})
<1>1. \A B \in SUBSET {x} : B # {} => B = {x}
  OBVIOUS
<1> QED BY <1>1 DEF Cycle, Closed

\* There is no other node on its ring.
LEMMA CycleOfOne ==
  ASSUME NEW A, NEW nx, NEW pv, Cycle(nx, pv, A), NEW x \in A, nx[x] = x
  PROVE  A = {x}
<1>1. {x} \in SUBSET A /\ {x} # {} /\ Closed(nx, {x})
  BY DEF Closed
<1> QED BY <1>1 DEF Cycle

\* The neighbours of a node are linked to each other.
LEMMA CycleUnlink ==
  ASSUME NEW A, NEW nx, NEW pv, Cycle(nx, pv, A), NEW x \in A, nx[x] # x,
         NEW nx1, NEW pv1,
         \A s \in A \ {x} : nx1[s] = IF s = pv[x] THEN nx[x] ELSE nx[s],
         \A s \in A \ {x} : pv1[s] = IF s = nx[x] THEN pv[x] ELSE pv[s]
  PROVE  Cycle(nx1, pv1, A \ {x}) /\ nx[x] \in A \ {x}
<1> DEFINE A1 == A \ {x}
<1>1. nx[x] \in A1 /\ pv[x] \in A1
  BY DEF Cycle
<1>2. \A s \in A1 : /\ nx1[s] \in A1 /\ pv1[s] \in A1
                    /\ pv1[nx1[s]] = s /\ nx1[pv1[s]] = s
  BY <1>1 DEF Cycle
<1>3. ASSUME NEW B \in SUBSET A1, B # {}, Closed(nx1, B)
      PROVE  B = A1
  <2> DEFINE D == B \cup {s \in {x} : pv[x] \in B}
  <2>1. D \in SUBSET A /\ D # {}
    BY <1>3
  <2>2. Closed(nx, D)
    <3> SUFFICES ASSUME NEW s \in D PROVE nx[s] \in D
      BY DEF Closed
    <3>1. CASE s = x
      <4>1. pv[x] \in B
        BY <3>1, <1>3
      <4> QED BY <4>1, <3>1, <1>1, <1>3 DEF Closed
    <3>2. CASE s = pv[x] /\ s # x
      <4>1. nx[s] = x /\ s \in B
        BY <3>2 DEF Cycle
      <4> QED BY <3>2, <4>1
    <3>3. CASE s # pv[x] /\ s # x
      BY <3>3, <1>1, <1>3 DEF Closed
    <3> QED BY <3>1, <3>2, <3>3
  <2>3. D = A
    BY <2>1, <2>2 DEF Cycle
  <2> QED BY <2>3, <1>3
<1>4. A1 # {}
  BY <1>1
<1> HIDE DEF A1
<1>5. Cycle(nx1, pv1, A1)
  BY <1>2, <1>3, <1>4 DEF Cycle
<1> QED BY <1>1, <1>5 DEF A1

\* A ring is inserted between the last node and the first node of another.
LEMMA CycleJoin ==
  ASSUME NEW A, NEW B, NEW nx, NEW pv, Cycle(nx, pv, A), Cycle(nx, pv, B), A \cap B = {},
         NEW x \in A, NEW y \in B, NEW nx1, NEW pv1,
         \A s \in A \cup B : nx1[s] = IF s = pv[x] THEN y ELSE IF s = pv[y] THEN x ELSE nx[s],
         \A s \in A \cup B : pv1[s] = IF s = y THEN pv[x] ELSE IF s = x THEN pv[y] ELSE pv[s]
  PROVE  Cycle(nx1, pv1, A \cup B)
<1>1. pv[x] \in A /\ pv[y] \in B /\ nx[pv[x]] = x /\ nx[pv[y]] = y
  BY DEF Cycle
<1>2. \A s \in A \cup B : nx1[s] \in A \cup B /\ pv1[s] \in A \cup B
  BY <1>1 DEF Cycle
<1>3. \A s \in A \cup B : pv1[nx1[s]] = s /\ nx1[pv1[s]] = s
  <2> TAKE s \in A \cup B
  <2>1. pv1[nx1[s]] = s
    <3>1. CASE s = pv[x]
      BY <3>1, <1>1
    <3>2. CASE s = pv[y]
      BY <3>2, <1>1
    <3>3. CASE s # pv[x] /\ s # pv[y]
      <4>1. nx1[s] = nx[s] /\ nx[s] \in A \cup B /\ pv[nx[s]] = s
        BY <3>3 DEF Cycle
      <4>2. nx[s] # x /\ nx[s] # y
        BY <3>3, <4>1
      <4> QED BY <4>1, <4>2
    <3> QED BY <3>1, <3>2, <3>3
  <2>2. nx1[pv1[s]] = s
    <3>1. CASE s = y
      BY <3>1, <1>1
    <3>2. CASE s = x
      BY <3>2, <1>1
    <3>3. CASE s # x /\ s # y
      <4>1. pv1[s] = pv[s] /\ pv[s] \in A \cup B /\ nx[pv[s]] = s
        BY <3>3 DEF Cycle
      <4>2. pv[s] # pv[x] /\ pv[s] # pv[y]
        BY <3>3, <4>1, <1>1
      <4> QED BY <4>1, <4>2
    <3> QED BY <3>1, <3>2, <3>3
  <2> QED BY <2>1, <2>2
<1>4. ASSUME NEW D \in SUBSET (A \cup B), D # {}, Closed(nx1, D)
      PROVE  D = A \cup B
  \* A part of one ring that does not reach its last node is closed there.
  <2>1. ASSUME D \cap A # {} PROVE pv[x] \in D
    <3>1. CASE pv[x] \notin D
      <4>1. Closed(nx, D \cap A)
        BY <3>1, <1>1, <1>4 DEF Closed, Cycle
      <4>2. D \cap A = A
        BY <2>1, <4>1 DEF Cycle
      <4> QED BY <4>2, <3>1, <1>1
    <3> QED BY <3>1
  <2>2. ASSUME D \cap B # {} PROVE pv[y] \in D
    <3>1. CASE pv[y] \notin D
      <4>1. Closed(nx, D \cap B)
        BY <3>1, <1>1, <1>4 DEF Closed, Cycle
      <4>2. D \cap B = B
        BY <2>2, <4>1 DEF Cycle
      <4> QED BY <4>2, <3>1, <1>1
    <3> QED BY <3>1
  <2>3. pv[x] \in D => y \in D
    BY <1>1, <1>4 DEF Closed
  <2>4. pv[y] \in D => x \in D
    BY <1>1, <1>4 DEF Closed
  <2>5. D \cap A # {} /\ D \cap B # {} /\ {x, y, pv[x], pv[y]} \subseteq D
    BY <1>1, <1>4, <2>1, <2>2, <2>3, <2>4
  <2>6. Closed(nx, D \cap A) /\ Closed(nx, D \cap B)
    BY <1>1, <1>4, <2>5 DEF Closed, Cycle
  <2>7. D \cap A = A /\ D \cap B = B
    BY <2>5, <2>6 DEF Cycle
  <2> QED BY <2>7
<1> QED BY <1>2, <1>3, <1>4 DEF Cycle
-----------------------------------------------------------------------------
(* Walking along a ring.                                                   *)

\* w applies nx N times from x on.
Iterates(E, nx, x, N, w) ==
  w \in [0 .. N -> E] /\ \A k \in 0 .. N : w[k] = IF k = 0 THEN x ELSE nx[w[k - 1]]
HasIterates(E, nx, x, N) == \E w : Iterates(E, nx, x, N, w)

\* A walk can always take one more step.
LEMMA IteratesExist ==
  ASSUME NEW E, NEW nx \in [E -> E], NEW x \in E, NEW N \in Nat
  PROVE  HasIterates(E, nx, x, N)
<1> DEFINE T == {n \in 0 .. N : HasIterates(E, nx, x, n)}
<1>1. 0 \in T
  <2>1. Iterates(E, nx, x, 0, [k \in 0 .. 0 |-> x])
    BY DEF Iterates
  <2> QED BY <2>1 DEF HasIterates
<1>2. \A i \in 0 .. N - 1 : i \in T => i + 1 \in T
  <2> SUFFICES ASSUME NEW i \in 0 .. N - 1, HasIterates(E, nx, x, i)
               PROVE  HasIterates(E, nx, x, i + 1)
    OBVIOUS
  <2>1. PICK w : Iterates(E, nx, x, i, w)
    BY DEF HasIterates
  <2> DEFINE v == [k \in 0 .. i + 1 |-> IF k = i + 1 THEN nx[w[i]] ELSE w[k]]
  <2>2. v \in [0 .. i + 1 -> E]
    BY <2>1 DEF Iterates
  <2>3. \A k \in 0 .. i + 1 : v[k] = IF k = 0 THEN x ELSE nx[v[k - 1]]
    <3> TAKE k \in 0 .. i + 1
    <3>1. CASE k = i + 1
      BY <3>1
    <3>2. CASE k # i + 1
      <4>1. k \in 0 .. i /\ (k # 0 => k - 1 \in 0 .. i)
        BY <3>2
      <4> QED BY <3>2, <4>1, <2>1 DEF Iterates
    <3> QED BY <3>1, <3>2
  <2> HIDE DEF v
  <2> QED BY <2>2, <2>3 DEF Iterates, HasIterates
<1>3. T = 0 .. N
  <2>1. T \in SUBSET (0 .. N)
    OBVIOUS
  <2> HIDE DEF T
  <2> QED BY <1>1, <1>2, <2>1, IntervalInduction
<1> QED BY <1>3

\* As many steps as there are nodes meet the whole ring: one node is met twice,
\* and what is met in between is closed.
LEMMA CycleMet ==
  ASSUME NEW E, IsFiniteSet(E), NEW nx \in [E -> E], NEW pv, NEW A \in SUBSET E,
         Cycle(nx, pv, A), NEW x \in A, NEW w, Iterates(E, nx, x, Cardinality(E), w)
  PROVE  {w[k] : k \in 0 .. Cardinality(E)} = A
<1>0. PICK N : N = Cardinality(E) /\ N \in Nat
  BY FS_CardinalityType
<1> DEFINE T == {k \in 0 .. N : w[k] \in A}
<1>1. T = 0 .. N
  <2>1. T \in SUBSET (0 .. N) /\ 0 \in T
    BY <1>0 DEF Iterates
  <2>2. \A i \in 0 .. N - 1 : i \in T => i + 1 \in T
    <3> SUFFICES ASSUME NEW i \in 0 .. N - 1, w[i] \in A PROVE w[i + 1] \in A
      BY <1>0
    <3>1. i + 1 \in 0 .. N /\ i + 1 # 0 /\ (i + 1) - 1 = i
      BY <1>0
    <3>2. w[i + 1] = nx[w[i]]
      BY <3>1, <1>0 DEF Iterates
    <3> QED BY <3>2 DEF Cycle
  <2> HIDE DEF T
  <2> QED BY <1>0, <2>1, <2>2, IntervalInduction
<1>2. PICK i \in 0 .. N, j \in 0 .. N : i < j /\ w[i] = w[j]
  <2>1. IsFiniteSet(0 .. N) /\ Cardinality(0 .. N) = N + 1
    BY <1>0, FS_Interval
  <2>2. w \in [0 .. N -> E]
    BY <1>0 DEF Iterates
  <2>3. \E a, b \in 0 .. N : a # b /\ w[a] = w[b]
    <3>1. Cardinality(E) < Cardinality(0 .. N)
      BY <1>0, <2>1
    <3> QED BY <2>1, <2>2, <3>1, FS_PigeonHole
  <2>4. PICK a \in 0 .. N, b \in 0 .. N : a # b /\ w[a] = w[b]
    BY <2>3
  <2>5. a < b \/ b < a
    BY <2>4, <1>0
  <2> QED BY <2>4, <2>5
<1> DEFINE B == {w[k] : k \in 0 .. j - 1}
<1>3. B \in SUBSET A /\ B # {}
  <2>1. \A k \in 0 .. j - 1 : k \in 0 .. N
    BY <1>0
  <2>2. 0 \in 0 .. j - 1
    BY <1>0, <1>2
  <2> QED BY <1>1, <2>1, <2>2
<1>4. Closed(nx, B)
  <2> SUFFICES ASSUME NEW k \in 0 .. j - 1 PROVE nx[w[k]] \in B
    BY DEF Closed
  <2>1. k + 1 \in 0 .. N /\ k + 1 # 0 /\ (k + 1) - 1 = k
    BY <1>0
  <2>2. nx[w[k]] = w[k + 1]
    BY <1>0, <2>1 DEF Iterates
  <2>3. CASE k + 1 = j
    <3>1. i \in 0 .. j - 1
      BY <1>0, <1>2
    <3> QED BY <1>2, <2>2, <2>3, <3>1
  <2>4. CASE k + 1 # j
    <3>1. k + 1 \in 0 .. j - 1
      BY <1>0, <2>4
    <3> QED BY <2>2, <3>1
  <2> QED BY <2>3, <2>4
<1>5. B = A
  BY <1>3, <1>4 DEF Cycle
<1>6. \A k \in 0 .. j - 1 : k \in 0 .. N
  BY <1>0
<1>7. {w[k] : k \in 0 .. N} = A
  BY <1>1, <1>5, <1>6
<1> QED BY <1>0, <1>7

-----------------------------------------------------------------------------
(* Rings in memory.                                                        *)

RingMemory(H, E) == [head : [H -> E \cup {NULL}], next : [E -> E], prev : [E -> E]]

\* The ring at *l has the nodes of A.
OnRing(m, l, A) ==
  \/ m.head[l] = NULL /\ A = {}
  \/ m.head[l] \in A /\ Cycle(m.next, m.prev, A)

\* The walk of module Rings, a recursive function, applies `next` again and
\* again.
LEMMA WalkIterates ==
  ASSUME NEW E, IsFiniteSet(E), NEW m, m.next \in [E -> E], NEW x \in E
  PROVE  Iterates(E, m.next, x, Cardinality(E), Walk(m, x))
<1> DEFINE N == Cardinality(E)
           F(c) == [k \in 0 .. Cardinality(DOMAIN m.next) |->
                      IF k = 0 THEN x ELSE m.next[c[k - 1]]]
<1>1. DOMAIN m.next = E /\ N \in Nat
  BY FS_CardinalityType
<1>2. PICK g : Iterates(E, m.next, x, N, g)
  <2>1. PICK nx, n : nx = m.next /\ n = N
    OBVIOUS
  <2>2. HasIterates(E, nx, x, n)
    BY <1>1, <2>1, IteratesExist
  <2> QED BY <2>1, <2>2 DEF HasIterates
<1>3. g = F(g)
  BY <1>1, <1>2 DEF Iterates
<1>4. Walk(m, x) = CHOOSE c : c = F(c)
  BY DEF Walk
<1>5. Walk(m, x) = F(Walk(m, x))
  <2> HIDE DEF F
  <2> QED BY <1>3, <1>4, Zenon
<1>6. PICK w : w = Walk(m, x)
  OBVIOUS
<1>7. DOMAIN w = 0 .. N /\ \A k \in 0 .. N : w[k] = IF k = 0 THEN x ELSE m.next[w[k - 1]]
  BY <1>1, <1>5, <1>6
<1>8. w \in [0 .. N -> E]
  <2> DEFINE T == {k \in 0 .. N : w[k] \in E}
  <2>1. T \in SUBSET (0 .. N) /\ 0 \in T
    BY <1>1, <1>7
  <2>2. \A i \in 0 .. N - 1 : i \in T => i + 1 \in T
    <3> SUFFICES ASSUME NEW i \in 0 .. N - 1, w[i] \in E PROVE w[i + 1] \in E
      BY <1>1
    <3>1. i + 1 \in 0 .. N /\ i + 1 # 0 /\ (i + 1) - 1 = i
      BY <1>1
    <3> QED BY <1>1, <1>7, <3>1
  <2>3. T = 0 .. N
    <3> HIDE DEF T, N
    <3> QED BY <1>1, <2>1, <2>2, IntervalInduction
  <2>4. \A k \in 0 .. N : w[k] \in E
    BY <2>3
  <2>5. w = [k \in 0 .. N |-> w[k]]
    BY <1>5, <1>6, <1>1
  <2> QED BY <2>4, <2>5
<1> QED BY <1>6, <1>7, <1>8 DEF Iterates

\* Walking along a ring in memory meets its nodes and no other.
LEMMA RingIsCycle ==
  ASSUME NEW E, IsFiniteSet(E), NULL \notin E, NEW m, m.next \in [E -> E],
         NEW l, NEW A \in SUBSET E, OnRing(m, l, A)
  PROVE  Ring(m, l) = A
<1>1. CASE m.head[l] = NULL
  BY <1>1 DEF OnRing, Ring
<1>2. CASE m.head[l] # NULL
  <2> DEFINE x == m.head[l]
             N == Cardinality(E)
  <2>1. /\ m.next \in [E -> E] /\ x \in A /\ x \in E /\ Cycle(m.next, m.prev, A)
        /\ N \in Nat
    BY <1>2, FS_CardinalityType DEF OnRing
  <2>6. PICK w : w = Walk(m, x)
    OBVIOUS
  <2>9. Iterates(E, m.next, x, N, w)
    <3>1. PICK y : y = x
      OBVIOUS
    <3>2. Iterates(E, m.next, y, Cardinality(E), Walk(m, y))
      BY <2>1, <3>1, WalkIterates
    <3> QED BY <2>6, <3>1, <3>2
  <2>7. DOMAIN w = 0 .. N
    BY <2>9 DEF Iterates
  <2>10. {w[k] : k \in 0 .. N} = A
    <3>1. PICK nx, pv, y : nx = m.next /\ pv = m.prev /\ y = x
      OBVIOUS
    <3>2. /\ nx \in [E -> E] /\ Cycle(nx, pv, A) /\ y \in A
          /\ Iterates(E, nx, y, Cardinality(E), w)
      BY <2>1, <2>9, <3>1
    <3> QED BY <3>2, CycleMet
  <2> QED BY <1>2, <2>6, <2>7, <2>10 DEF Ring
<1> QED BY <1>1, <1>2

\* A set of numbers has a least one.
IsLeast(n, S) == n \in S /\ \A k \in S : n <= k

LEMMA LeastExists ==
  ASSUME NEW N \in Nat, NEW S \in SUBSET (0 .. N), S # {}
  PROVE  \E n : IsLeast(n, S)
<1> SUFFICES ASSUME \A n : ~ IsLeast(n, S) PROVE FALSE
  OBVIOUS
<1> DEFINE T == {i \in 0 .. N : \A j \in 0 .. i : j \notin S}
<1>1. T \in SUBSET (0 .. N) /\ 0 \in T
  <2>1. 0 \notin S
    BY DEF IsLeast
  <2> QED BY <2>1
<1>2. \A i \in 0 .. N - 1 : i \in T => i + 1 \in T
  <2> SUFFICES ASSUME NEW i \in 0 .. N - 1, \A j \in 0 .. i : j \notin S
               PROVE  i + 1 \notin S
    OBVIOUS
  <2>1. \A k \in S : i + 1 <= k
    OBVIOUS
  <2> QED BY <2>1 DEF IsLeast
<1>3. T = 0 .. N
  <2> HIDE DEF T
  <2> QED BY <1>1, <1>2, IntervalInduction
<1>4. PICK k \in 0 .. N : k \in S
  OBVIOUS
<1>5. k \in 0 .. k
  OBVIOUS
<1> QED BY <1>3, <1>4, <1>5

\* One step along a ring, short of h, is one step less to h.
LEMMA StepsCloser ==
  ASSUME NEW E, IsFiniteSet(E), NEW m, m.next \in [E -> E], NEW A \in SUBSET E,
         Cycle(m.next, m.prev, A), NEW x \in A, NEW h \in A, NEW y, y = m.next[x], y # h
  PROVE  StepsTo(m, y, h) < StepsTo(m, x, h)
<1>1. PICK N : N = Cardinality(E) /\ N \in Nat
  BY FS_CardinalityType
<1>2. PICK w, v : w = Walk(m, x) /\ v = Walk(m, y)
  OBVIOUS
<1>3. x \in E /\ y \in A /\ y \in E
  BY DEF Cycle
<1>4. Iterates(E, m.next, x, N, w) /\ Iterates(E, m.next, y, N, v)
  <2>1. Iterates(E, m.next, x, Cardinality(E), Walk(m, x))
    BY <1>3, WalkIterates
  <2>2. Iterates(E, m.next, y, Cardinality(E), Walk(m, y))
    BY <1>3, WalkIterates
  <2> QED BY <1>1, <1>2, <2>1, <2>2
<1>5. \A k \in 0 .. N - 1 : v[k] = w[k + 1]
  <2> DEFINE T == {k \in 0 .. N : k < N => v[k] = w[k + 1]}
  <2>1. T \in SUBSET (0 .. N) /\ 0 \in T
    <3>1. v[0] = y /\ w[0] = x /\ (0 < N => w[1] = m.next[w[0]])
      BY <1>1, <1>4 DEF Iterates
    <3> QED BY <1>1, <3>1
  <2>2. \A i \in 0 .. N - 1 : i \in T => i + 1 \in T
    <3> SUFFICES ASSUME NEW i \in 0 .. N - 1, v[i] = w[i + 1], i + 1 < N
                 PROVE  v[i + 1] = w[(i + 1) + 1]
      BY <1>1
    <3>1. /\ i + 1 \in 0 .. N /\ i + 1 # 0 /\ (i + 1) - 1 = i
          /\ (i + 1) + 1 \in 0 .. N /\ (i + 1) + 1 # 0 /\ ((i + 1) + 1) - 1 = i + 1
      BY <1>1
    <3>2. v[i + 1] = m.next[v[i]]
      BY <1>4, <3>1 DEF Iterates
    <3>3. w[(i + 1) + 1] = m.next[w[i + 1]]
      BY <1>4, <3>1 DEF Iterates
    <3> QED BY <3>2, <3>3
  <2>3. T = 0 .. N
    <3> HIDE DEF T
    <3> QED BY <1>1, <2>1, <2>2, IntervalInduction
  <2> QED BY <1>1, <2>3
<1> DEFINE V == {n \in 0 .. N : n # 0 /\ v[n] = h}
           W == {n \in 0 .. N : n # 0 /\ w[n] = h}
<1>6. /\ StepsTo(m, y, h) = IF V = {} THEN N + 1 ELSE CHOOSE n : IsLeast(n, V)
      /\ StepsTo(m, x, h) = IF W = {} THEN N + 1 ELSE CHOOSE n : IsLeast(n, W)
  <2>1. DOMAIN v = 0 .. N /\ DOMAIN w = 0 .. N /\ Cardinality(0 .. N) = N + 1
    BY <1>1, <1>4, FS_Interval DEF Iterates
  <2>2. {n \in DOMAIN v \ {0} : v[n] = h} = V /\ {n \in DOMAIN w \ {0} : w[n] = h} = W
    BY <2>1
  <2>3. StepsTo(m, y, h) = IF {n \in DOMAIN v \ {0} : v[n] = h} = {} THEN Cardinality(DOMAIN v)
                           ELSE CHOOSE n : IsLeast(n, {k \in DOMAIN v \ {0} : v[k] = h})
    BY <1>2 DEF StepsTo, IsLeast
  <2>4. StepsTo(m, x, h) = IF {n \in DOMAIN w \ {0} : w[n] = h} = {} THEN Cardinality(DOMAIN w)
                           ELSE CHOOSE n : IsLeast(n, {k \in DOMAIN w \ {0} : w[k] = h})
    BY <1>2 DEF StepsTo, IsLeast
  <2> HIDE DEF V, W
  <2> QED BY <2>1, <2>2, <2>3, <2>4
<1>7. V # {}
  <2>1. {v[k] : k \in 0 .. Cardinality(E)} = A
    <3>1. PICK nx, pv : nx = m.next /\ pv = m.prev
      OBVIOUS
    <3>2. nx \in [E -> E] /\ Cycle(nx, pv, A) /\ Iterates(E, nx, y, Cardinality(E), v)
      BY <1>1, <1>4, <3>1
    <3> QED BY <1>3, <3>2, CycleMet
  <2>2. PICK k \in 0 .. N : v[k] = h
    BY <1>1, <2>1
  <2>3. k # 0
    BY <1>1, <1>4, <2>2 DEF Iterates
  <2> QED BY <2>2, <2>3
<1>8. PICK b : b = StepsTo(m, y, h) /\ IsLeast(b, V)
  <2>1. \E n : IsLeast(n, V)
    BY <1>1, <1>7, LeastExists
  <2> HIDE DEF V
  <2> QED BY <1>6, <1>7, <2>1
<1>9. CASE W = {}
  BY <1>1, <1>6, <1>8, <1>9 DEF IsLeast
<1>10. CASE W # {}
  <2>1. PICK a : a = StepsTo(m, x, h) /\ IsLeast(a, W)
    <3>1. \E n : IsLeast(n, W)
      BY <1>1, <1>10, LeastExists
    <3> HIDE DEF W
    <3> QED BY <1>6, <1>10, <3>1
  <2>2. a \in 0 .. N /\ a # 0 /\ w[a] = h
    BY <2>1 DEF IsLeast
  <2>3. a - 1 \in 0 .. N - 1 /\ a - 1 \in 0 .. N /\ (a - 1) + 1 = a
    BY <1>1, <2>2
  <2>4. v[a - 1] = h
    <3>1. v[a - 1] = w[(a - 1) + 1]
      BY <1>5, <2>3
    <3> QED BY <2>2, <2>3, <3>1
  <2>5. a - 1 # 0
    <3>1. v[0] = y
      BY <1>1, <1>4 DEF Iterates
    <3> QED BY <2>4, <3>1
  <2>6. b <= a - 1
    BY <1>8, <2>3, <2>4, <2>5 DEF IsLeast
  <2>7. b \in 0 .. N
    BY <1>8 DEF IsLeast
  <2> QED BY <1>1, <1>8, <2>1, <2>2, <2>6, <2>7
<1> QED BY <1>9, <1>10

\* What is not written stays on its ring.
LEMMA OnRingFrame ==
  ASSUME NEW m, NEW l, NEW A, OnRing(m, l, A), NEW n, n.head[l] = m.head[l],
         \A s \in A : n.next[s] = m.next[s] /\ n.prev[s] = m.prev[s]
  PROVE  OnRing(n, l, A)
BY CycleFrame DEF OnRing

\* ring_link(m, p, q).
Linked(E, m, p, q, n) ==
  /\ n.head = m.head
  /\ \A s \in E : /\ n.next[s] = IF s = p THEN q ELSE m.next[s]
                  /\ n.prev[s] = IF s = q THEN p ELSE m.prev[s]

\* What two assignments make of the links.
LEMMA LinkIs ==
  ASSUME NEW H, NEW E, NEW m \in RingMemory(H, E), NEW p \in E, NEW q \in E
  PROVE  ring_link(m, p, q) \in RingMemory(H, E) /\ Linked(E, m, p, q, ring_link(m, p, q))
BY DEF RingMemory, ring_link, Linked

\* x, of the ring A, is linked to itself and its neighbours to each other.
Unlinked(E, m, x, A, n) ==
  /\ \/ A = {x} /\ m.next[x] = x
     \/ Cycle(n.next, n.prev, A \ {x}) /\ m.next[x] \in A \ {x}
  /\ n.next[x] = x /\ n.prev[x] = x
  /\ \A s \in E \ A : n.next[s] = m.next[s] /\ n.prev[s] = m.prev[s]

\* The other pointers stay; *l advances, or becomes NULL.
HeadPopped(H, m, l, n) ==
  \A k \in H : n.head[k] = IF k # l THEN m.head[k]
                          ELSE IF m.next[m.head[l]] = m.head[l] THEN NULL
                          ELSE m.next[m.head[l]]

\* The order of the other nodes of A stays.
Skipped(m, x, A, n) ==
  \A s \in A \ {x} : n.next[s] = IF m.next[s] = x THEN m.next[x] ELSE m.next[s]

\* ring_pop takes the first node out of its ring.
LEMMA PopIs ==
  ASSUME NEW H, NEW E, NEW m \in RingMemory(H, E), NEW l \in H, NEW A \in SUBSET E,
         m.head[l] \in A, Cycle(m.next, m.prev, A)
  PROVE  /\ ring_pop(m, l) \in RingMemory(H, E)
         /\ Unlinked(E, m, m.head[l], A, ring_pop(m, l))
         /\ HeadPopped(H, m, l, ring_pop(m, l))
         /\ Skipped(m, m.head[l], A, ring_pop(m, l))
<1> DEFINE x == m.head[l]
           n == ring_pop(m, l)
<1>1. x \in E /\ m.prev[x] \in E /\ m.next[x] \in E /\ m.prev[m.next[x]] = x
  BY DEF RingMemory, Cycle
<1>2. CASE m.next[x] = x
  <2> DEFINE m1 == [m EXCEPT !.head[l] = NULL]
  <2>1. /\ m1 \in RingMemory(H, E) /\ m1.next = m.next /\ m1.prev = m.prev
        /\ \A k \in H : m1.head[k] = IF k = l THEN NULL ELSE m.head[k]
    BY DEF RingMemory
  <2>2. n = ring_link(m1, x, x)
    BY <1>2 DEF ring_pop
  <2>3. n \in RingMemory(H, E) /\ Linked(E, m1, x, x, n)
    <3> HIDE DEF m1
    <3> QED BY <1>1, <2>1, <2>2, LinkIs
  <2>4. A = {x}
    <3>1. PICK nx, pv, y : nx = m.next /\ pv = m.prev /\ y = x
      OBVIOUS
    <3>2. A = {y}
      BY <1>2, <3>1, CycleOfOne
    <3> QED BY <3>1, <3>2
  <2> HIDE DEF m1, n
  <2>5. Unlinked(E, m, x, A, n)
    BY <1>1, <1>2, <2>1, <2>3, <2>4 DEF Unlinked, Linked
  <2>6. HeadPopped(H, m, l, n)
    BY <1>2, <2>1, <2>3 DEF HeadPopped, Linked
  <2>7. Skipped(m, x, A, n)
    BY <2>4 DEF Skipped
  <2> QED BY <2>3, <2>5, <2>6, <2>7 DEF n
<1>3. CASE m.next[x] # x
  <2> DEFINE m1 == [m EXCEPT !.head[l] = m.next[x]]
             m2 == ring_link(m1, m.prev[x], m.next[x])
  <2>1. /\ m1 \in RingMemory(H, E) /\ m1.next = m.next /\ m1.prev = m.prev
        /\ \A k \in H : m1.head[k] = IF k = l THEN m.next[x] ELSE m.head[k]
    BY <1>1 DEF RingMemory
  <2>2. n = ring_link(m2, x, x)
    BY <1>3 DEF ring_pop
  <2> HIDE DEF m1
  <2>3. m2 \in RingMemory(H, E) /\ Linked(E, m1, m.prev[x], m.next[x], m2)
    BY <1>1, <2>1, LinkIs
  <2>4. n \in RingMemory(H, E) /\ Linked(E, m2, x, x, n)
    <3> HIDE DEF m2
    <3> QED BY <1>1, <2>2, <2>3, LinkIs
  <2> HIDE DEF m2, n
  <2>5. \A s \in E \ {x} : /\ n.next[s] = IF s = m.prev[x] THEN m.next[x] ELSE m.next[s]
                         /\ n.prev[s] = IF s = m.next[x] THEN m.prev[x] ELSE m.prev[s]
    BY <1>1, <2>1, <2>3, <2>4 DEF Linked
  <2>6. Cycle(n.next, n.prev, A \ {x}) /\ m.next[x] \in A \ {x}
    <3>1. PICK nx, pv, y, nx1, pv1 : /\ nx = m.next /\ pv = m.prev /\ y = x
                                     /\ nx1 = n.next /\ pv1 = n.prev
      OBVIOUS
    <3>2. /\ y \in A /\ nx[y] # y /\ Cycle(nx, pv, A)
          /\ \A s \in A \ {y} : nx1[s] = IF s = pv[y] THEN nx[y] ELSE nx[s]
          /\ \A s \in A \ {y} : pv1[s] = IF s = nx[y] THEN pv[y] ELSE pv[s]
      BY <1>3, <2>5, <3>1
    <3>3. Cycle(nx1, pv1, A \ {y})
      BY <3>2, CycleUnlink
    <3>4. nx[y] \in A \ {y}
      BY <3>2 DEF Cycle
    <3> QED BY <3>1, <3>3, <3>4
  <2>7. Unlinked(E, m, x, A, n)
    <3>1. n.next[x] = x /\ n.prev[x] = x
      BY <1>1, <2>4 DEF Linked
    <3>2. \A s \in E \ A : s # x /\ s # m.prev[x] /\ s # m.next[x]
      BY DEF Cycle
    <3> QED BY <2>5, <2>6, <3>1, <3>2 DEF Unlinked
  <2>8. HeadPopped(H, m, l, n)
    BY <1>3, <2>1, <2>3, <2>4 DEF HeadPopped, Linked
  <2>9. Skipped(m, x, A, n)
    <3>1. \A s \in A : s = m.prev[x] <=> m.next[s] = x
      BY DEF Cycle
    <3> QED BY <2>5, <3>1 DEF Skipped
  <2> QED BY <2>4, <2>7, <2>8, <2>9 DEF n
<1> QED BY <1>2, <1>3

\* Nothing but the ring at *l, and the links of the nodes of C, has changed.
Apart(H, E, m, l, C, n) ==
  /\ \A k \in H \ {l} : n.head[k] = m.head[k]
  /\ \A s \in E \ C : n.next[s] = m.next[s] /\ n.prev[s] = m.prev[s]

\* The first node leaves the ring, to be a ring of its own.
LEMMA PopRing ==
  ASSUME NEW H, NEW E, NULL \notin E, NEW m \in RingMemory(H, E), NEW l \in H, NEW A \in SUBSET E,
         OnRing(m, l, A), m.head[l] # NULL
  PROVE  /\ ring_pop(m, l) \in RingMemory(H, E)
         /\ m.head[l] \in A
         /\ OnRing(ring_pop(m, l), l, A \ {m.head[l]})
         /\ Cycle(ring_pop(m, l).next, ring_pop(m, l).prev, {m.head[l]})
         /\ Apart(H, E, m, l, A, ring_pop(m, l))
         /\ HeadPopped(H, m, l, ring_pop(m, l))
         /\ Skipped(m, m.head[l], A, ring_pop(m, l))
<1>1. m.head[l] \in A /\ Cycle(m.next, m.prev, A)
  BY DEF OnRing
<1>2. PICK n : n = ring_pop(m, l)
  OBVIOUS
<1>3. PICK x : x = m.head[l]
  OBVIOUS
<1>4. /\ n \in RingMemory(H, E) /\ Unlinked(E, m, x, A, n)
      /\ HeadPopped(H, m, l, n) /\ Skipped(m, x, A, n)
  BY <1>1, <1>2, <1>3, PopIs
<1>5. OnRing(n, l, A \ {x})
  BY <1>3, <1>4 DEF OnRing, Unlinked, HeadPopped
<1>6. Cycle(n.next, n.prev, {x})
  <2>1. PICK nx, pv : nx = n.next /\ pv = n.prev
    OBVIOUS
  <2>2. nx[x] = x /\ pv[x] = x
    BY <1>4, <2>1 DEF Unlinked
  <2>3. Cycle(nx, pv, {x})
    BY <2>2, CycleAlone
  <2> QED BY <2>1, <2>3
<1>7. Apart(H, E, m, l, A, n)
  BY <1>4 DEF Apart, Unlinked, HeadPopped
<1> QED BY <1>1, <1>2, <1>3, <1>4, <1>5, <1>6, <1>7

\* What a ring from y on, inserted at the back of *l, makes of `next`.
Pushed(E, m, y, l, n) ==
  LET x == m.head[l]
  IN /\ n.head[l] = IF x = NULL THEN y ELSE x
     /\ \A s \in E : n.next[s] = IF x # NULL /\ s = m.prev[x] THEN y
                               ELSE IF x # NULL /\ s = m.prev[y] THEN x ELSE m.next[s]

\* The ring B, from y on, is inserted at the back of the ring at *l.
LEMMA PushRing ==
  ASSUME NEW H, NEW E, NULL \notin E, NEW m \in RingMemory(H, E), NEW l \in H, NEW A \in SUBSET E,
         OnRing(m, l, A), NEW B \in SUBSET E, A \cap B = {}, NEW y \in B, Cycle(m.next, m.prev, B)
  PROVE  /\ ring_push_back(m, y, l) \in RingMemory(H, E)
         /\ OnRing(ring_push_back(m, y, l), l, A \cup B)
         /\ Apart(H, E, m, l, A \cup B, ring_push_back(m, y, l))
         /\ Pushed(E, m, y, l, ring_push_back(m, y, l))
<1> DEFINE n == ring_push_back(m, y, l)
           x == m.head[l]
<1>1. n = Splice(m, y, m.prev[y], l)
  BY DEF ring_push_back
<1>2. CASE x = NULL
  <2>1. n = [m EXCEPT !.head[l] = y]
    BY <1>1, <1>2 DEF Splice
  <2>2. A = {}
    BY <1>2 DEF OnRing
  <2> HIDE DEF n
  <2>3. /\ n \in RingMemory(H, E) /\ n.next = m.next /\ n.prev = m.prev
        /\ \A k \in H : n.head[k] = IF k = l THEN y ELSE m.head[k]
    BY <2>1 DEF RingMemory
  <2>4. OnRing(n, l, A \cup B)
    BY <2>2, <2>3 DEF OnRing
  <2>5. Pushed(E, m, y, l, n)
    BY <1>2, <2>3 DEF Pushed
  <2> QED BY <2>3, <2>4, <2>5 DEF n, Apart
<1>3. CASE x # NULL
  <2> DEFINE m1 == ring_link(m, m.prev[x], y)
  <2>1. n = ring_link(m1, m.prev[y], x)
    BY <1>1, <1>3 DEF Splice
  <2>2. /\ x \in A /\ Cycle(m.next, m.prev, A)
        /\ m.prev[x] \in A /\ m.prev[y] \in B
    BY <1>3 DEF OnRing, Cycle
  <2>3. m1 \in RingMemory(H, E) /\ Linked(E, m, m.prev[x], y, m1)
    BY <2>2, LinkIs
  <2>4. n \in RingMemory(H, E) /\ Linked(E, m1, m.prev[y], x, n)
    <3> HIDE DEF m1
    <3> QED BY <2>1, <2>2, <2>3, LinkIs
  <2> HIDE DEF m1, n
  <2>5. \A s \in E :
          /\ n.next[s] = IF s = m.prev[x] THEN y ELSE IF s = m.prev[y] THEN x ELSE m.next[s]
          /\ n.prev[s] = IF s = y THEN m.prev[x] ELSE IF s = x THEN m.prev[y] ELSE m.prev[s]
    BY <2>2, <2>3, <2>4 DEF Linked
  <2>6. Cycle(n.next, n.prev, A \cup B)
    <3>1. PICK nx, pv, z, nx1, pv1 : /\ nx = m.next /\ pv = m.prev /\ z = x
                                     /\ nx1 = n.next /\ pv1 = n.prev
      OBVIOUS
    <3>2. /\ Cycle(nx, pv, A) /\ Cycle(nx, pv, B) /\ z \in A
          /\ \A s \in A \cup B :
               nx1[s] = IF s = pv[z] THEN y ELSE IF s = pv[y] THEN z ELSE nx[s]
          /\ \A s \in A \cup B :
               pv1[s] = IF s = y THEN pv[z] ELSE IF s = z THEN pv[y] ELSE pv[s]
      BY <2>2, <2>5, <3>1
    <3>3. Cycle(nx1, pv1, A \cup B)
      BY <3>2, CycleJoin
    <3> QED BY <3>1, <3>3
  <2>7. \A k \in H : n.head[k] = m.head[k]
    BY <2>3, <2>4 DEF Linked
  <2>8. OnRing(n, l, A \cup B)
    BY <2>2, <2>6, <2>7 DEF OnRing
  <2>9. Apart(H, E, m, l, A \cup B, n)
    BY <2>2, <2>5, <2>7 DEF Apart
  <2>10. Pushed(E, m, y, l, n)
    BY <1>3, <2>5, <2>7 DEF Pushed
  <2> QED BY <2>4, <2>8, <2>9, <2>10 DEF n
<1> QED BY <1>2, <1>3
=============================================================================
