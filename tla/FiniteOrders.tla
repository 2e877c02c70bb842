---------------------------- MODULE FiniteOrders ----------------------------
(***************************************************************************)
(* Facts about numbers, finite sets and strict total orders on them, for   *)
(* any sets: what the proofs about the lookup, the routing table and the   *)
(* placement of chunks share.                                              *)
(***************************************************************************)
EXTENDS Integers, FiniteSets, FiniteSetsExt, FiniteSetTheorems, WellFoundedInduction, TLAPS

\* Induction up to N, as a fact about a set of numbers.
LEMMA Upto ==
  ASSUME NEW N \in Nat, NEW S, 0 \in S, \A i \in 0 .. N - 1 : i \in S => i + 1 \in S
  PROVE  0 .. N \subseteq S
  <1> DEFINE T == {i \in Nat : i <= N /\ i \notin S}
  <1> SUFFICES ASSUME T # {} PROVE FALSE
    OBVIOUS
  <1>1. T \subseteq Nat
    OBVIOUS
  <1>2. PICK m \in T : \A y \in T : ~(<<y, m>> \in OpToRel(<, Nat))
    <2> HIDE DEF T
    <2> QED BY <1>1, NatLessThanWellFounded, WFMin
  <1>3. \A y \in T : ~(y < m)
    BY <1>1, <1>2 DEF OpToRel
  <1>4. m # 0 /\ m - 1 \in 0 .. N - 1 /\ m - 1 \notin T
    BY <1>3
  <1> QED BY <1>4

\* A set that is numbered without repetition has as many elements as numbers.
LEMMA ImageCardinality ==
  ASSUME NEW S, IsFiniteSet(S), NEW f, DOMAIN f = S,
         \A x, y \in S : f[x] = f[y] => x = y
  PROVE  /\ IsFiniteSet({f[x] : x \in S})
         /\ Cardinality({f[x] : x \in S}) = Cardinality(S)
  <1> DEFINE T == {f[x] : x \in S}
             g == [x \in S |-> f[x]]
  <1>1. g \in Bijection(S, T)
    BY DEF Bijection, Injection, Surjection, IsInjective
  <1>2. ExistsBijection(S, T)
    BY <1>1 DEF ExistsBijection
  <1> HIDE DEF T
  <1>3. IsFiniteSet(T) /\ Cardinality(T) = Cardinality(S)
    BY <1>2, FS_Bijection
  <1> QED BY <1>3 DEF T

\* R orders the elements of S.
IsOrder(S, R) ==
    /\ \A x \in S : <<x, x>> \notin R
    /\ \A x, y, z \in S : <<x, y>> \in R /\ <<y, z>> \in R => <<x, z>> \in R
    /\ \A x, y \in S : x = y \/ <<x, y>> \in R \/ <<y, x>> \in R

\* The number of elements before x, different for each x.
LEMMA RankProperty ==
  ASSUME NEW S, IsFiniteSet(S), NEW R, IsOrder(S, R), NEW rank,
         rank = [x \in S |-> Cardinality({y \in S : <<y, x>> \in R})]
  PROVE  /\ \A x \in S : rank[x] \in 0 .. Cardinality(S) - 1
         /\ \A x, y \in S : <<x, y>> \in R => rank[x] < rank[y]
         /\ \A x, y \in S : rank[x] = rank[y] => x = y
         /\ \A j \in 0 .. Cardinality(S) - 1 : \E x \in S : rank[x] = j
  <1> DEFINE below(x) == {y \in S : <<y, x>> \in R}
             n == Cardinality(S)
  <1>1. n \in Nat
    BY FS_CardinalityType
  <1>2. \A x \in S : IsFiniteSet(below(x)) /\ Cardinality(below(x)) \in Nat
    <2> TAKE x \in S
    <2>1. below(x) \in SUBSET S
      OBVIOUS
    <2> HIDE DEF below
    <2> QED BY <2>1, FS_Subset, FS_CardinalityType
  <1>3. ASSUME NEW x \in S, NEW T, IsFiniteSet(T), below(x) \subseteq T, x \in T
        PROVE  Cardinality(below(x)) < Cardinality(T)
    <2>1. x \notin below(x)
      BY DEF IsOrder
    <2> HIDE DEF below
    <2>2. Cardinality(below(x)) <= Cardinality(T) /\ Cardinality(below(x)) # Cardinality(T)
      BY <1>3, <2>1, FS_Subset
    <2> QED BY <1>2, <1>3, <2>2, FS_CardinalityType
  <1>4. ASSUME NEW x \in S
        PROVE  rank[x] \in 0 .. n - 1
    <2>1. Cardinality(below(x)) < n
      BY <1>3
    <2> QED BY <1>1, <1>2, <2>1
  <1>5. ASSUME NEW x \in S, NEW y \in S, <<x, y>> \in R
        PROVE  rank[x] < rank[y]
    <2>1. below(x) \subseteq below(y) /\ x \in below(y)
      BY <1>5 DEF IsOrder
    <2>2. Cardinality(below(x)) < Cardinality(below(y))
      <3> HIDE DEF below
      <3> QED BY <1>2, <1>3, <2>1
    <2> QED BY <2>2
  <1>6. ASSUME NEW x \in S, NEW y \in S, rank[x] = rank[y]
        PROVE  x = y
    <2>1. rank[x] \in 0 .. n - 1 /\ ~ (rank[x] < rank[y]) /\ ~ (rank[y] < rank[x])
      BY <1>1, <1>4, <1>6
    <2> QED BY <1>5, <2>1 DEF IsOrder
  <1>7. ASSUME NEW j \in 0 .. n - 1
        PROVE  \E x \in S : rank[x] = j
    <2>1. IsFiniteSet(0 .. n - 1) /\ Cardinality(0 .. n - 1) = n
      BY <1>1, FS_Interval
    <2>2. rank \in Injection(S, 0 .. n - 1)
      BY <1>4, <1>6 DEF Injection, IsInjective
    <2>3. rank \in Surjection(S, 0 .. n - 1)
      BY <2>1, <2>2, FS_Injection
    <2> QED BY <2>3 DEF Surjection
  <1> QED BY <1>4, <1>5, <1>6, <1>7

\* The least of a nonempty set of numbers.
LEMMA MinProperty ==
  ASSUME NEW S \in SUBSET Nat, S # {}
  PROVE  Min(S) \in S /\ \A y \in S : Min(S) <= y
  <1>1. PICK m \in S : \A y \in S : ~(<<y, m>> \in OpToRel(<, Nat))
    BY NatLessThanWellFounded, WFMin
  <1>2. \A y \in S : m <= y
    <2>1. \A y \in S : ~(y < m)
      BY <1>1 DEF OpToRel
    <2>2. m \in Nat /\ \A y \in S : y \in Nat
      OBVIOUS
    <2> QED BY <2>1, <2>2
  <1> QED BY <1>2 DEF Min

\* Of an ordered set, the elements with fewer than n before them are n, or all.
LEMMA FirstNCardinality ==
  ASSUME NEW S, IsFiniteSet(S), NEW R, IsOrder(S, R), NEW n \in Nat, NEW T,
         T = {x \in S : Cardinality({y \in S : <<y, x>> \in R}) < n}
  PROVE  /\ IsFiniteSet(T)
         /\ Cardinality(T) = IF n < Cardinality(S) THEN n ELSE Cardinality(S)
  <1> DEFINE c == Cardinality(S)
             m == IF n < c THEN n ELSE c
             rank == [x \in S |-> Cardinality({y \in S : <<y, x>> \in R})]
             g == [x \in T |-> rank[x]]
  <1>0. rank = [x \in S |-> Cardinality({y \in S : <<y, x>> \in R})]
    OBVIOUS
  <1>1. T = {x \in S : rank[x] < n}
    OBVIOUS
  <1> HIDE DEF rank
  <1>2. c \in Nat /\ m \in Nat
    BY FS_CardinalityType
  <1>3. /\ \A x \in S : rank[x] \in 0 .. c - 1
        /\ \A x, y \in S : rank[x] = rank[y] => x = y
        /\ \A j \in 0 .. c - 1 : \E x \in S : rank[x] = j
    BY <1>0, RankProperty
  <1> HIDE DEF c
  <1>4. \A x \in T : rank[x] \in 0 .. m - 1
    BY <1>1, <1>2, <1>3
  <1>5. ASSUME NEW j \in 0 .. m - 1 PROVE \E x \in T : rank[x] = j
    <2>1. j \in 0 .. c - 1 /\ j < n
      BY <1>2
    <2> QED BY <1>1, <1>3, <2>1
  <1>6. IsFiniteSet(T)
    BY <1>1, FS_Subset
  <1> HIDE DEF m
  <1>7. g \in Bijection(T, 0 .. m - 1)
    BY <1>1, <1>3, <1>4, <1>5 DEF Bijection, Injection, Surjection, IsInjective
  <1>8. ExistsBijection(T, 0 .. m - 1)
    BY <1>7 DEF ExistsBijection
  <1>9. Cardinality(T) = Cardinality(0 .. m - 1)
    BY <1>6, <1>8, FS_Bijection
  <1>10. Cardinality(0 .. m - 1) = m
    BY <1>2, FS_Interval
  <1> QED BY <1>6, <1>9, <1>10 DEF m, c

\* The greatest of a nonempty set of numbers with a bound.
LEMMA MaxProperty ==
  ASSUME NEW N \in Nat, NEW S \in SUBSET (0 .. N), S # {}
  PROVE  Max(S) \in S /\ \A y \in S : Max(S) >= y
  <1> DEFINE T == {N - x : x \in S}
  <1>1. T \in SUBSET Nat /\ T # {}
    <2>1. \A x \in S : N - x \in Nat
      OBVIOUS
    <2> QED BY <2>1
  <1>2. Min(T) \in T /\ \A y \in T : Min(T) <= y
    BY <1>1, MinProperty
  <1>3. PICK m \in S : Min(T) = N - m
    BY <1>2
  <1>4. \A y \in S : m >= y
    <2> SUFFICES ASSUME NEW y \in S PROVE m >= y
      OBVIOUS
    <2>1. N - m <= N - y
      BY <1>2, <1>3
    <2>2. m \in Int /\ y \in Int
      OBVIOUS
    <2> QED BY <2>1, <2>2
  <1> QED BY <1>4 DEF Max
=============================================================================
