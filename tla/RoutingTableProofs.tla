------------------------- MODULE RoutingTableProofs -------------------------
(***************************************************************************)
(* The buckets of a routing table stay well formed and sorted by last      *)
(* sighting; get_n_closest finds as many nodes as it should and is exact   *)
(* when the bucket of the key has enough: for keys of any length, any      *)
(* bucket capacity and any set of peers.                                   *)
(***************************************************************************)
EXTENDS TableHistory, FiniteOrders, SequenceTheorems

------------------------------------------------------------------------------
(* The XOR metric and the bucket index, for keys of any length. *)

\* Two keys agree on exactly n first bits for some n.
LEMMA LeadingZerosExists ==
  ASSUME NEW a \in Key, NEW b \in Key
  PROVE  \E n \in 0 .. Bits : ExactlyNSameLeadingBits(a, b, n)
  <1> DEFINE T == {i \in Positions : a[i] # b[i]}
  <1> USE BitsAssumption
  <1>1. CASE T = {}
    BY <1>1 DEF ExactlyNSameLeadingBits, Positions
  <1>2. CASE T # {}
    <2>1. T \subseteq Nat
      BY DEF Positions
    <2>2. PICK m \in T : \A y \in T : ~(<<y, m>> \in OpToRel(<, Nat))
      <3> HIDE DEF T
      <3> QED BY <1>2, <2>1, NatLessThanWellFounded, WFMin
    <2>3. \A y \in T : ~(y < m)
      BY <2>1, <2>2 DEF OpToRel
    <2>4. ExactlyNSameLeadingBits(a, b, m - 1)
      BY <2>3 DEF ExactlyNSameLeadingBits, Positions
    <2>5. m - 1 \in 0 .. Bits
      BY DEF Positions
    <2> QED BY <2>4, <2>5
  <1> QED BY <1>1, <1>2

\* leading_zeros_in_distance counts the bits on which two keys agree.
LEMMA LeadingZerosProperty ==
  ASSUME NEW a \in Key, NEW b \in Key
  PROVE  /\ LeadingZerosInDistance(a, b) \in 0 .. Bits
         /\ ExactlyNSameLeadingBits(a, b, LeadingZerosInDistance(a, b))
  BY LeadingZerosExists DEF LeadingZerosInDistance

\* That number is unique.
LEMMA LeadingZerosUnique ==
  ASSUME NEW a \in Key, NEW b \in Key, NEW n \in 0 .. Bits,
         ExactlyNSameLeadingBits(a, b, n)
  PROVE  LeadingZerosInDistance(a, b) = n
  <1> DEFINE m == LeadingZerosInDistance(a, b)
  <1>1. m \in 0 .. Bits /\ ExactlyNSameLeadingBits(a, b, m)
    BY LeadingZerosProperty
  <1> HIDE DEF m
  <1>2. ~(m < n) /\ ~(n < m)
    BY <1>1, BitsAssumption DEF ExactlyNSameLeadingBits
  <1>3. m = n
    BY <1>1, <1>2, BitsAssumption
  <1> QED BY <1>3 DEF m

\* get_bucket_index fails for the own key and for no other, and the bucket of
\* any other key says where the key first differs from the own one.
THEOREM BucketIndexSound ==
  ASSUME NEW self \in Key, NEW key \in Key
  PROVE  /\ BucketIndex(self, key) = NoBucket <=> key = self
         /\ key # self =>
              /\ BucketIndex(self, key) \in BucketIndices
              /\ ExactlyNSameLeadingBits(self, key,
                                         Bits - 1 - BucketIndex(self, key))
  <1> DEFINE lz == LeadingZerosInDistance(self, key)
  <1>1. lz \in 0 .. Bits /\ ExactlyNSameLeadingBits(self, key, lz)
    BY LeadingZerosProperty
  <1>2. lz = Bits <=> key = self
    <2>1. ASSUME lz = Bits PROVE key = self
      <3>1. \A i \in Positions : key[i] = self[i]
        BY <1>1, <2>1 DEF ExactlyNSameLeadingBits, Positions
      <3> QED BY <3>1 DEF Key
    <2>2. ASSUME key = self PROVE lz = Bits
      <3>1. ~(lz < Bits)
        BY <1>1, <2>2 DEF ExactlyNSameLeadingBits
      <3> HIDE DEF lz
      <3> QED BY <1>1, <3>1, BitsAssumption
    <2> QED BY <2>1, <2>2
  <1>3. BucketIndex(self, key) = IF lz = Bits THEN NoBucket ELSE Bits - 1 - lz
    BY DEF BucketIndex
  <1> HIDE DEF lz
  <1> QED BY <1>1, <1>2, <1>3, BitsAssumption DEF NoBucket, BucketIndices

\* get_random_id_for_bucket (the target of a bucket refresh) yields a key of
\* the bucket asked for, whatever the random bits are.
THEOREM RandomIdIsInBucket ==
  ASSUME NEW self \in Key, NEW random \in Key, NEW bucket \in BucketIndices
  PROVE  BucketIndex(self, RandomIdForBucket(self, random, bucket)) = bucket
  <1> DEFINE id == RandomIdForBucket(self, random, bucket)
             lz == Bits - bucket - 1
  <1> USE BitsAssumption
  <1>1. lz \in 0 .. Bits /\ lz < Bits /\ Bits - 1 - lz = bucket
    BY DEF BucketIndices
  <1>2. id = [i \in Positions |-> IF i <= lz THEN self[i]
                                  ELSE IF i = lz + 1 THEN 1 - self[i] ELSE random[i]]
    BY DEF RandomIdForBucket, MakeExactlyNSameLeadingBits
  <1> HIDE DEF id, lz
  <1>3. id \in Key
    BY <1>2, <1>1 DEF Key
  <1>4. ExactlyNSameLeadingBits(self, id, lz)
    BY <1>2, <1>1 DEF ExactlyNSameLeadingBits, Positions, Key
  <1>5. LeadingZerosInDistance(self, id) = lz
    BY <1>1, <1>3, <1>4, LeadingZerosUnique
  <1>6. BucketIndex(self, id) = bucket
    BY <1>1, <1>5 DEF BucketIndex
  <1> QED BY <1>6 DEF id

\* If x agrees with the target on its first n bits and y does not, x is nearer.
LEMMA LongerPrefixIsNearer ==
  ASSUME NEW x \in Key, NEW y \in Key, NEW target \in Key, NEW n \in 0 .. Bits,
         \A i \in 1 .. n : x[i] = target[i],
         \E i \in 1 .. n : y[i] # target[i]
  PROVE  Nearer(x, y, target)
  <1> USE BitsAssumption
  <1> DEFINE m == LeadingZerosInDistance(y, target)
  <1>1. m \in 0 .. Bits /\ ExactlyNSameLeadingBits(y, target, m)
    BY LeadingZerosProperty
  <1> HIDE DEF m
  <1>2. m < n
    BY <1>1 DEF ExactlyNSameLeadingBits
  <1>3. m + 1 \in Positions /\ \A j \in 1 .. m + 1 : j \in Positions
    BY <1>1, <1>2 DEF Positions
  <1>4. Distance(x, target)[m + 1] = 0 /\ Distance(y, target)[m + 1] = 1
    BY <1>1, <1>2, <1>3 DEF Distance, ExactlyNSameLeadingBits
  <1>5. \A j \in 1 .. m : Distance(x, target)[j] = Distance(y, target)[j]
    BY <1>1, <1>2, <1>3 DEF Distance, ExactlyNSameLeadingBits
  <1> QED BY <1>1, <1>3, <1>4, <1>5 DEF Nearer, Less

\* Every node of the target's own bucket is nearer to the target than every
\* node of every other bucket: why taking that bucket alone is enough.
THEOREM OwnBucketIsNearest ==
  ASSUME NEW self \in Key, NEW target \in Key \ {self},
         NEW x \in Key \ {self}, NEW y \in Key \ {self},
         BucketIndex(self, x) = BucketIndex(self, target),
         BucketIndex(self, y) # BucketIndex(self, target)
  PROVE  Nearer(x, y, target)
  <1> USE BitsAssumption
  <1> DEFINE t == Bits - 1 - BucketIndex(self, target)
             u == Bits - 1 - BucketIndex(self, y)
  <1>1. /\ t \in 0 .. Bits - 1 /\ ExactlyNSameLeadingBits(self, target, t)
        /\ ExactlyNSameLeadingBits(self, x, t)
    BY BucketIndexSound DEF BucketIndices
  <1>2. u \in 0 .. Bits - 1 /\ ExactlyNSameLeadingBits(self, y, u) /\ u # t
    <2>1. BucketIndex(self, y) \in Int /\ BucketIndex(self, target) \in Int
      BY BucketIndexSound DEF BucketIndices
    <2>2. u # t
      BY <2>1
    <2> QED BY <2>2, BucketIndexSound DEF BucketIndices
  <1> HIDE DEF t, u
  <1>b. \A i \in 1 .. t + 1 : i \in Positions
    BY <1>1 DEF Positions
  <1>3. \A i \in 1 .. t + 1 : x[i] = target[i]
    <2>1. \A i \in 1 .. t : x[i] = target[i]
      BY <1>1 DEF ExactlyNSameLeadingBits
    <2>2. x[t + 1] # self[t + 1] /\ target[t + 1] # self[t + 1]
      BY <1>1 DEF ExactlyNSameLeadingBits
    <2>3. t + 1 \in Positions
      BY <1>1 DEF Positions
    <2>4. x[t + 1] = target[t + 1]
      BY <2>2, <2>3 DEF Key
    <2>5. \A i \in 1 .. t + 1 : i \in 1 .. t \/ i = t + 1
      BY <1>1
    <2> QED BY <2>1, <2>4, <2>5
  <1>4. \E i \in 1 .. t + 1 : y[i] # target[i]
    <2>1. CASE u < t
      BY <1>1, <1>2, <2>1 DEF ExactlyNSameLeadingBits
    <2>2. CASE u > t
      <3>1. y[t + 1] = self[t + 1] /\ target[t + 1] # self[t + 1]
        BY <1>1, <1>2, <2>2 DEF ExactlyNSameLeadingBits
      <3> QED BY <1>1, <3>1
    <2> QED BY <1>1, <1>2, <2>1, <2>2
  <1>5. t + 1 \in 0 .. Bits
    BY <1>1
  <1> QED BY <1>3, <1>4, <1>5, LongerPrefixIsNearer

\* Every node of a bucket above the target's is farther from the target than every
\* node of every bucket below it: the lower buckets are the ones to take next, and
\* those above the target's one by one.
THEOREM UpperBucketsInOrder ==
  ASSUME NEW self \in Key, NEW target \in Key \ {self},
         NEW x \in Key \ {self}, NEW y \in Key \ {self},
         BucketIndex(self, x) < BucketIndex(self, y),
         BucketIndex(self, target) < BucketIndex(self, y)
  PROVE  Nearer(x, y, target)
  <1> USE BitsAssumption
  <1> DEFINE t == Bits - 1 - BucketIndex(self, target)
             u == Bits - 1 - BucketIndex(self, y)
             v == Bits - 1 - BucketIndex(self, x)
  <1>1. t \in 0 .. Bits - 1 /\ ExactlyNSameLeadingBits(self, target, t) /\ u < t
    BY BucketIndexSound DEF BucketIndices
  <1>2. u \in 0 .. Bits - 1 /\ ExactlyNSameLeadingBits(self, y, u)
    BY BucketIndexSound DEF BucketIndices
  <1>3. v \in 0 .. Bits - 1 /\ ExactlyNSameLeadingBits(self, x, v) /\ u < v
    BY BucketIndexSound DEF BucketIndices
  <1> HIDE DEF t, u, v
  <1>4. \A i \in 1 .. u + 1 : x[i] = target[i]
    BY <1>1, <1>2, <1>3 DEF ExactlyNSameLeadingBits
  <1>5. \E i \in 1 .. u + 1 : y[i] # target[i]
    <2>1. y[u + 1] # self[u + 1] /\ target[u + 1] = self[u + 1]
      BY <1>1, <1>2 DEF ExactlyNSameLeadingBits
    <2> QED BY <1>2, <2>1
  <1>6. u + 1 \in 0 .. Bits
    BY <1>2
  <1> QED BY <1>4, <1>5, <1>6, LongerPrefixIsNearer

------------------------------------------------------------------------------
(* What the operations do to one bucket, and to the table. *)

\* The elements of a sequence are its head and those of its tail.
LEMMA TailElements ==
  ASSUME NEW S, NEW s \in Seq(S), s # <<>>
  PROVE  /\ Head(s) \in S /\ Tail(s) \in Seq(S) /\ Len(Tail(s)) = Len(s) - 1
         /\ Head(s) = s[1] /\ 1 \in DOMAIN s
         /\ \A p \in DOMAIN Tail(s) : p + 1 \in DOMAIN s /\ p # 0 /\ Tail(s)[p] = s[p + 1]
         /\ ToSet(s) = ToSet(Tail(s)) \cup {Head(s)}
  <1> DEFINE t == Tail(s)
  <1>1. Len(s) \in Nat /\ Len(s) # 0 /\ DOMAIN s = 1 .. Len(s)
    OBVIOUS
  <1>2. t \in Seq(S) /\ Len(t) = Len(s) - 1 /\ DOMAIN t = 1 .. Len(s) - 1
    BY <1>1
  <1>3. \A p \in 1 .. Len(s) - 1 : t[p] = s[p + 1]
    BY <1>1
  <1>4. Head(s) = s[1] /\ 1 \in DOMAIN s /\ s[1] \in S
    BY <1>1
  <1> HIDE DEF t
  <1>5. \A p \in DOMAIN t : p + 1 \in DOMAIN s /\ p # 0 /\ t[p] = s[p + 1]
    BY <1>1, <1>2, <1>3
  <1>6. ASSUME NEW p \in DOMAIN s, p # 1 PROVE p - 1 \in DOMAIN t /\ t[p - 1] = s[p]
    <2>1. p - 1 \in 1 .. Len(s) - 1 /\ (p - 1) + 1 = p
      BY <1>1, <1>6
    <2> QED BY <2>1, <1>2, <1>3
  <1>7. ToSet(s) = ToSet(t) \cup {Head(s)}
    BY <1>4, <1>5, <1>6 DEF ToSet
  <1> QED BY <1>2, <1>4, <1>5, <1>7 DEF t

\* What Append adds to the elements of a sequence.
LEMMA AppendElements ==
  ASSUME NEW S, NEW s \in Seq(S), NEW e \in S
  PROVE  /\ Append(s, e) \in Seq(S) /\ Len(Append(s, e)) = Len(s) + 1
         /\ \A p \in DOMAIN Append(s, e) :
               \/ p \in DOMAIN s /\ Append(s, e)[p] = s[p]
               \/ p = Len(s) + 1 /\ Append(s, e)[p] = e
         /\ ToSet(Append(s, e)) = ToSet(s) \cup {e}
  <1> DEFINE a == Append(s, e)
  <1>1. Len(s) \in Nat /\ DOMAIN s = 1 .. Len(s)
    OBVIOUS
  <1>2. a \in Seq(S) /\ Len(a) = Len(s) + 1 /\ DOMAIN a = 1 .. Len(s) + 1
    BY <1>1
  <1>3. (\A p \in 1 .. Len(s) : a[p] = s[p]) /\ a[Len(s) + 1] = e
    BY <1>1
  <1> HIDE DEF a
  <1>4. \A p \in DOMAIN a : \/ p \in DOMAIN s /\ a[p] = s[p]
                            \/ p = Len(s) + 1 /\ a[p] = e
    <2> SUFFICES ASSUME NEW p \in DOMAIN a
                 PROVE  \/ p \in DOMAIN s /\ a[p] = s[p]
                        \/ p = Len(s) + 1 /\ a[p] = e
      OBVIOUS
    <2>1. p \in 1 .. Len(s) \/ p = Len(s) + 1
      BY <1>1, <1>2
    <2> QED BY <1>1, <1>3, <2>1
  <1>5. \A p \in DOMAIN s : p \in DOMAIN a /\ a[p] = s[p]
    BY <1>1, <1>2, <1>3
  <1>6. Len(s) + 1 \in DOMAIN a /\ a[Len(s) + 1] = e
    BY <1>1, <1>2, <1>3
  <1>7. ToSet(a) = ToSet(s) \cup {e}
    BY <1>4, <1>5, <1>6 DEF ToSet
  <1> QED BY <1>2, <1>4, <1>7 DEF a

\* What remove_nodeinfo leaves of a bucket without duplicates: a bucket without
\* duplicates and without the key, of the same nodes in the same order, shorter if
\* the key was there.
LEMMA RemoveNodeinfoProperty ==
  ASSUME NEW nodes \in Seq(Key), NEW key \in Key,
         \A p, q \in DOMAIN nodes : nodes[p] = nodes[q] => p = q
  PROVE  LET r == RemoveNodeinfo(nodes, key) IN
         /\ r \in Seq(Key)
         /\ Len(r) <= Len(nodes)
         /\ \A p, q \in DOMAIN r : r[p] = r[q] => p = q
         /\ \A p \in DOMAIN r : r[p] # key /\ \E q \in DOMAIN nodes : r[p] = nodes[q]
         /\ \A q \in DOMAIN nodes :
              IF nodes[q] = key THEN Len(r) < Len(nodes)
              ELSE \E p \in DOMAIN r : r[p] = nodes[q]
         /\ \A p, q \in DOMAIN r : p < q =>
              \E a, b \in DOMAIN nodes : a < b /\ r[p] = nodes[a] /\ r[q] = nodes[b]
  <1> DEFINE r == RemoveNodeinfo(nodes, key)
  <1>1. CASE ~\E p \in DOMAIN nodes : nodes[p] = key
    BY <1>1 DEF RemoveNodeinfo
  <1>2. CASE \E p \in DOMAIN nodes : nodes[p] = key
    <2> DEFINE IsFirst(p) == nodes[p] = key /\ \A q \in 1 .. p - 1 : nodes[q] # key
    <2>1. \E p \in DOMAIN nodes : IsFirst(p)
      BY <1>2
    <2> DEFINE pos == CHOOSE p \in DOMAIN nodes : IsFirst(p)
    <2>2. pos \in DOMAIN nodes /\ nodes[pos] = key
      BY <2>1
    <2>3. r = SubSeq(nodes, 1, pos - 1) \o SubSeq(nodes, pos + 1, Len(nodes))
      BY <1>2 DEF RemoveNodeinfo, RemoveAt
    <2> HIDE DEF pos, r
    <2> DEFINE s1 == SubSeq(nodes, 1, pos - 1)
               s2 == SubSeq(nodes, pos + 1, Len(nodes))
               orig(p) == IF p < pos THEN p ELSE p + 1
    <2>4. pos \in 1 .. Len(nodes) /\ Len(nodes) \in Nat
      BY <2>2
    <2>a. /\ s1 \in Seq(Key) /\ Len(s1) = pos - 1
          /\ \A p \in 1 .. pos - 1 : s1[p] = nodes[p]
      BY <2>4
    <2>b. /\ s2 \in Seq(Key) /\ Len(s2) = Len(nodes) - pos
          /\ \A p \in 1 .. Len(nodes) - pos : s2[p] = nodes[pos + p]
      BY <2>4
    <2>c. r = s1 \o s2
      BY <2>3
    <2> HIDE DEF s1, s2
    <2>5. r \in Seq(Key) /\ Len(r) = Len(nodes) - 1
      BY <2>4, <2>a, <2>b, <2>c
    <2>7. DOMAIN r = 1 .. Len(nodes) - 1 /\ DOMAIN nodes = 1 .. Len(nodes)
      BY <2>5
    <2>6. ASSUME NEW p \in DOMAIN r
          PROVE  /\ orig(p) \in DOMAIN nodes /\ orig(p) # pos
                 /\ r[p] = nodes[orig(p)]
      <3>1. CASE p < pos
        <4>1. p \in 1 .. pos - 1 /\ p \in 1 .. Len(s1) + Len(s2) /\ p <= Len(s1)
          BY <3>1, <2>4, <2>7, <2>a, <2>b
        <4>2. r[p] = s1[p]
          BY <4>1, <2>a, <2>b, <2>c, ConcatProperties
        <4> QED BY <3>1, <4>1, <4>2, <2>4, <2>7, <2>a
      <3>2. CASE ~(p < pos)
        <4>1. p - (pos - 1) \in 1 .. Len(nodes) - pos /\ pos + (p - (pos - 1)) = p + 1
          BY <3>2, <2>4, <2>7
        <4>2. r[p] = s2[p - (pos - 1)]
          <5>1. p \in 1 .. Len(s1) + Len(s2) /\ ~(p <= Len(s1))
            BY <3>2, <2>4, <2>7, <2>a, <2>b
          <5> QED BY <5>1, <2>a, <2>b, <2>c, ConcatProperties
        <4>3. s2[p - (pos - 1)] = nodes[p + 1]
          BY <4>1, <2>b
        <4> QED BY <3>2, <4>2, <4>3, <2>4, <2>7
      <3> QED BY <3>1, <3>2
    <2>8. ASSUME NEW p \in DOMAIN r, NEW q \in DOMAIN r, r[p] = r[q] PROVE p = q
      <3>1. orig(p) = orig(q)
        BY <2>6, <2>8
      <3> QED BY <3>1, <2>4, <2>7
    <2>9. ASSUME NEW p \in DOMAIN r
          PROVE  r[p] # key /\ \E q \in DOMAIN nodes : r[p] = nodes[q]
      <3> HIDE DEF orig
      <3> QED BY <2>2, <2>6
    <2>10. Len(r) <= Len(nodes) /\ Len(r) < Len(nodes)
      BY <2>4, <2>5
    <2>11. ASSUME NEW q \in DOMAIN nodes, nodes[q] # key
           PROVE  \E p \in DOMAIN r : r[p] = nodes[q]
      <3> DEFINE p == IF q < pos THEN q ELSE q - 1
      <3>1. q # pos
        BY <2>2, <2>11
      <3>2. p \in DOMAIN r /\ orig(p) = q
        BY <3>1, <2>4, <2>7
      <3> HIDE DEF p, orig
      <3> QED BY <3>2, <2>6
    <2>12. ASSUME NEW p \in DOMAIN r, NEW q \in DOMAIN r, p < q
           PROVE  \E a, b \in DOMAIN nodes : a < b /\ r[p] = nodes[a] /\ r[q] = nodes[b]
      <3>1. orig(p) < orig(q)
        BY <2>4, <2>7, <2>12
      <3> HIDE DEF orig
      <3> QED BY <2>6, <3>1
    <2> QED BY <2>5, <2>8, <2>9, <2>10, <2>11, <2>12 DEF r
  <1> QED BY <1>1, <1>2

\* An empty table is well formed.
LEMMA TableInitWellFormed == TableInit => BucketsWellFormed
  BY TableAssumption DEF TableInit, BucketsWellFormed, TableTypeOK, Placement,
     NoDuplicates, WithinCapacity

\* What the invariant says of the contents of one bucket.
GoodBucket(nodes, i) ==
    /\ nodes \in Seq(Key)
    /\ Len(nodes) <= Capacity
    /\ \A p \in DOMAIN nodes : nodes[p] \in Peers /\ BucketIndex(Self, nodes[p]) = i
    /\ \A p, q \in DOMAIN nodes : nodes[p] = nodes[q] => p = q

\* push_back of a node the bucket does not have keeps a bucket good.
LEMMA AppendGood ==
  ASSUME NEW i, NEW nodes, GoodBucket(nodes, i), Len(nodes) < Capacity,
         NEW key \in Peers, BucketIndex(Self, key) = i,
         \A p \in DOMAIN nodes : nodes[p] # key
  PROVE  GoodBucket(Append(nodes, key), i)
  <1> DEFINE a == Append(nodes, key)
  <1> USE TableAssumption
  <1>1. nodes \in Seq(Key) /\ key \in Key /\ Len(nodes) \in Nat
    BY DEF GoodBucket
  <1>2. a \in Seq(Key) /\ Len(a) = Len(nodes) + 1
    BY <1>1
  <1>3. /\ DOMAIN a = 1 .. Len(nodes) + 1 /\ DOMAIN nodes = 1 .. Len(nodes)
        /\ \A p \in 1 .. Len(nodes) : a[p] = nodes[p]
        /\ a[Len(nodes) + 1] = key
    BY <1>1, <1>2
  <1> HIDE DEF a
  <1>4. ASSUME NEW p \in DOMAIN a
        PROVE  \/ p \in DOMAIN nodes /\ a[p] = nodes[p]
               \/ p = Len(nodes) + 1 /\ a[p] = key
    <2>1. p \in 1 .. Len(nodes) \/ p = Len(nodes) + 1
      BY <1>1, <1>3
    <2> QED BY <1>3, <2>1
  <1>5. \A p \in DOMAIN a : a[p] \in Peers /\ BucketIndex(Self, a[p]) = i
    BY <1>4 DEF GoodBucket
  <1>6. \A p, q \in DOMAIN a : a[p] = a[q] => p = q
    BY <1>4 DEF GoodBucket
  <1>7. Len(a) <= Capacity
    BY <1>1, <1>2
  <1> QED BY <1>2, <1>5, <1>6, <1>7 DEF GoodBucket, a

\* Removing the head keeps a bucket good, makes room and removes that node.
LEMMA TailGood ==
  ASSUME NEW i, NEW nodes, GoodBucket(nodes, i), nodes # <<>>
  PROVE  /\ GoodBucket(Tail(nodes), i)
         /\ Len(Tail(nodes)) < Len(nodes)
         /\ Head(nodes) \in Peers /\ BucketIndex(Self, Head(nodes)) = i
  <1> DEFINE t == Tail(nodes)
  <1> USE TableAssumption
  <1>1. nodes \in Seq(Key) /\ Len(nodes) \in Nat /\ Len(nodes) # 0
    BY DEF GoodBucket
  <1>2. t \in Seq(Key) /\ Len(t) = Len(nodes) - 1
    BY <1>1
  <1>3. /\ DOMAIN t = 1 .. Len(nodes) - 1 /\ DOMAIN nodes = 1 .. Len(nodes)
        /\ \A p \in 1 .. Len(nodes) - 1 : t[p] = nodes[p + 1]
        /\ Head(nodes) = nodes[1]
    BY <1>1, <1>2
  <1> HIDE DEF t
  <1>4. \A p \in DOMAIN t : p + 1 \in DOMAIN nodes /\ p + 1 # 1 /\ t[p] = nodes[p + 1]
    BY <1>1, <1>3
  <1>5. 1 \in DOMAIN nodes
    BY <1>1, <1>3
  <1>6. \A p \in DOMAIN t : t[p] \in Peers /\ BucketIndex(Self, t[p]) = i
    BY <1>4 DEF GoodBucket
  <1>7. \A p, q \in DOMAIN t : t[p] = t[q] => p = q
    <2> SUFFICES ASSUME NEW p \in DOMAIN t, NEW q \in DOMAIN t, t[p] = t[q] PROVE p = q
      OBVIOUS
    <2>1. p + 1 = q + 1
      BY <1>4 DEF GoodBucket
    <2> QED BY <2>1, <1>1, <1>3
  <1>8. Len(t) <= Capacity /\ Len(t) < Len(nodes)
    BY <1>1, <1>2 DEF GoodBucket
  <1>10. Head(nodes) \in Peers /\ BucketIndex(Self, Head(nodes)) = i
    BY <1>3, <1>5 DEF GoodBucket
  <1> QED BY <1>2, <1>6, <1>7, <1>8, <1>10 DEF GoodBucket, t

\* The invariant, bucket by bucket.
LEMMA WellFormedBuckets ==
  BucketsWellFormed =>
    /\ buckets \in [BucketIndices -> Seq(Key)]
    /\ \A i \in BucketIndices : GoodBucket(buckets[i], i)
  BY DEF BucketsWellFormed, TableTypeOK, Placement, NoDuplicates, WithinCapacity,
         GoodBucket

\* A table in which one bucket is replaced by a good one has good buckets.
LEMMA ReplaceBucket ==
  ASSUME BucketsWellFormed, NEW i \in BucketIndices, NEW nodes, GoodBucket(nodes, i),
         buckets' = [buckets EXCEPT ![i] = nodes]
  PROVE  /\ buckets' \in [BucketIndices -> Seq(Key)]
         /\ buckets'[i] = nodes
         /\ Placement' /\ NoDuplicates'
         /\ \A j \in BucketIndices : Len(buckets'[j]) <= Capacity
  <1>1. buckets \in [BucketIndices -> Seq(Key)] /\ nodes \in Seq(Key)
    BY WellFormedBuckets DEF GoodBucket
  <1>2. \A j \in BucketIndices : GoodBucket(buckets'[j], j)
    BY <1>1, WellFormedBuckets
  <1>3. buckets' \in [BucketIndices -> Seq(Key)] /\ buckets'[i] = nodes
    BY <1>1
  <1>4. Placement' /\ NoDuplicates'
    BY <1>2 DEF Placement, NoDuplicates, GoodBucket
  <1>5. \A j \in BucketIndices : Len(buckets'[j]) <= Capacity
    BY <1>2 DEF GoodBucket
  <1> QED BY <1>3, <1>4, <1>5

\* store_nodeinfo preserves the invariant, with and without room in the bucket.
LEMMA StoreWellFormed ==
  ASSUME BucketsWellFormed, NEW key \in Peers, StoreNodeinfo(key)
  PROVE  BucketsWellFormed'
  <1> USE TableAssumption
  <1> DEFINE i == BucketIndex(Self, key)
             r == RemoveNodeinfo(buckets[i], key)
  <1>1. CASE i = NoBucket
    BY <1>1 DEF StoreNodeinfo, tableVars, BucketsWellFormed, TableTypeOK,
                Placement, NoDuplicates, WithinCapacity
  <1>2. CASE i # NoBucket
    <2>1. i \in BucketIndices
      BY <1>2, BucketIndexSound
    <2>2. GoodBucket(buckets[i], i)
      BY <2>1, WellFormedBuckets
    <2>3. /\ r \in Seq(Key) /\ Len(r) <= Len(buckets[i])
          /\ \A p, q \in DOMAIN r : r[p] = r[q] => p = q
          /\ \A p \in DOMAIN r : r[p] # key /\ \E q \in DOMAIN buckets[i] : r[p] = buckets[i][q]
      BY <2>2, RemoveNodeinfoProperty DEF GoodBucket
    <2>4. GoodBucket(r, i)
      BY <2>2, <2>3 DEF GoodBucket
    <2>5. evicting = NoKey /\ AddNodeinfo(i, key) /\ adding = NoKey
      BY <1>2 DEF StoreNodeinfo, BucketsWellFormed, WithinCapacity
    <2> HIDE DEF r
    <2>6. CASE Len(r) < Capacity
      <3>1. /\ buckets' = [buckets EXCEPT ![i] = Append(r, key)]
            /\ UNCHANGED <<evicting, adding>>
        BY <2>5, <2>6 DEF AddNodeinfo, r
      <3>2. GoodBucket(Append(r, key), i)
        BY <2>3, <2>4, <2>6, AppendGood
      <3> HIDE DEF i
      <3>3. /\ buckets' \in [BucketIndices -> Seq(Key)] /\ Placement' /\ NoDuplicates'
            /\ \A j \in BucketIndices : Len(buckets'[j]) <= Capacity
        BY <2>1, <3>1, <3>2, ReplaceBucket
      <3> QED BY <2>5, <3>1, <3>3 DEF BucketsWellFormed, TableTypeOK, WithinCapacity
    <2>7. CASE ~(Len(r) < Capacity)
      <3>1. /\ buckets' = [buckets EXCEPT ![i] = Tail(r)]
            /\ evicting' = Head(r) /\ adding' = key
        BY <2>5, <2>7 DEF AddNodeinfo, r
      <3>2. r # <<>>
        BY <2>7
      <3>3. /\ GoodBucket(Tail(r), i) /\ Len(Tail(r)) < Capacity
            /\ Head(r) \in Peers /\ BucketIndex(Self, Head(r)) = i
            /\ \A p \in DOMAIN Tail(r) : Tail(r)[p] # Head(r) /\ Tail(r)[p] # key
            /\ Head(r) # key
        <4>1. Len(r) \in Nat /\ Len(r) <= Capacity
          BY <2>4 DEF GoodBucket
        <4>2. Len(Tail(r)) \in Nat
          BY <2>4, <3>2, TailGood DEF GoodBucket
        <4>3. /\ GoodBucket(Tail(r), i) /\ Len(Tail(r)) < Len(r)
              /\ Head(r) \in Peers /\ BucketIndex(Self, Head(r)) = i
          BY <2>4, <3>2, TailGood
        <4>a. /\ \A p \in DOMAIN Tail(r) : /\ p + 1 \in DOMAIN r /\ p + 1 # 1
                                           /\ Tail(r)[p] = r[p + 1]
              /\ 1 \in DOMAIN r /\ Head(r) = r[1]
          BY <2>3, <3>2, <4>1
        <4>b. \A p \in DOMAIN Tail(r) : Tail(r)[p] # Head(r)
          BY <2>3, <4>a
        <4>4. Len(Tail(r)) < Capacity
          BY <4>1, <4>2, <4>3
        <4>5. \A p \in DOMAIN r : r[p] # key
          BY <2>3
        <4> QED BY <4>3, <4>4, <4>5, <4>a, <4>b
      <3>4. /\ buckets' \in [BucketIndices -> Seq(Key)] /\ Placement' /\ NoDuplicates'
            /\ \A j \in BucketIndices : Len(buckets'[j]) <= Capacity
            /\ buckets'[i] = Tail(r)
        <4> HIDE DEF i
        <4> QED BY <2>1, <3>1, <3>3, ReplaceBucket
      <3>5. evicting' # NoKey /\ adding' # NoKey
        BY <3>1, <3>3
      <3>6. WithinCapacity'
        BY <2>1, <3>1, <3>3, <3>4, <3>5 DEF WithinCapacity
      <3> QED BY <3>1, <3>3, <3>4, <3>6 DEF BucketsWellFormed, TableTypeOK
    <2> QED BY <2>6, <2>7
  <1> QED BY <1>1, <1>2

\* So does the rest of add_nodeinfo, whatever the ping of the head returned.
LEMMA PingReturnsWellFormed ==
  ASSUME BucketsWellFormed, NEW result, PingOfHeadReturns(result)
  PROVE  BucketsWellFormed'
  <1> USE TableAssumption
  <1> DEFINE i == BucketIndex(Self, adding)
  <1>1. /\ evicting # NoKey /\ evicting' = NoKey /\ adding' = NoKey
        /\ \/ buckets' = [buckets EXCEPT ![i] = Append(buckets[i], evicting)]
           \/ buckets' = [buckets EXCEPT ![i] = Append(buckets[i], adding)]
           \/ buckets' = buckets
    BY DEF PingOfHeadReturns
  <1>2. /\ i \in BucketIndices /\ BucketIndex(Self, evicting) = i
        /\ evicting \in Peers /\ adding \in Peers
        /\ Len(buckets[i]) < Capacity
        /\ \A p \in DOMAIN buckets[i] : buckets[i][p] \notin {evicting, adding}
    BY <1>1 DEF BucketsWellFormed, TableTypeOK, WithinCapacity
  <1>3. GoodBucket(buckets[i], i)
    BY <1>2, WellFormedBuckets
  <1>4. GoodBucket(Append(buckets[i], evicting), i)
    BY <1>2, <1>3, AppendGood
  <1>5. GoodBucket(Append(buckets[i], adding), i)
    BY <1>2, <1>3, AppendGood
  <1> HIDE DEF i
  <1>6. /\ buckets' \in [BucketIndices -> Seq(Key)] /\ Placement' /\ NoDuplicates'
        /\ \A j \in BucketIndices : Len(buckets'[j]) <= Capacity
    <2>1. CASE buckets' = [buckets EXCEPT ![i] = Append(buckets[i], evicting)]
      BY <2>1, <1>2, <1>4, ReplaceBucket
    <2>2. CASE buckets' = [buckets EXCEPT ![i] = Append(buckets[i], adding)]
      BY <2>2, <1>2, <1>5, ReplaceBucket
    <2>3. CASE buckets' = buckets
      BY <2>3 DEF BucketsWellFormed, TableTypeOK, Placement, NoDuplicates,
                  WithinCapacity
    <2> QED BY <1>1, <2>1, <2>2, <2>3
  <1> QED BY <1>1, <1>6 DEF BucketsWellFormed, TableTypeOK, WithinCapacity

\* store_nodeinfo forgets nobody, the head it removes to ping aside; and unless it
\* removes a head, the table has the node afterwards.
LEMMA StoreForgetsNobody ==
  ASSUME BucketsWellFormed, NEW key \in Key, StoreNodeinfo(key)
  PROVE  /\ AllNodeinfos \subseteq AllNodeinfos' \cup {evicting'}
         /\ key # Self /\ evicting' = NoKey => key \in AllNodeinfos'
  <1> USE TableAssumption
  <1> DEFINE i == BucketIndex(Self, key)
             r == RemoveNodeinfo(buckets[i], key)
  <1>a. AllNodeinfos = UNION {ToSet(buckets[j]) : j \in BucketIndices}
    BY DEF AllNodeinfos, NodesIn, BucketIndices
  <1>b. AllNodeinfos' = UNION {ToSet(buckets'[j]) : j \in BucketIndices}
    BY DEF AllNodeinfos, NodesIn, BucketIndices
  <1>1. CASE i = NoBucket
    BY <1>1, <1>a, <1>b, BucketIndexSound DEF StoreNodeinfo, tableVars
  <1>2. CASE i # NoBucket
    <2>1. i \in BucketIndices
      BY <1>2, BucketIndexSound
    <2>2. GoodBucket(buckets[i], i) /\ buckets \in [BucketIndices -> Seq(Key)]
      BY <2>1, WellFormedBuckets
    <2>3. /\ r \in Seq(Key)
          /\ \A q \in DOMAIN buckets[i] :
               IF buckets[i][q] = key THEN Len(r) < Len(buckets[i])
               ELSE \E p \in DOMAIN r : r[p] = buckets[i][q]
      BY <2>2, RemoveNodeinfoProperty DEF GoodBucket
    <2>4. AddNodeinfo(i, key)
      BY <1>2 DEF StoreNodeinfo
    <2> HIDE DEF r
    <2>5. CASE Len(r) < Capacity
      <3>1. buckets' = [buckets EXCEPT ![i] = Append(r, key)]
        BY <2>4, <2>5 DEF AddNodeinfo, r
      <3>2. ToSet(Append(r, key)) = ToSet(r) \cup {key}
        BY <2>3, AppendElements
      <3>3. ToSet(buckets[i]) \subseteq ToSet(Append(r, key)) /\ key \in ToSet(Append(r, key))
        BY <2>3, <3>2 DEF ToSet
      <3> HIDE DEF i
      <3> QED BY <1>a, <1>b, <2>1, <2>2, <3>1, <3>3
    <2>6. CASE ~(Len(r) < Capacity)
      <3>1. buckets' = [buckets EXCEPT ![i] = Tail(r)] /\ evicting' = Head(r)
        BY <2>4, <2>6 DEF AddNodeinfo, r
      <3>2. Len(r) \in Nat /\ Len(buckets[i]) \in Nat /\ Len(buckets[i]) <= Capacity
        BY <2>2, <2>3 DEF GoodBucket
      <3>3. r # <<>> /\ ~(Len(r) < Len(buckets[i]))
        BY <2>6, <3>2
      <3>4. ToSet(r) = ToSet(Tail(r)) \cup {Head(r)} /\ Head(r) \in Key
        BY <2>3, <3>3, TailElements
      <3>5. ToSet(buckets[i]) \subseteq ToSet(r)
        BY <2>3, <3>3 DEF ToSet
      <3>6. ToSet(buckets[i]) \subseteq ToSet(Tail(r)) \cup {Head(r)}
        BY <3>4, <3>5
      <3>7. evicting' # NoKey
        BY <3>1, <3>4
      <3> HIDE DEF i
      <3>8. \A j \in BucketIndices :
              ToSet(buckets[j]) \subseteq ToSet(buckets'[j]) \cup {evicting'}
        BY <2>1, <2>2, <3>1, <3>6
      <3> QED BY <1>a, <1>b, <3>7, <3>8
    <2> QED BY <2>5, <2>6
  <1> QED BY <1>1, <1>2

\* The buckets are well formed in every reachable state: every node is in the
\* bucket its distance asks for, once, never this node itself, and no bucket
\* outgrows K, whatever is stored in whatever order and however pings end.
THEOREM TableInvariance == TableSpec => []BucketsWellFormed
  <1>1. BucketsWellFormed /\ [TableNext]_tableVars => BucketsWellFormed'
    <2> SUFFICES ASSUME BucketsWellFormed, [TableNext]_tableVars
                 PROVE  BucketsWellFormed'
      OBVIOUS
    <2>1. ASSUME NEW key \in Peers, StoreNodeinfo(key) PROVE BucketsWellFormed'
      BY <2>1, StoreWellFormed
    <2>2. ASSUME NEW result, PingOfHeadReturns(result) PROVE BucketsWellFormed'
      BY <2>2, PingReturnsWellFormed
    <2>3. CASE UNCHANGED tableVars
      BY <2>3 DEF tableVars, BucketsWellFormed, TableTypeOK, Placement,
                  NoDuplicates, WithinCapacity
    <2> QED BY <2>1, <2>2, <2>3 DEF TableNext
  <1> QED BY <1>1, TableInitWellFormed, PTL DEF TableSpec


\* No two keys are each nearer to the target than the other.
LEMMA NearerAsymmetric ==
  ASSUME NEW x \in Key, NEW y \in Key, NEW target \in Key, Nearer(x, y, target)
  PROVE  ~Nearer(y, x, target)
  <1> DEFINE d == Distance(x, target)
             e == Distance(y, target)
  <1>1. d \in [Positions -> {0, 1}] /\ e \in [Positions -> {0, 1}]
    BY DEF Distance
  <1>2. Less(d, e)
    BY DEF Nearer
  <1> HIDE DEF d, e
  <1>3. PICK i \in Positions : d[i] < e[i] /\ \A j \in 1 .. i - 1 : d[j] = e[j]
    BY <1>2 DEF Less
  <1>4. ASSUME NEW k \in Positions, e[k] < d[k], \A j \in 1 .. k - 1 : e[j] = d[j]
        PROVE FALSE
    <2>1. i \in Int /\ k \in Int /\ i >= 1 /\ k >= 1
      BY BitsAssumption DEF Positions
    <2>2. ~(k < i) /\ ~(i < k)
      BY <1>1, <1>3, <1>4, <2>1
    <2>3. i = k
      BY <2>1, <2>2
    <2> QED BY <1>1, <1>3, <1>4, <2>3
  <1>5. ~Less(e, d)
    BY <1>4 DEF Less
  <1> QED BY <1>5 DEF Nearer, d, e

\* A bucket without duplicates has as many nodes as entries.
LEMMA BucketCardinality ==
  ASSUME NEW nodes \in Seq(Key),
         \A p, q \in DOMAIN nodes : nodes[p] = nodes[q] => p = q
  PROVE  IsFiniteSet(ToSet(nodes)) /\ Cardinality(ToSet(nodes)) = Len(nodes)
  <1>1. Len(nodes) \in Nat /\ DOMAIN nodes = 1 .. Len(nodes)
    OBVIOUS
  <1>2. nodes \in Bijection(1 .. Len(nodes), ToSet(nodes))
    BY <1>1 DEF Bijection, Injection, Surjection, IsInjective, ToSet
  <1>3. IsFiniteSet(1 .. Len(nodes)) /\ Cardinality(1 .. Len(nodes)) = Len(nodes)
    BY <1>1, FS_Interval
  <1>4. ExistsBijection(1 .. Len(nodes), ToSet(nodes))
    BY <1>2 DEF ExistsBijection
  <1> QED BY <1>3, <1>4, FS_Bijection


\* A well formed table has finitely many nodes.
LEMMA AllNodeinfosFinite ==
  ASSUME BucketsWellFormed
  PROVE  IsFiniteSet(AllNodeinfos)
  <1> DEFINE f == [i \in 0 .. Bits - 1 |-> ToSet(buckets[i])]
             R == {ToSet(buckets[i]) : i \in 0 .. Bits - 1}
  <1>1. f \in Surjection(0 .. Bits - 1, R)
    BY DEF Surjection
  <1>2. IsFiniteSet(0 .. Bits - 1)
    BY FS_Interval, BitsAssumption
  <1>3. IsFiniteSet(R)
    <2> HIDE DEF f, R
    <2> QED BY <1>1, <1>2, FS_Surjection
  <1>4. \A T \in R : IsFiniteSet(T)
    BY WellFormedBuckets, BucketCardinality DEF GoodBucket, BucketIndices
  <1>5. AllNodeinfos = UNION R
    BY DEF AllNodeinfos, NodesIn
  <1> HIDE DEF R
  <1> QED BY <1>3, <1>4, <1>5, FS_UNION

\* The n nearest of a set are the n nearest of a part B of it, if all of B is
\* nearer than all of the rest and B has n elements.
LEMMA NearestOfPart ==
  ASSUME NEW A \in SUBSET Key, NEW B \in SUBSET A, IsFiniteSet(A),
         NEW key \in Key, NEW n \in Nat, Cardinality(B) >= n,
         \A x \in B, y \in A \ B : Nearer(x, y, key)
  PROVE  TakeNearest(B, key, n) = TakeNearest(A, key, n)
  <1> DEFINE nearerIn(S, x) == {y \in S : Nearer(y, x, key)}
  <1>1. ASSUME NEW x \in B PROVE nearerIn(A, x) = nearerIn(B, x)
    BY <1>1, NearerAsymmetric
  <1>2. ASSUME NEW x \in A \ B PROVE ~(Cardinality(nearerIn(A, x)) < n)
    <2>1. B \subseteq nearerIn(A, x)
      BY <1>2
    <2>2. IsFiniteSet(nearerIn(A, x)) /\ IsFiniteSet(B)
      BY FS_Subset
    <2> HIDE DEF nearerIn
    <2>3. Cardinality(B) <= Cardinality(nearerIn(A, x))
      BY <2>1, <2>2, FS_Subset
    <2>4. Cardinality(B) \in Nat /\ Cardinality(nearerIn(A, x)) \in Nat
      BY <2>2, FS_CardinalityType
    <2> QED BY <2>3, <2>4
  <1>3. \A S : TakeNearest(S, key, n) = {x \in S : Cardinality(nearerIn(S, x)) < n}
    BY DEF TakeNearest
  <1> HIDE DEF nearerIn
  <1> QED BY <1>1, <1>2, <1>3

------------------------------------------------------------------------------
(* The order of the sightings. *)

\* In o, every node of the bucket was seen after those before it.
InOrder(nodes, o) ==
    \A p, q \in DOMAIN nodes :
        p < q => <<nodes[p], nodes[q]>> \in o /\ <<nodes[q], nodes[p]>> \notin o

\* The history after key was seen.
SeenLast(o, key) == {pair \in o : pair[1] # key} \cup ((Peers \ {key}) \X {key})

\* A sighting leaves the order of the other nodes alone.
LEMMA OthersInOrder ==
  ASSUME NEW nodes, NEW o, InOrder(nodes, o), NEW key,
         \A p \in DOMAIN nodes : nodes[p] # key
  PROVE  InOrder(nodes, SeenLast(o, key))
  BY DEF InOrder, SeenLast

\* push_back of the node that was just seen keeps the order.
LEMMA AppendInOrder ==
  ASSUME NEW nodes \in Seq(Key), NEW o, InOrder(nodes, o), NEW key \in Key,
         \A p \in DOMAIN nodes : nodes[p] \in Peers /\ nodes[p] # key
  PROVE  InOrder(Append(nodes, key), SeenLast(o, key))
  <1> DEFINE a == Append(nodes, key)
             n == Len(nodes)
  <1>1. n \in Nat /\ DOMAIN nodes = 1 .. n
    OBVIOUS
  <1>2. /\ \A p \in DOMAIN a : \/ p \in DOMAIN nodes /\ a[p] = nodes[p]
                               \/ p = n + 1 /\ a[p] = key
    BY AppendElements
  <1>3. InOrder(nodes, SeenLast(o, key))
    BY OthersInOrder
  <1> HIDE DEF a, n
  <1>4. ASSUME NEW p \in DOMAIN a, NEW q \in DOMAIN a, p < q
        PROVE  <<a[p], a[q]>> \in SeenLast(o, key) /\ <<a[q], a[p]>> \notin SeenLast(o, key)
    <2>1. p \in DOMAIN nodes /\ a[p] = nodes[p]
      BY <1>1, <1>2, <1>4
    <2>2. CASE q \in DOMAIN nodes /\ a[q] = nodes[q]
      BY <1>3, <1>4, <2>1, <2>2 DEF InOrder
    <2>3. CASE a[q] = key
      BY <2>1, <2>3 DEF SeenLast
    <2> QED BY <1>2, <2>2, <2>3
  <1> QED BY <1>4 DEF InOrder, a

\* remove_nodeinfo keeps the order.
LEMMA RemoveInOrder ==
  ASSUME NEW nodes \in Seq(Key), NEW o, InOrder(nodes, o), NEW key \in Key,
         \A p, q \in DOMAIN nodes : nodes[p] = nodes[q] => p = q
  PROVE  InOrder(RemoveNodeinfo(nodes, key), o)
  <1> DEFINE r == RemoveNodeinfo(nodes, key)
  <1>1. \A p, q \in DOMAIN r : p < q =>
          \E a, b \in DOMAIN nodes : a < b /\ r[p] = nodes[a] /\ r[q] = nodes[b]
    BY RemoveNodeinfoProperty
  <1> HIDE DEF r
  <1>2. InOrder(r, o)
    BY <1>1 DEF InOrder
  <1> QED BY <1>2 DEF r

\* So does the removal of the head.
LEMMA TailInOrder ==
  ASSUME NEW nodes \in Seq(Key), nodes # <<>>, NEW o, InOrder(nodes, o)
  PROVE  InOrder(Tail(nodes), o)
  <1> DEFINE t == Tail(nodes)
  <1>1. /\ \A p \in DOMAIN t : p + 1 \in DOMAIN nodes /\ t[p] = nodes[p + 1]
        /\ t \in Seq(Key)
    BY TailElements
  <1>2. \A p, q \in DOMAIN t : p < q => p + 1 < q + 1
    BY <1>1
  <1> HIDE DEF t
  <1>3. InOrder(t, o)
    BY <1>1, <1>2 DEF InOrder
  <1> QED BY <1>3 DEF t

\* The invariant, bucket by bucket.
LEMMA SortedBuckets ==
  SortedByLastSeen <=> \A i \in BucketIndices : InOrder(buckets[i], older)
  BY DEF SortedByLastSeen, InOrder

\* store_nodeinfo preserves the order, with and without room in the bucket.
LEMMA StoreSorted ==
  ASSUME BucketsWellFormed, SortedByLastSeen, NEW key \in Peers, StoreSighting(key)
  PROVE  SortedByLastSeen'
  <1> USE TableAssumption
  <1> DEFINE i == BucketIndex(Self, key)
             r == RemoveNodeinfo(buckets[i], key)
  <1>1. StoreNodeinfo(key) /\ Sighting(key) /\ evicting = NoKey
    BY DEF StoreSighting, StoreNodeinfo
  <1>2. \A j \in BucketIndices : GoodBucket(buckets[j], j) /\ InOrder(buckets[j], older)
    BY WellFormedBuckets, SortedBuckets
  <1>3. BucketsWellFormed'
    BY <1>1, StoreWellFormed
  <1>4. ASSUME NEW j \in BucketIndices, j # i
        PROVE  \A p \in DOMAIN buckets[j] : buckets[j][p] # key
    BY <1>2, <1>4 DEF GoodBucket
  <1>5. CASE i = NoBucket
    <2>1. UNCHANGED tableVars
      BY <1>1, <1>5 DEF StoreNodeinfo
    <2>2. i \notin BucketIndices
      BY <1>5 DEF NoBucket, BucketIndices
    <2>3. buckets' = buckets /\ older' \in {older, SeenLast(older, key)}
      BY <1>1, <2>1 DEF tableVars, Sighting, SeenLast
    <2>4. \A j \in BucketIndices : InOrder(buckets'[j], older')
      <3> HIDE DEF i
      <3> QED BY <1>2, <1>4, <2>2, <2>3, OthersInOrder
    <2> QED BY <2>4, SortedBuckets DEF SortedByLastSeen, InOrder
  <1>6. CASE i # NoBucket
    <2>1. i \in BucketIndices
      BY <1>6, BucketIndexSound
    <2>2. AddNodeinfo(i, key) /\ buckets \in [BucketIndices -> Seq(Key)]
      BY <1>1, <1>6, WellFormedBuckets DEF StoreNodeinfo
    <2>3. /\ r \in Seq(Key) /\ Len(r) \in Nat
          /\ \A p \in DOMAIN r : r[p] # key /\ \E q \in DOMAIN buckets[i] : r[p] = buckets[i][q]
      BY <1>2, <2>1, RemoveNodeinfoProperty DEF GoodBucket
    <2>4. InOrder(r, older) /\ \A p \in DOMAIN r : r[p] \in Peers /\ r[p] # key
      <3>1. InOrder(r, older)
        BY <1>2, <2>1, RemoveInOrder DEF GoodBucket
      <3> QED BY <1>2, <2>1, <2>3, <3>1 DEF GoodBucket
    <2> HIDE DEF r
    <2>5. CASE Len(r) < Capacity
      <3>1. buckets' = [buckets EXCEPT ![i] = Append(r, key)]
        BY <2>2, <2>5 DEF AddNodeinfo, r
      <3>2. key \in ToSet(Append(r, key)) /\ Append(r, key) \in Seq(Key)
        BY <2>3, AppendElements
      <3> HIDE DEF i
      <3>3. buckets'[i] = Append(r, key) /\ \A j \in BucketIndices : j # i => buckets'[j] = buckets[j]
        BY <2>1, <2>2, <3>1
      <3>4. older' = SeenLast(older, key)
        BY <1>1, <2>1, <3>2, <3>3 DEF Sighting, SeenLast
      <3>5. InOrder(Append(r, key), older')
        BY <2>3, <2>4, <3>4, AppendInOrder
      <3>6. \A j \in BucketIndices : InOrder(buckets'[j], older')
        BY <1>2, <1>4, <3>3, <3>4, <3>5, OthersInOrder
      <3> QED BY <3>6 DEF SortedByLastSeen, InOrder
    <2>6. CASE ~(Len(r) < Capacity)
      <3>1. buckets' = [buckets EXCEPT ![i] = Tail(r)] /\ adding' = key /\ evicting' = Head(r)
        BY <2>2, <2>6 DEF AddNodeinfo, r
      <3>2. r # <<>>
        BY <2>6
      <3>3. evicting' # NoKey
        BY <2>3, <3>1, <3>2, TailElements
      <3>4. InOrder(Tail(r), older)
        BY <2>3, <2>4, <3>2, TailInOrder
      <3>5. \A p \in DOMAIN buckets'[i] : buckets'[i][p] # key
        BY <1>3, <3>1, <3>3 DEF BucketsWellFormed, WithinCapacity
      <3> HIDE DEF i
      <3>6. buckets'[i] = Tail(r) /\ \A j \in BucketIndices : j # i => buckets'[j] = buckets[j]
        BY <2>1, <2>2, <3>1
      <3>7. \A j \in BucketIndices : key \notin ToSet(buckets'[j])
        BY <1>4, <3>5, <3>6 DEF ToSet
      <3>8. older' = older
        BY <1>1, <3>7 DEF Sighting
      <3>9. \A j \in BucketIndices : InOrder(buckets'[j], older')
        BY <1>2, <3>4, <3>6, <3>8
      <3> QED BY <3>9 DEF SortedByLastSeen, InOrder
    <2> QED BY <2>5, <2>6
  <1> QED BY <1>5, <1>6

\* So does the rest of add_nodeinfo: the node that goes in last was seen last.
LEMMA PingReturnsSorted ==
  ASSUME BucketsWellFormed, SortedByLastSeen, NEW result, PingSighting(result)
  PROVE  SortedByLastSeen'
  <1> USE TableAssumption
  <1> DEFINE i == BucketIndex(Self, adding)
             key == IF result = "ok" THEN evicting ELSE adding
  <1>1. /\ evicting # NoKey /\ Sighting(key)
        /\ \/ buckets' = [buckets EXCEPT ![i] = Append(buckets[i], key)]
           \/ buckets' = buckets
    BY DEF PingSighting, PingOfHeadReturns
  <1>2. /\ i \in BucketIndices /\ BucketIndex(Self, key) = i /\ key \in Peers
        /\ \A p \in DOMAIN buckets[i] : buckets[i][p] # key
    BY <1>1 DEF BucketsWellFormed, TableTypeOK, WithinCapacity
  <1>3. /\ buckets \in [BucketIndices -> Seq(Key)]
        /\ \A j \in BucketIndices : GoodBucket(buckets[j], j) /\ InOrder(buckets[j], older)
    BY WellFormedBuckets, SortedBuckets
  <1> HIDE DEF i, key
  <1>4. \A j \in BucketIndices : \A p \in DOMAIN buckets[j] : buckets[j][p] # key
    BY <1>2, <1>3 DEF GoodBucket
  <1>5. CASE buckets' = buckets
    <2>1. older' = older
      BY <1>1, <1>4, <1>5 DEF Sighting, ToSet
    <2> QED BY <1>5, <2>1 DEF SortedByLastSeen
  <1>6. CASE buckets' = [buckets EXCEPT ![i] = Append(buckets[i], key)]
    <2>1. /\ buckets'[i] = Append(buckets[i], key)
          /\ \A j \in BucketIndices : j # i => buckets'[j] = buckets[j]
      BY <1>2, <1>3, <1>6
    <2>2. key \in ToSet(Append(buckets[i], key))
      BY <1>2, <1>3, AppendElements
    <2>3. older' = SeenLast(older, key)
      BY <1>1, <1>2, <2>1, <2>2 DEF Sighting, SeenLast
    <2>4. InOrder(Append(buckets[i], key), older')
      BY <1>2, <1>3, <2>3, AppendInOrder DEF GoodBucket
    <2>5. \A j \in BucketIndices : InOrder(buckets'[j], older')
      BY <1>3, <1>4, <2>1, <2>3, <2>4, OthersInOrder
    <2> QED BY <2>5 DEF SortedByLastSeen, InOrder
  <1> QED BY <1>1, <1>5, <1>6

\* Every bucket is sorted by the last sightings of its nodes, the latest one at the
\* tail, whatever is stored in whatever order and however the pings of heads end:
\* the head that add_nodeinfo evicts is the node not seen for the longest time.
THEOREM SightingsInOrder == HistorySpec => []SortedByLastSeen
  <1> DEFINE Inv == BucketsWellFormed /\ SortedByLastSeen
  <1>1. HistoryInit => Inv
    <2>1. HistoryInit => BucketsWellFormed
      BY TableInitWellFormed DEF HistoryInit
    <2>2. HistoryInit => SortedByLastSeen
      BY DEF HistoryInit, TableInit, SortedByLastSeen
    <2> QED BY <2>1, <2>2
  <1>2. Inv /\ [HistoryNext]_historyVars => Inv'
    <2> SUFFICES ASSUME BucketsWellFormed, SortedByLastSeen, [HistoryNext]_historyVars
                 PROVE  BucketsWellFormed' /\ SortedByLastSeen'
      OBVIOUS
    <2>1. ASSUME NEW key \in Peers, StoreSighting(key)
          PROVE  BucketsWellFormed' /\ SortedByLastSeen'
      BY <2>1, StoreWellFormed, StoreSorted DEF StoreSighting
    <2>2. ASSUME NEW result, PingSighting(result)
          PROVE  BucketsWellFormed' /\ SortedByLastSeen'
      BY <2>2, PingReturnsWellFormed, PingReturnsSorted DEF PingSighting
    <2>3. CASE UNCHANGED historyVars
      <3>1. UNCHANGED tableVars /\ older' = older
        BY <2>3 DEF historyVars
      <3> QED BY <3>1 DEF tableVars, BucketsWellFormed, TableTypeOK, Placement,
                  NoDuplicates, WithinCapacity, SortedByLastSeen
    <2> QED BY <2>1, <2>2, <2>3 DEF HistoryNext
  <1> QED BY <1>1, <1>2, PTL DEF HistorySpec

------------------------------------------------------------------------------
(* How many nodes get_n_closest finds. *)

\* Of two different keys one is nearer to the target.
LEMMA NearerTotal ==
  ASSUME NEW x \in Key, NEW y \in Key, NEW target \in Key, x # y
  PROVE  Nearer(x, y, target) \/ Nearer(y, x, target)
  <1> USE BitsAssumption
  <1> DEFINE m == LeadingZerosInDistance(x, y)
             d == Distance(x, target)
             e == Distance(y, target)
  <1>1. m \in 0 .. Bits /\ ExactlyNSameLeadingBits(x, y, m)
    BY LeadingZerosProperty
  <1> HIDE DEF m
  <1>2. m # Bits
    <2>1. ASSUME m = Bits PROVE \A i \in Positions : x[i] = y[i]
      BY <1>1, <2>1 DEF ExactlyNSameLeadingBits, Positions
    <2> QED BY <2>1 DEF Key
  <1>3. m + 1 \in Positions /\ \A j \in 1 .. m : j \in Positions
    BY <1>1, <1>2 DEF Positions
  <1>4. \A j \in 1 .. (m + 1) - 1 : d[j] = e[j]
    BY <1>1, <1>3 DEF Distance, ExactlyNSameLeadingBits
  <1>5. x[m + 1] # y[m + 1]
    BY <1>1, <1>2 DEF ExactlyNSameLeadingBits
  <1>6. x[m + 1] \in {0, 1} /\ y[m + 1] \in {0, 1} /\ target[m + 1] \in {0, 1}
    BY <1>3 DEF Key
  <1>7. d[m + 1] < e[m + 1] \/ e[m + 1] < d[m + 1]
    BY <1>3, <1>5, <1>6 DEF Distance
  <1> HIDE DEF d, e
  <1>8. Less(d, e) \/ Less(e, d)
    BY <1>3, <1>4, <1>7 DEF Less
  <1> QED BY <1>8 DEF Nearer, d, e

\* Nearness is transitive.
LEMMA NearerTransitive ==
  ASSUME NEW x \in Key, NEW y \in Key, NEW z \in Key, NEW target \in Key,
         Nearer(x, y, target), Nearer(y, z, target)
  PROVE  Nearer(x, z, target)
  <1> DEFINE d == Distance(x, target)
             e == Distance(y, target)
             f == Distance(z, target)
  <1>1. /\ d \in [Positions -> {0, 1}] /\ e \in [Positions -> {0, 1}]
        /\ f \in [Positions -> {0, 1}]
    BY DEF Distance
  <1>2. Less(d, e) /\ Less(e, f)
    BY DEF Nearer
  <1> HIDE DEF d, e, f
  <1>3. PICK i \in Positions : d[i] < e[i] /\ \A j \in 1 .. i - 1 : d[j] = e[j]
    BY <1>2 DEF Less
  <1>4. PICK k \in Positions : e[k] < f[k] /\ \A j \in 1 .. k - 1 : e[j] = f[j]
    BY <1>2 DEF Less
  <1>5. i \in Int /\ k \in Int /\ i >= 1 /\ k >= 1
    BY BitsAssumption DEF Positions
  <1>a. /\ d[i] \in {0, 1} /\ e[i] \in {0, 1} /\ f[i] \in {0, 1}
        /\ d[k] \in {0, 1} /\ e[k] \in {0, 1} /\ f[k] \in {0, 1}
    BY <1>1
  <1>6. CASE i < k
    <2>1. d[i] < f[i]
      BY <1>3, <1>4, <1>5, <1>6
    <2>2. \A j \in 1 .. i - 1 : d[j] = f[j]
      BY <1>3, <1>4, <1>5, <1>6
    <2> QED BY <2>1, <2>2 DEF Less, Nearer, d, f
  <1>7. CASE k < i
    <2>1. d[k] < f[k]
      BY <1>3, <1>4, <1>5, <1>7
    <2>2. \A j \in 1 .. k - 1 : d[j] = f[j]
      BY <1>3, <1>4, <1>5, <1>7
    <2> QED BY <2>1, <2>2 DEF Less, Nearer, d, f
  <1>8. i # k
    BY <1>3, <1>4, <1>a
  <1> QED BY <1>5, <1>6, <1>7, <1>8

\* take(n) of the sorted nodes takes n of them, or all.
LEMMA TakeNearestCardinality ==
  ASSUME NEW S \in SUBSET Key, IsFiniteSet(S), NEW key \in Key, NEW n \in Nat
  PROVE  Cardinality(TakeNearest(S, key, n)) =
           IF n < Cardinality(S) THEN n ELSE Cardinality(S)
  <1> DEFINE R == {pair \in S \X S : Nearer(pair[1], pair[2], key)}
  <1>1. \A x, y \in S : <<x, y>> \in R <=> Nearer(x, y, key)
    OBVIOUS
  <1> HIDE DEF R
  <1>2. IsOrder(S, R)
    <2>1. \A x \in S : <<x, x>> \notin R
      BY <1>1, NearerAsymmetric
    <2>2. \A x, y, z \in S : <<x, y>> \in R /\ <<y, z>> \in R => <<x, z>> \in R
      BY <1>1, NearerTransitive
    <2>3. \A x, y \in S : x = y \/ <<x, y>> \in R \/ <<y, x>> \in R
      BY <1>1, NearerTotal
    <2> QED BY <2>1, <2>2, <2>3 DEF IsOrder
  <1>3. TakeNearest(S, key, n) = {x \in S : Cardinality({y \in S : <<y, x>> \in R}) < n}
    <2>1. \A x \in S : {y \in S : <<y, x>> \in R} = {y \in S : Nearer(y, x, key)}
      BY <1>1
    <2> QED BY <2>1 DEF TakeNearest
  <1> QED BY <1>2, <1>3, FirstNCardinality

\* In a well formed table, buckets lo to hi have as many nodes as entries, and
\* those are nodes of the table.
LEMMA EntriesAreNodes ==
  ASSUME BucketsWellFormed, NEW lo \in 0 .. Bits - 1, NEW hi \in 0 .. Bits - 1
  PROVE  /\ NodesIn(lo, hi) \in SUBSET AllNodeinfos /\ AllNodeinfos \in SUBSET Key
         /\ IsFiniteSet(NodesIn(lo, hi))
         /\ Entries(lo, hi) \in Nat
         /\ Cardinality(NodesIn(lo, hi)) = Entries(lo, hi)
  <1> USE BitsAssumption, TableAssumption
  <1> DEFINE E == UNION {{i} \X DOMAIN buckets[i] : i \in lo .. hi}
             f == [e \in E |-> buckets[e[1]][e[2]]]
             D == (0 .. Bits - 1) \X (1 .. Capacity)
  <1>1. \A i \in 0 .. Bits - 1 : GoodBucket(buckets[i], i)
    BY WellFormedBuckets DEF BucketIndices
  <1>2. \A i \in lo .. hi : i \in 0 .. Bits - 1
    OBVIOUS
  <1>3. \A i \in 0 .. Bits - 1 : DOMAIN buckets[i] \in SUBSET (1 .. Capacity)
    <2> SUFFICES ASSUME NEW i \in 0 .. Bits - 1 PROVE DOMAIN buckets[i] \in SUBSET (1 .. Capacity)
      OBVIOUS
    <2>1. buckets[i] \in Seq(Key) /\ Len(buckets[i]) <= Capacity
      BY <1>1 DEF GoodBucket
    <2>2. DOMAIN buckets[i] = 1 .. Len(buckets[i]) /\ Len(buckets[i]) \in Nat
      BY <2>1
    <2> QED BY <2>1, <2>2
  <1>4. E \in SUBSET D
    BY <1>2, <1>3
  <1>5. IsFiniteSet(D)
    <2>1. IsFiniteSet(0 .. Bits - 1) /\ IsFiniteSet(1 .. Capacity)
      BY FS_Interval
    <2> QED BY <2>1, FS_Product
  <1>a. \A e \in E : /\ e = <<e[1], e[2]>> /\ e[1] \in 0 .. Bits - 1
                     /\ e[1] \in lo .. hi /\ e[2] \in DOMAIN buckets[e[1]]
    BY <1>2
  <1>b. \A i \in lo .. hi : \A p \in DOMAIN buckets[i] :
          <<i, p>> \in E /\ f[<<i, p>>] = buckets[i][p]
    OBVIOUS
  <1>c. DOMAIN f = E /\ \A e \in E : f[e] = buckets[e[1]][e[2]]
    OBVIOUS
  <1>d. Entries(lo, hi) = Cardinality(E)
    BY DEF Entries
  <1> HIDE DEF E, f, D
  <1>6. IsFiniteSet(E) /\ Cardinality(E) \in Nat
    BY <1>4, <1>5, FS_Subset, FS_CardinalityType
  <1>7. ASSUME NEW d \in E, NEW e \in E, f[d] = f[e] PROVE d = e
    <2>1. BucketIndex(Self, f[d]) = d[1] /\ BucketIndex(Self, f[e]) = e[1]
      BY <1>1, <1>a, <1>c DEF GoodBucket
    <2>2. d[1] = e[1] /\ d[2] = e[2]
      BY <1>1, <1>7, <1>a, <1>c, <2>1 DEF GoodBucket
    <2> QED BY <1>a, <2>2
  <1>8. NodesIn(lo, hi) = {f[e] : e \in E}
    <2>1. ASSUME NEW x \in NodesIn(lo, hi) PROVE \E e \in E : x = f[e]
      <3>1. PICK i \in lo .. hi : \E p \in DOMAIN buckets[i] : x = buckets[i][p]
        BY <2>1 DEF NodesIn, ToSet
      <3> QED BY <1>b, <3>1
    <2>2. ASSUME NEW e \in E PROVE f[e] \in NodesIn(lo, hi)
      <3>1. f[e] \in ToSet(buckets[e[1]]) /\ e[1] \in lo .. hi
        BY <1>a, <1>c DEF ToSet
      <3> QED BY <3>1 DEF NodesIn
    <2> QED BY <2>1, <2>2
  <1>9. IsFiniteSet({f[e] : e \in E}) /\ Cardinality({f[e] : e \in E}) = Cardinality(E)
    BY <1>6, <1>7, <1>c, ImageCardinality
  <1>10. NodesIn(lo, hi) \in SUBSET AllNodeinfos
    BY <1>2 DEF NodesIn, AllNodeinfos
  <1>11. AllNodeinfos \in SUBSET Key
    <2>1. \A i \in 0 .. Bits - 1 : \A p \in DOMAIN buckets[i] : buckets[i][p] \in Key
      BY <1>1 DEF GoodBucket
    <2> QED BY <2>1 DEF NodesIn, AllNodeinfos, ToSet
  <1> QED BY <1>6, <1>8, <1>9, <1>10, <1>11, <1>d

\* One pass of the loop widens the range on one side at least, if it can.
LEMMA WidenProperty ==
  ASSUME NEW lo \in 0 .. Bits - 1, NEW hi \in lo .. Bits - 1
  PROVE  \E a \in 0 .. lo, b \in hi .. Bits - 1 :
           /\ Widen(<<lo, hi>>) = <<a, b>>
           /\ lo # 0 => a < lo
           /\ hi # Bits - 1 => b > hi
  <1> USE BitsAssumption
  <1> DEFINE up == IF hi + 1 < Bits THEN hi + 1 ELSE hi
             gotUp == Entries(hi + 1, up)
             D == {l \in 0 .. lo - 1 : Entries(l, lo - 1) >= gotUp} \cup {0}
             down == IF lo = 0 THEN 0 ELSE Max(D)
  <1>1. Widen(<<lo, hi>>) = <<down, up>>
    BY DEF Widen
  <1>2. up \in hi .. Bits - 1 /\ (hi # Bits - 1 => up > hi)
    OBVIOUS
  <1> HIDE DEF up, gotUp
  <1>3. down \in 0 .. lo /\ (lo # 0 => down < lo)
    <2>1. CASE lo = 0
      BY <2>1
    <2>2. CASE lo # 0
      <3>1. lo - 1 \in Nat /\ D \in SUBSET (0 .. lo - 1) /\ D # {}
        BY <2>2
      <3> HIDE DEF D
      <3>2. Max(D) \in D
        BY <3>1, MaxProperty
      <3>3. Max(D) \in 0 .. lo - 1
        BY <3>1, <3>2
      <3> QED BY <2>2, <3>3
    <2> QED BY <2>1, <2>2
  <1> HIDE DEF down
  <1> QED BY <1>1, <1>2, <1>3

\* f lists the ranges of buckets after up to N passes of the loop.
AreRanges(f, index, n, N) ==
    f = [passes \in 0 .. N |->
            IF passes = 0 THEN <<index, index>>
            ELSE LET r == f[passes - 1]
                 IN  IF Entries(r[1], r[2]) < n THEN Widen(r) ELSE r]

\* The loop is well defined.
LEMMA RangesExist ==
  ASSUME NEW index, NEW n, NEW N \in Nat
  PROVE  \E f : AreRanges(f, index, n, N)
  <1> DEFINE Is(f, m) == AreRanges(f, index, n, m)
             pass(r) == IF Entries(r[1], r[2]) < n THEN Widen(r) ELSE r
             S == {m \in 0 .. N : \E f : Is(f, m)}
  <1>0. \A f, m : Is(f, m) <=> f = [i \in 0 .. m |-> IF i = 0 THEN <<index, index>>
                                                    ELSE pass(f[i - 1])]
    BY DEF AreRanges
  <1> HIDE DEF Is, pass
  <1>1. 0 \in S
    <2> DEFINE f == [i \in 0 .. 0 |-> <<index, index>>]
    <2>1. f = [i \in 0 .. 0 |-> IF i = 0 THEN <<index, index>> ELSE pass(f[i - 1])]
      OBVIOUS
    <2>2. 0 \in 0 .. N
      OBVIOUS
    <2> HIDE DEF f
    <2>3. Is(f, 0)
      BY <1>0, <2>1
    <2> QED BY <2>2, <2>3
  <1>2. ASSUME NEW m \in 0 .. N - 1, m \in S PROVE m + 1 \in S
    <2>1. PICK f : Is(f, m)
      BY <1>2
    <2> DEFINE g == [i \in 0 .. m + 1 |-> IF i = m + 1 THEN pass(f[m]) ELSE f[i]]
    <2>2. f[0] = <<index, index>> /\ \A i \in 1 .. m : f[i] = pass(f[i - 1])
      <3>1. f = [i \in 0 .. m |-> IF i = 0 THEN <<index, index>> ELSE pass(f[i - 1])]
        BY <1>0, <2>1
      <3> QED BY SMTT(30), <3>1
    <2>3. ASSUME NEW i \in 0 .. m + 1
          PROVE  g[i] = IF i = 0 THEN <<index, index>> ELSE pass(g[i - 1])
      <3>1. CASE i = 0
        BY <2>2, <3>1
      <3>2. CASE i \in 1 .. m
        <4>1. g[i] = f[i] /\ g[i - 1] = f[i - 1]
          BY <3>2
        <4> QED BY <2>2, <3>2, <4>1
      <3>3. CASE i = m + 1
        <4>1. g[i] = pass(f[m]) /\ g[i - 1] = f[m]
          BY <3>3
        <4> QED BY <3>3, <4>1
      <3> QED BY <3>1, <3>2, <3>3
    <2>4. g = [i \in 0 .. m + 1 |-> g[i]]
      OBVIOUS
    <2> HIDE DEF g
    <2>5. g = [i \in 0 .. m + 1 |-> IF i = 0 THEN <<index, index>> ELSE pass(g[i - 1])]
      BY <2>3, <2>4
    <2>6. Is(g, m + 1)
      BY <1>0, <2>5
    <2>7. m + 1 \in 0 .. N
      OBVIOUS
    <2> QED BY <2>6, <2>7
  <1>3. 0 .. N \subseteq S
    <2> HIDE DEF S
    <2> QED BY <1>1, <1>2, Upto
  <1> QED BY <1>3 DEF Is

\* When the loop ends, it has taken n entries or every bucket.
LEMMA WidenedEnough ==
  ASSUME BucketsWellFormed, NEW index \in BucketIndices, NEW n \in Nat
  PROVE  \E lo \in 0 .. Bits - 1 : \E hi \in lo .. Bits - 1 :
           /\ WidenUntilEnough(index, n) = <<lo, hi>>
           /\ index \in lo .. hi
           /\ Entries(lo, hi) >= n \/ (lo = 0 /\ hi = Bits - 1)
  <1> USE BitsAssumption
  <1> DEFINE Is(g) == AreRanges(g, index, n, Bits)
             f == CHOOSE g : Is(g)
             Far(lo, hi, m) == /\ index \in lo .. hi
                               /\ \/ Entries(lo, hi) >= n \/ hi - lo >= m
                                  \/ lo = 0 /\ hi = Bits - 1
             Good(m) == \E lo \in 0 .. Bits - 1 : \E hi \in lo .. Bits - 1 :
                           f[m] = <<lo, hi>> /\ Far(lo, hi, m)
             S == {m \in 0 .. Bits : Good(m)}
  <1>1. WidenUntilEnough(index, n) = f[Bits]
    BY DEF WidenUntilEnough, AreRanges
  <1>2. Is(f)
    <2>1. \E g : Is(g)
      BY RangesExist
    <2> HIDE DEF Is
    <2> QED BY <2>1
  <1> HIDE DEF f
  <1>a. f = [i \in 0 .. Bits |->
               IF i = 0 THEN <<index, index>>
               ELSE IF Entries(f[i - 1][1], f[i - 1][2]) < n THEN Widen(f[i - 1]) ELSE f[i - 1]]
    BY <1>2 DEF AreRanges
  <1>3. f[0] = <<index, index>>
    BY <1>a
  <1>4. ASSUME NEW i \in 1 .. Bits, NEW lo, NEW hi, f[i - 1] = <<lo, hi>>
        PROVE  f[i] = IF Entries(lo, hi) < n THEN Widen(<<lo, hi>>) ELSE <<lo, hi>>
    <2>1. f[i] = IF Entries(f[i - 1][1], f[i - 1][2]) < n THEN Widen(f[i - 1]) ELSE f[i - 1]
      <3> DEFINE pass(r) == IF Entries(r[1], r[2]) < n THEN Widen(r) ELSE r
      <3>1. f = [j \in 0 .. Bits |-> IF j = 0 THEN <<index, index>> ELSE pass(f[j - 1])]
        BY <1>a
      <3> HIDE DEF pass
      <3>2. i \in 0 .. Bits /\ i # 0
        OBVIOUS
      <3>3. f[i] = pass(f[i - 1])
        BY ONLY <3>1, <3>2
      <3> QED BY <3>3 DEF pass
    <2>2. f[i - 1][1] = lo /\ f[i - 1][2] = hi
      BY <1>4
    <2> QED BY <1>4, <2>1, <2>2
  <1>5. 0 \in S
    <2>1. index \in 0 .. Bits - 1 /\ index \in index .. Bits - 1 /\ index - index >= 0
      BY DEF BucketIndices
    <2>2. Far(index, index, 0)
      BY <2>1
    <2> HIDE DEF Far
    <2> QED BY <1>3, <2>1, <2>2
  <1>6. ASSUME NEW m \in 0 .. Bits - 1, m \in S PROVE m + 1 \in S
    <2>1. PICK lo \in 0 .. Bits - 1 : \E hi \in lo .. Bits - 1 :
                  f[m] = <<lo, hi>> /\ Far(lo, hi, m)
      BY <1>6
    <2>2. PICK hi \in lo .. Bits - 1 : f[m] = <<lo, hi>> /\ Far(lo, hi, m)
      BY <2>1
    <2>3. m + 1 \in 1 .. Bits /\ (m + 1) - 1 = m /\ m + 1 \in 0 .. Bits /\ hi \in 0 .. Bits - 1
      OBVIOUS
    <2>4. f[m + 1] = IF Entries(lo, hi) < n THEN Widen(<<lo, hi>>) ELSE <<lo, hi>>
      BY <1>4, <2>2, <2>3
    <2>5. Entries(lo, hi) \in Nat
      BY <2>3, EntriesAreNodes
    <2>6. CASE Entries(lo, hi) >= n
      <3>1. f[m + 1] = <<lo, hi>>
        BY <2>4, <2>5, <2>6
      <3>2. Far(lo, hi, m + 1)
        BY <2>2, <2>6
      <3> HIDE DEF Far
      <3> QED BY <2>3, <3>1, <3>2
    <2>7. CASE ~(Entries(lo, hi) >= n)
      <3>1. PICK a \in 0 .. lo, b \in hi .. Bits - 1 :
              /\ Widen(<<lo, hi>>) = <<a, b>>
              /\ lo # 0 => a < lo
              /\ hi # Bits - 1 => b > hi
        BY WidenProperty
      <3>2. f[m + 1] = <<a, b>>
        BY <2>4, <2>5, <2>7, <3>1
      <3>3. a \in 0 .. Bits - 1 /\ b \in a .. Bits - 1
        OBVIOUS
      <3>4. Far(a, b, m + 1)
        <4>1. hi - lo >= m \/ (lo = 0 /\ hi = Bits - 1)
          BY <2>2, <2>7
        <4>2. b - a >= m + 1 \/ (a = 0 /\ b = Bits - 1)
          BY <4>1, <3>1
        <4>3. index \in a .. b
          BY <2>2, <3>1 DEF BucketIndices
        <4> QED BY <4>2, <4>3
      <3> HIDE DEF Far
      <3> QED BY <2>3, <3>2, <3>3, <3>4
    <2> QED BY <2>6, <2>7
  <1>7. Bits \in S
    <2> HIDE DEF S
    <2>1. 0 .. Bits \subseteq S
      BY <1>5, <1>6, Upto
    <2> QED BY <2>1
  <1>8. PICK lo \in 0 .. Bits - 1 : \E hi \in lo .. Bits - 1 :
                f[Bits] = <<lo, hi>> /\ Far(lo, hi, Bits)
    BY <1>7
  <1>9. PICK hi \in lo .. Bits - 1 : f[Bits] = <<lo, hi>> /\ Far(lo, hi, Bits)
    BY <1>8
  <1>10. ~(hi - lo >= Bits)
    OBVIOUS
  <1> QED BY <1>1, <1>9, <1>10

\* The buckets a query takes: one range around that of the key, with enough entries
\* or all there are.
LEMMA GatheredRange ==
  ASSUME BucketsWellFormed, NEW b \in BucketIndices, NEW n \in Nat
  PROVE  \E lo \in 0 .. Bits - 1 : \E hi \in lo .. Bits - 1 :
           /\ Gathered(b, n) = <<lo, hi>>
           /\ b \in lo .. hi
           /\ Entries(lo, hi) >= n \/ (lo = 0 /\ hi = Bits - 1)
  <1> USE BitsAssumption
  <1>1. CASE Len(buckets[b]) < n
    <2>1. Gathered(b, n) = WidenUntilEnough(b, n)
      BY <1>1 DEF Gathered
    <2> QED BY <2>1, WidenedEnough
  <1>2. CASE ~(Len(buckets[b]) < n)
    <2>1. Gathered(b, n) = <<b, b>>
      BY <1>2 DEF Gathered
    <2>2. buckets[b] \in Seq(Key) /\ \A p, q \in DOMAIN buckets[b] :
                                        buckets[b][p] = buckets[b][q] => p = q
      BY WellFormedBuckets DEF GoodBucket
    <2>3. b \in 0 .. Bits - 1 /\ b \in b .. Bits - 1 /\ b .. b = {b}
      BY DEF BucketIndices
    <2>4. NodesIn(b, b) = ToSet(buckets[b])
      BY <2>3 DEF NodesIn
    <2>5. Entries(b, b) = Len(buckets[b]) /\ Len(buckets[b]) \in Nat
      BY <2>2, <2>3, <2>4, EntriesAreNodes, BucketCardinality
    <2>6. Entries(b, b) >= n
      BY <1>2, <2>5
    <2> QED BY <2>1, <2>3, <2>6
  <1> QED BY <1>1, <1>2

\* In a well formed table the query finds enough.
LEMMA WellFormedEnough == BucketsWellFormed => EnoughFound
  <1> USE BitsAssumption, TableAssumption
  <1> SUFFICES ASSUME BucketsWellFormed,
                      NEW key \in Key \ {Self}, NEW n \in 1 .. Capacity + 1
               PROVE  Cardinality(GetNClosest(key, n)) =
                        IF n < Cardinality(AllNodeinfos) THEN n ELSE Cardinality(AllNodeinfos)
    BY DEF EnoughFound
  <1> DEFINE b == BucketIndex(Self, key)
             total == Cardinality(AllNodeinfos)
  <1>1. b \in BucketIndices /\ b # NoBucket /\ n \in Nat
    BY BucketIndexSound
  <1>2. IsFiniteSet(AllNodeinfos) /\ total \in Nat
    BY AllNodeinfosFinite, FS_CardinalityType
  <1>3. PICK lo \in 0 .. Bits - 1 : \E hi \in lo .. Bits - 1 :
           /\ Gathered(b, n) = <<lo, hi>>
           /\ Entries(lo, hi) >= n \/ (lo = 0 /\ hi = Bits - 1)
    <2> HIDE DEF b
    <2> QED BY <1>1, GatheredRange
  <1>4. PICK hi \in lo .. Bits - 1 :
           /\ Gathered(b, n) = <<lo, hi>>
           /\ Entries(lo, hi) >= n \/ (lo = 0 /\ hi = Bits - 1)
    BY <1>3
  <1> DEFINE S == NodesIn(lo, hi)
  <1>5. hi \in 0 .. Bits - 1
    OBVIOUS
  <1>6. /\ S \in SUBSET AllNodeinfos /\ S \in SUBSET Key /\ IsFiniteSet(S)
        /\ Cardinality(S) = Entries(lo, hi) /\ Cardinality(S) \in Nat
    BY <1>5, EntriesAreNodes
  <1>7. GetNClosest(key, n) = TakeNearest(S, key, n)
    BY <1>1, <1>4 DEF GetNClosest
  <1>8. Cardinality(S) <= total
    BY <1>2, <1>6, FS_Subset
  <1>9. lo = 0 /\ hi = Bits - 1 => S = AllNodeinfos
    BY DEF AllNodeinfos
  <1> HIDE DEF S, b
  <1>10. Cardinality(TakeNearest(S, key, n)) = IF n < Cardinality(S) THEN n ELSE Cardinality(S)
    BY <1>1, <1>6, TakeNearestCardinality
  <1>11. CASE Cardinality(S) >= n
    <2> HIDE DEF total
    <2>1. Cardinality(TakeNearest(S, key, n)) = n /\ (n < total \/ n = total)
      BY <1>1, <1>2, <1>6, <1>8, <1>10, <1>11
    <2> QED BY <1>7, <2>1 DEF total
  <1>12. CASE S = AllNodeinfos
    BY <1>7, <1>10, <1>12
  <1> QED BY <1>4, <1>6, <1>9, <1>11, <1>12

\* get_n_closest returns n nodes whenever the table has that many and all of them
\* when it has fewer, in every reachable state of the table: the loop over the
\* neighbouring buckets never stops early, whatever the buckets hold.
THEOREM EnoughReturned == TableSpec => []EnoughFound
  BY TableInvariance, WellFormedEnough, PTL

\* The nodes of a well formed table are in the buckets their keys belong to.
LEMMA InTheirBuckets ==
  ASSUME BucketsWellFormed
  PROVE  /\ \A i \in BucketIndices : \A x \in ToSet(buckets[i]) :
              x \in Key \ {Self} /\ BucketIndex(Self, x) = i
         /\ AllNodeinfos = UNION {ToSet(buckets[i]) : i \in BucketIndices}
         /\ AllNodeinfos \in SUBSET Key
  <1>1. ASSUME NEW i \in BucketIndices, NEW p \in DOMAIN buckets[i]
        PROVE  buckets[i][p] \in Key \ {Self} /\ BucketIndex(Self, buckets[i][p]) = i
    <2>1. buckets[i][p] \in Key /\ BucketIndex(Self, buckets[i][p]) = i
      BY WellFormedBuckets DEF GoodBucket
    <2>2. i # NoBucket
      BY DEF BucketIndices, NoBucket
    <2> QED BY <2>1, <2>2, BucketIndexSound, TableAssumption
  <1>2. AllNodeinfos = UNION {ToSet(buckets[i]) : i \in BucketIndices}
    BY DEF AllNodeinfos, NodesIn, BucketIndices
  <1>3. \A i \in BucketIndices : \A x \in ToSet(buckets[i]) :
          x \in Key \ {Self} /\ BucketIndex(Self, x) = i
    BY <1>1 DEF ToSet
  <1> QED BY <1>2, <1>3

\* In a well formed table the query is exact where no lower bucket is left over.
LEMMA WellFormedExact == BucketsWellFormed => ExactUnlessLowerLeft
  <1> USE BitsAssumption, TableAssumption
  <1> SUFFICES ASSUME BucketsWellFormed,
                      NEW key \in Key \ {Self}, NEW n \in 1 .. Capacity + 1,
                      \/ Len(buckets[BucketIndex(Self, key)]) >= n
                      \/ NodesIn(0, Gathered(BucketIndex(Self, key), n)[1] - 1) = {}
               PROVE  GetNClosest(key, n) = TakeNearest(AllNodeinfos, key, n)
    BY DEF ExactUnlessLowerLeft
  <1> DEFINE b == BucketIndex(Self, key)
  <1>1. b \in BucketIndices /\ b # NoBucket /\ n \in Nat
    BY BucketIndexSound
  <1>2. Len(buckets[b]) \in Nat /\ (Len(buckets[b]) >= n => ~(Len(buckets[b]) < n))
    BY <1>1, WellFormedBuckets DEF GoodBucket
  <1>3. PICK lo \in 0 .. Bits - 1 : \E hi \in lo .. Bits - 1 :
           /\ Gathered(b, n) = <<lo, hi>>
           /\ b \in lo .. hi
           /\ Entries(lo, hi) >= n \/ (lo = 0 /\ hi = Bits - 1)
    <2> HIDE DEF b
    <2> QED BY <1>1, GatheredRange
  <1>4. PICK hi \in lo .. Bits - 1 :
           /\ Gathered(b, n) = <<lo, hi>>
           /\ b \in lo .. hi
           /\ Entries(lo, hi) >= n \/ (lo = 0 /\ hi = Bits - 1)
    BY <1>3
  <1>5. hi \in 0 .. Bits - 1
    OBVIOUS
  <1> DEFINE S == NodesIn(lo, hi)
  <1>6. /\ S \in SUBSET AllNodeinfos /\ IsFiniteSet(AllNodeinfos)
        /\ Cardinality(S) = Entries(lo, hi)
    BY <1>5, EntriesAreNodes, AllNodeinfosFinite
  <1>7. GetNClosest(key, n) = TakeNearest(S, key, n)
    BY <1>1, <1>4 DEF GetNClosest
  <1>8. lo = 0 /\ hi = Bits - 1 => S = AllNodeinfos
    BY DEF AllNodeinfos
  <1>9. \/ Len(buckets[b]) >= n /\ lo = b /\ hi = b
        \/ NodesIn(0, lo - 1) = {}
    BY <1>2, <1>4 DEF Gathered
  <1>10. ASSUME NEW x \in S, NEW y \in AllNodeinfos \ S PROVE Nearer(x, y, key)
    <2>1. PICK i \in lo .. hi : x \in ToSet(buckets[i])
      BY DEF NodesIn
    <2>2. PICK j \in BucketIndices : y \in ToSet(buckets[j])
      BY InTheirBuckets
    <2>3. i \in BucketIndices
      BY DEF BucketIndices
    <2>4. /\ x \in Key \ {Self} /\ BucketIndex(Self, x) = i
          /\ y \in Key \ {Self} /\ BucketIndex(Self, y) = j
      BY <2>1, <2>2, <2>3, InTheirBuckets
    <2>5. j \notin lo .. hi
      BY <2>2 DEF NodesIn
    <2>6. CASE lo = b /\ hi = b
      <3>1. i = b /\ j # b
        BY <1>1, <2>1, <2>5, <2>6 DEF BucketIndices
      <3> HIDE DEF b
      <3>2. BucketIndex(Self, x) = b /\ BucketIndex(Self, y) # b
        BY <2>4, <3>1
      <3> QED BY <2>4, <3>2, OwnBucketIsNearest DEF b
    <2>7. CASE NodesIn(0, lo - 1) = {}
      <3>1. j \notin 0 .. lo - 1
        BY <2>2, <2>7 DEF NodesIn
      <3>2. i < j /\ b < j
        BY <1>1, <1>4, <2>1, <2>5, <3>1 DEF BucketIndices
      <3> QED BY <2>4, <3>2, UpperBucketsInOrder
    <2> QED BY <1>9, <2>6, <2>7
  <1> HIDE DEF S, b
  <1>11. CASE Cardinality(S) >= n
    BY <1>1, <1>6, <1>7, <1>10, <1>11, InTheirBuckets, NearestOfPart
  <1>12. CASE S = AllNodeinfos
    BY <1>7, <1>12
  <1> QED BY <1>4, <1>6, <1>8, <1>11, <1>12

\* get_n_closest returns exactly the n nearest nodes of the whole table whenever the
\* bucket of the key has n nodes, or no node is left in a bucket below those it took,
\* in every reachable state of the table.
THEOREM ClosestExact == TableSpec => []ExactUnlessLowerLeft
  BY TableInvariance, WellFormedExact, PTL
=============================================================================
