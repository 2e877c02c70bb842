---------------------------- MODULE LookupProofs ----------------------------
(***************************************************************************)
(* The iterative lookup, for any contacts, any K and Alpha and any answers:*)
(* its buffer is sorted and complete, no contact is asked in two rounds,   *)
(* it ends, and what it returns are the nearest contacts it learned of, or *)
(* a witness.                                                              *)
(***************************************************************************)
EXTENDS Lookup, FiniteOrders

\* The assumptions on the constants, as the provers use them.
LEMMA Constants ==
  /\ IsFiniteSet(Nodes) /\ Self \notin Nodes /\ Rank \in [Nodes -> Nat]
  /\ \A c \in Nodes : Rank[c] \in Nat
  /\ \A s \in Answers : s \in Seq(Nodes \cup {Self})
  /\ K \in Nat /\ K > 0 /\ Alpha \in Nat /\ Alpha > 0
  BY LookupAssumption

------------------------------------------------------------------------------
(* Ordered sets of numbers. *)

\* Ordered lists every element of the set once, in order.
LEMMA OrderedProperty ==
  ASSUME NEW S, IsFiniteSet(S), NEW R, IsOrder(S, R), NEW s, s = Ordered(S, R)
  PROVE  /\ Cardinality(S) \in Nat /\ s \in [1 .. Cardinality(S) -> S]
         /\ \A x \in S : \E j \in 1 .. Cardinality(S) : s[j] = x
         /\ \A i, j \in 1 .. Cardinality(S) : i < j => <<s[i], s[j]>> \in R
         /\ \A j \in 1 .. Cardinality(S) :
              Cardinality({y \in S : <<y, s[j]>> \in R}) = j - 1
  <1> DEFINE n == Cardinality(S)
             rank == [x \in S |-> Cardinality({y \in S : <<y, x>> \in R})]
  <1>0. rank = [x \in S |-> Cardinality({y \in S : <<y, x>> \in R})]
    OBVIOUS
  <1>a. \A x \in S : rank[x] = Cardinality({y \in S : <<y, x>> \in R})
    OBVIOUS
  <1> HIDE DEF rank
  <1>1. /\ \A x \in S : rank[x] \in 0 .. n - 1
        /\ \A x, y \in S : <<x, y>> \in R => rank[x] < rank[y]
        /\ \A x, y \in S : rank[x] = rank[y] => x = y
        /\ \A j \in 0 .. n - 1 : \E x \in S : rank[x] = j
    BY <1>0, RankProperty
  <1>2. n \in Nat
    BY FS_CardinalityType
  <1>3. DOMAIN s = 1 .. n /\ s = [j \in DOMAIN s |-> s[j]]
    <2> DEFINE nth(j) == CHOOSE x \in S : Cardinality({y \in S : <<y, x>> \in R}) = j - 1
    <2>1. s = [j \in 1 .. n |-> nth(j)]
      BY DEF Ordered
    <2> HIDE DEF nth
    <2> QED BY <2>1
  <1>4. ASSUME NEW j \in 1 .. n
        PROVE  s[j] \in S /\ rank[s[j]] = j - 1
    <2>1. s[j] = CHOOSE x \in S : Cardinality({y \in S : <<y, x>> \in R}) = j - 1
      BY DEF Ordered
    <2>2. \E x \in S : Cardinality({y \in S : <<y, x>> \in R}) = j - 1
      <3>1. PICK x \in S : rank[x] = j - 1
        <4> HIDE DEF n
        <4> QED BY <1>1, <1>2
      <3> QED BY <1>a, <3>1
    <2>3. s[j] \in S /\ Cardinality({y \in S : <<y, s[j]>> \in R}) = j - 1
      BY <2>1, <2>2
    <2> QED BY <1>a, <2>3
  <1> HIDE DEF n
  <1>5. s \in [1 .. n -> S]
    BY <1>3, <1>4
  <1>6. ASSUME NEW x \in S
        PROVE  \E j \in 1 .. n : s[j] = x
    <2>1. rank[x] + 1 \in 1 .. n /\ rank[x] \in Nat
      BY <1>1, <1>2
    <2>2. rank[s[rank[x] + 1]] = rank[x] /\ s[rank[x] + 1] \in S
      BY <1>4, <2>1
    <2> QED BY <1>1, <2>1, <2>2
  <1>7. ASSUME NEW i \in 1 .. n, NEW j \in 1 .. n, i < j
        PROVE  <<s[i], s[j]>> \in R
    <2>1. rank[s[i]] < rank[s[j]] /\ s[i] \in S /\ s[j] \in S
      BY <1>2, <1>4, <1>7
    <2>2. s[i] # s[j] /\ <<s[j], s[i]>> \notin R
      BY <1>1, <1>2, <2>1
    <2> QED BY <2>1, <2>2 DEF IsOrder
  <1>8. \A j \in 1 .. n : Cardinality({y \in S : <<y, s[j]>> \in R}) = j - 1
    BY <1>a, <1>4
  <1> QED BY <1>2, <1>5, <1>6, <1>7, <1>8 DEF n

\* The numbers of a set that are less than x.
Below(S, x) == {y \in S : y < x}

\* Ascending lists the numbers of a set from the least to the greatest.
LEMMA AscendingProperty ==
  ASSUME NEW S \in SUBSET Nat, IsFiniteSet(S), NEW s, s = Ascending(S)
  PROVE  /\ Cardinality(S) \in Nat /\ s \in [1 .. Cardinality(S) -> S]
         /\ \A x \in S : \E j \in 1 .. Cardinality(S) : s[j] = x
         /\ \A i, j \in 1 .. Cardinality(S) : i < j => s[i] < s[j]
         /\ \A j \in 1 .. Cardinality(S) : Cardinality(Below(S, s[j])) = j - 1
  <1> DEFINE R == {p \in S \X S : p[1] < p[2]}
             n == Cardinality(S)
  <1>1. \A x, y \in S : <<x, y>> \in R <=> x < y
    OBVIOUS
  <1>2. s = Ordered(S, R)
    BY DEF Ascending
  <1> HIDE DEF R
  <1>3. IsOrder(S, R)
    BY <1>1 DEF IsOrder
  <1>4. /\ n \in Nat /\ s \in [1 .. n -> S]
        /\ \A x \in S : \E j \in 1 .. n : s[j] = x
        /\ \A i, j \in 1 .. n : i < j => <<s[i], s[j]>> \in R
        /\ \A j \in 1 .. n : Cardinality({y \in S : <<y, s[j]>> \in R}) = j - 1
    BY <1>2, <1>3, OrderedProperty
  <1> HIDE DEF n
  <1>5. \A i, j \in 1 .. n : i < j => s[i] < s[j]
    BY <1>1, <1>4
  <1>6. ASSUME NEW j \in 1 .. n PROVE Cardinality(Below(S, s[j])) = j - 1
    <2>1. s[j] \in S
      BY <1>4
    <2>2. Below(S, s[j]) = {y \in S : <<y, s[j]>> \in R}
      BY <1>1, <2>1 DEF Below
    <2> QED BY <1>4, <2>2
  <1> QED BY <1>4, <1>5, <1>6 DEF n

------------------------------------------------------------------------------
(* Filters, prefixes and entries. *)

\* The positions of a sequence.
LEMMA Positions ==
  ASSUME NEW T, NEW s \in Seq(T)
  PROVE  /\ Len(s) \in Nat /\ DOMAIN s = 1 .. Len(s) /\ IsFiniteSet(DOMAIN s)
         /\ \A i \in DOMAIN s : s[i] \in T /\ i \in Nat
         /\ \A I \in SUBSET DOMAIN s : I \in SUBSET Nat /\ IsFiniteSet(I)
  <1>1. Len(s) \in Nat /\ DOMAIN s = 1 .. Len(s) /\ \A i \in DOMAIN s : s[i] \in T
    OBVIOUS
  <1>2. IsFiniteSet(1 .. Len(s))
    BY <1>1, FS_Interval
  <1>3. \A I \in SUBSET DOMAIN s : IsFiniteSet(I)
    BY <1>1, <1>2, FS_Subset
  <1> QED BY <1>1, <1>2, <1>3

\* A function on 1 .. n is a sequence of length n.
LEMMA IsSequence ==
  ASSUME NEW n \in Nat, NEW T, NEW s \in [1 .. n -> T]
  PROVE  s \in Seq(T) /\ Len(s) = n /\ DOMAIN s = 1 .. n
  OBVIOUS

\* A filter keeps the elements at the positions I, in their order.
LEMMA PickProperty ==
  ASSUME NEW T, NEW s \in Seq(T), NEW I \in SUBSET DOMAIN s, NEW at, at = Ascending(I)
  PROVE  /\ Cardinality(I) \in Nat /\ at \in [1 .. Cardinality(I) -> I]
         /\ \A x \in I : \E j \in 1 .. Cardinality(I) : at[j] = x
         /\ \A i, j \in 1 .. Cardinality(I) : i < j => at[i] < at[j]
         /\ \A j \in 1 .. Cardinality(I) : Cardinality(Below(I, at[j])) = j - 1
         /\ Pick(s, I) \in Seq(T) /\ Len(Pick(s, I)) = Cardinality(I)
         /\ \A j \in 1 .. Cardinality(I) : Pick(s, I)[j] = s[at[j]]
  <1>1. I \in SUBSET Nat /\ IsFiniteSet(I)
    BY Positions
  <1>2. /\ Cardinality(I) \in Nat /\ at \in [1 .. Cardinality(I) -> I]
        /\ \A x \in I : \E j \in 1 .. Cardinality(I) : at[j] = x
        /\ \A i, j \in 1 .. Cardinality(I) : i < j => at[i] < at[j]
        /\ \A j \in 1 .. Cardinality(I) : Cardinality(Below(I, at[j])) = j - 1
    BY <1>1, AscendingProperty
  <1>3. Pick(s, I) = [j \in 1 .. Cardinality(I) |-> s[at[j]]]
    BY <1>2 DEF Pick
  <1>4. Pick(s, I) \in [1 .. Cardinality(I) -> T]
    BY <1>2, <1>3
  <1> QED BY <1>2, <1>3, <1>4, IsSequence

\* The first n elements, or all of them.
LEMMA TakeProperty ==
  ASSUME NEW T, NEW s \in Seq(T), NEW n \in Nat
  PROVE  /\ Take(s, n) \in Seq(T)
         /\ Len(Take(s, n)) = IF n < Len(s) THEN n ELSE Len(s)
         /\ \A i \in 1 .. Len(Take(s, n)) : Take(s, n)[i] = s[i]
  <1> DEFINE m == Min({n, Len(s)})
  <1>1. Len(s) \in Nat
    OBVIOUS
  <1>2. m \in {n, Len(s)} /\ \A y \in {n, Len(s)} : m <= y
    <2>1. \E x \in {n, Len(s)} : \A y \in {n, Len(s)} : x <= y
      BY <1>1
    <2> QED BY <2>1 DEF Min
  <1>3. m = IF n < Len(s) THEN n ELSE Len(s)
    BY <1>1, <1>2
  <1>4. Take(s, n) = SubSeq(s, 1, m)
    BY DEF Take
  <1> HIDE DEF m
  <1>5. m \in 0 .. Len(s)
    BY <1>1, <1>3
  <1> QED BY <1>3, <1>4, <1>5

\* One entry of a buffer.
LEMMA EntryFacts ==
  ASSUME NEW buf \in Seq(Entry), NEW i \in DOMAIN buf
  PROVE  /\ buf[i] \in Entry /\ buf[i].node \in Nodes /\ Rank[buf[i].node] \in Nat
         /\ buf[i].queried \in BOOLEAN /\ buf[i].responded \in BOOLEAN
         /\ i \in Nat /\ i \in 1 .. Len(buf)
  <1>1. buf[i] \in Entry /\ i \in Nat /\ i \in 1 .. Len(buf)
    OBVIOUS
  <1>2. buf[i].node \in Nodes /\ buf[i].queried \in BOOLEAN /\ buf[i].responded \in BOOLEAN
    BY <1>1 DEF Entry
  <1> QED BY <1>1, <1>2, Constants

\* The contacts of a buffer and its entries.
LEMMA ContactsOf ==
  ASSUME NEW buf \in Seq(Entry)
  PROVE  /\ NodesOf(buf) \in Seq(Nodes) /\ DOMAIN NodesOf(buf) = DOMAIN buf
         /\ \A i \in DOMAIN buf : /\ NodesOf(buf)[i] = buf[i].node
                                  /\ buf[i].node \in Contacts(buf)
         /\ Contacts(buf) \subseteq Nodes
         /\ \A c \in Contacts(buf) : \E i \in DOMAIN buf : buf[i].node = c
         /\ \A c : /\ Places(NodesOf(buf), c) = {i \in DOMAIN buf : buf[i].node = c}
                   /\ IsFiniteSet(Places(NodesOf(buf), c))
  <1>1. \A i \in DOMAIN buf : buf[i].node \in Nodes
    BY EntryFacts
  <1>2. NodesOf(buf) = [i \in DOMAIN buf |-> buf[i].node]
    BY DEF NodesOf
  <1>3. NodesOf(buf) \in Seq(Nodes)
    <2>1. Len(buf) \in Nat /\ DOMAIN buf = 1 .. Len(buf)
      OBVIOUS
    <2>2. NodesOf(buf) \in [1 .. Len(buf) -> Nodes]
      BY <1>1, <1>2, <2>1
    <2> QED BY <2>1, <2>2, IsSequence
  <1>4. \A c : Places(NodesOf(buf), c) = {i \in DOMAIN buf : buf[i].node = c}
    BY <1>2 DEF Places
  <1>5. \A c : IsFiniteSet(Places(NodesOf(buf), c))
    <2> TAKE c
    <2>1. Places(NodesOf(buf), c) \in SUBSET DOMAIN buf
      BY <1>4
    <2> QED BY <2>1, Positions
  <1> QED BY <1>1, <1>2, <1>3, <1>4, <1>5 DEF Contacts, ToSet

\* Nearer contacts come first.
NearestFirst(buf) ==
    \A i, j \in DOMAIN buf : i < j => Rank[buf[i].node] <= Rank[buf[j].node]

\* The contacts of the entries at the positions I, or of the first n of them: none
\* occurs in the list more often than in the buffer.
LEMMA SelectedNodes ==
  ASSUME NEW buf \in Seq(Entry), NEW I \in SUBSET DOMAIN buf, NEW n \in Nat,
         NEW s, s = NodesOf(Pick(buf, I)) \/ s = NodesOf(Take(Pick(buf, I), n))
  PROVE  /\ s \in Seq(Nodes)
         /\ \A i \in DOMAIN s : s[i] = buf[Ascending(I)[i]].node /\ Ascending(I)[i] \in I
         /\ \A c \in ToSet(s) : \E i \in I : buf[i].node = c
         /\ s = NodesOf(Pick(buf, I)) => \A i \in I : buf[i].node \in ToSet(s)
         /\ \A c : Cardinality(Places(s, c)) <= Cardinality(Places(NodesOf(buf), c))
         /\ \A c : Cardinality(Places(s, c)) \in Nat
  <1> DEFINE at == Ascending(I)
             c == Cardinality(I)
             p == Pick(buf, I)
  <1>0. at = Ascending(I)
    OBVIOUS
  <1> HIDE DEF at
  <1>1. /\ c \in Nat /\ at \in [1 .. c -> I] /\ p \in Seq(Entry) /\ Len(p) = c
        /\ \A x \in I : \E j \in 1 .. c : at[j] = x
        /\ \A i, j \in 1 .. c : i < j => at[i] < at[j]
        /\ \A j \in 1 .. c : p[j] = buf[at[j]]
    BY <1>0, PickProperty
  <1>2. Take(p, n) \in Seq(Entry) /\ Len(Take(p, n)) <= c
        /\ \A i \in 1 .. Len(Take(p, n)) : Take(p, n)[i] = p[i]
    <2> HIDE DEF p, c
    <2> QED BY <1>1, TakeProperty
  <1>3. \E q \in Seq(Entry) : /\ Len(q) <= c /\ s = NodesOf(q)
                              /\ \A i \in 1 .. Len(q) : q[i] = p[i]
                              /\ s = NodesOf(Pick(buf, I)) => Len(q) = c
    <2>1. CASE s = NodesOf(p)
      BY <1>1, <2>1
    <2>2. CASE s # NodesOf(p) /\ s = NodesOf(Take(p, n))
      BY <1>2, <2>2
    <2> QED BY <2>1, <2>2
  <1>4. PICK q \in Seq(Entry) : /\ Len(q) <= c /\ s = NodesOf(q)
                                /\ \A i \in 1 .. Len(q) : q[i] = p[i]
                                /\ s = NodesOf(Pick(buf, I)) => Len(q) = c
    BY <1>3
  <1> HIDE DEF c, p
  <1>5. /\ DOMAIN q = 1 .. Len(q) /\ Len(q) \in Nat
        /\ \A i \in DOMAIN q : i \in 1 .. c /\ at[i] \in I /\ q[i] = buf[at[i]]
    <2>1. DOMAIN q = 1 .. Len(q) /\ Len(q) \in Nat
      OBVIOUS
    <2>0. c \in Nat /\ Len(q) <= c
      BY <1>1, <1>4
    <2>2. \A i \in DOMAIN q : i \in 1 .. c
      BY <2>0, <2>1
    <2>3. \A i \in DOMAIN q : at[i] \in I /\ q[i] = p[i] /\ p[i] = buf[at[i]]
      BY <1>1, <1>4, <2>1, <2>2
    <2> QED BY <2>1, <2>2, <2>3
  <1>6. /\ s \in Seq(Nodes) /\ DOMAIN s = 1 .. Len(q)
        /\ \A i \in DOMAIN s : s[i] = buf[at[i]].node /\ at[i] \in I
    <2>1. /\ NodesOf(q) \in Seq(Nodes) /\ DOMAIN NodesOf(q) = DOMAIN q
          /\ \A i \in DOMAIN q : NodesOf(q)[i] = q[i].node
      BY ContactsOf
    <2> QED BY <1>4, <1>5, <2>1
  <1>7. \A x \in ToSet(s) : \E i \in I : buf[i].node = x
    BY <1>6 DEF ToSet
  <1>8. ASSUME s = NodesOf(Pick(buf, I)), NEW x \in I
        PROVE  buf[x].node \in ToSet(s)
    <2>1. Len(q) = c /\ DOMAIN s = 1 .. c
      BY <1>4, <1>6, <1>8
    <2>2. PICK j \in 1 .. c : at[j] = x
      BY <1>1
    <2> QED BY <1>6, <2>1, <2>2 DEF ToSet
  <1>9. ASSUME NEW x
        PROVE  /\ Cardinality(Places(s, x)) <= Cardinality(Places(NodesOf(buf), x))
               /\ Cardinality(Places(s, x)) \in Nat
    <2> DEFINE P == Places(s, x)
               f == [i \in P |-> at[i]]
    <2>1. P \in SUBSET DOMAIN s
      BY DEF Places
    <2>2. IsFiniteSet(P)
      <3> HIDE DEF P
      <3> QED BY <1>6, <2>1, Positions
    <2>3. \A i \in P : i \in 1 .. c /\ at[i] \in I /\ at[i] \in Nat
      BY <1>5, <1>6, <2>1, Positions
    <2>4. \A i, j \in P : f[i] = f[j] => i = j
      <3> SUFFICES ASSUME NEW i \in P, NEW j \in P, at[i] = at[j] PROVE i = j
        OBVIOUS
      <3>1. ~ (i < j) /\ ~ (j < i)
        BY <1>1, <2>3
      <3>2. i \in 1 .. c /\ j \in 1 .. c /\ c \in Nat
        BY <1>1, <2>3
      <3> QED BY <3>1, <3>2
    <2>5. {f[i] : i \in P} \subseteq Places(NodesOf(buf), x)
      <3>1. \A i \in P : i \in DOMAIN s /\ s[i] = x
        BY DEF Places
      <3>2. Places(NodesOf(buf), x) = {i \in DOMAIN buf : buf[i].node = x}
        BY ContactsOf
      <3> HIDE DEF P
      <3> QED BY <1>6, <2>3, <3>1, <3>2
    <2>6. DOMAIN f = P
      OBVIOUS
    <2> HIDE DEF f, P
    <2>7. Cardinality({f[i] : i \in P}) = Cardinality(P)
      BY <2>2, <2>4, <2>6, ImageCardinality
    <2>8. IsFiniteSet(Places(NodesOf(buf), x))
      BY ContactsOf
    <2>9. Cardinality({f[i] : i \in P}) <= Cardinality(Places(NodesOf(buf), x))
      BY <2>5, <2>8, FS_Subset
    <2> QED BY <2>2, <2>7, <2>9, FS_CardinalityType DEF P
  <1> QED BY <1>6, <1>7, <1>8, <1>9 DEF at

------------------------------------------------------------------------------
(* Recording the responses of a round. *)

\* A mark changes one flag of the entries of some ids and nothing else.
LEMMA MarkQueriedProperty ==
  ASSUME NEW buf \in Seq(Entry), NEW S, NEW m, m = MarkQueried(buf, S)
  PROVE  /\ m \in Seq(Entry) /\ DOMAIN m = DOMAIN buf /\ NodesOf(m) = NodesOf(buf)
         /\ \A i \in DOMAIN buf :
              /\ m[i].node = buf[i].node /\ m[i].responded = buf[i].responded
              /\ m[i].queried <=> buf[i].queried \/ SameId(buf[i].node, S)
  <1>1. DOMAIN buf = 1 .. Len(buf) /\ Len(buf) \in Nat
    OBVIOUS
  <1>2. DOMAIN m = DOMAIN buf
    BY DEF MarkQueried
  <1>3. ASSUME NEW i \in DOMAIN buf
        PROVE  /\ m[i] \in Entry /\ m[i].node = buf[i].node
               /\ m[i].responded = buf[i].responded
               /\ m[i].queried <=> buf[i].queried \/ SameId(buf[i].node, S)
    <2>1. m[i] = IF SameId(buf[i].node, S) THEN [buf[i] EXCEPT !.queried = TRUE] ELSE buf[i]
      BY DEF MarkQueried
    <2>2. buf[i] \in Entry
      OBVIOUS
    <2> QED BY <2>1, <2>2 DEF Entry
  <1>4. m \in Seq(Entry)
    <2>1. m \in [1 .. Len(buf) -> Entry]
      BY <1>1, <1>2, <1>3 DEF MarkQueried
    <2> QED BY <1>1, <2>1, IsSequence
  <1>5. NodesOf(m) = NodesOf(buf)
    BY <1>2, <1>3 DEF NodesOf
  <1> QED BY <1>2, <1>3, <1>4, <1>5

LEMMA MarkRespondedProperty ==
  ASSUME NEW buf \in Seq(Entry), NEW S, NEW m, m = MarkResponded(buf, S)
  PROVE  /\ m \in Seq(Entry) /\ DOMAIN m = DOMAIN buf /\ NodesOf(m) = NodesOf(buf)
         /\ \A i \in DOMAIN buf :
              /\ m[i].node = buf[i].node /\ m[i].queried = buf[i].queried
              /\ m[i].responded <=> buf[i].responded \/ SameId(buf[i].node, S)
  <1>1. DOMAIN buf = 1 .. Len(buf) /\ Len(buf) \in Nat
    OBVIOUS
  <1>2. DOMAIN m = DOMAIN buf
    BY DEF MarkResponded
  <1>3. ASSUME NEW i \in DOMAIN buf
        PROVE  /\ m[i] \in Entry /\ m[i].node = buf[i].node
               /\ m[i].queried = buf[i].queried
               /\ m[i].responded <=> buf[i].responded \/ SameId(buf[i].node, S)
    <2>1. m[i] = IF SameId(buf[i].node, S) THEN [buf[i] EXCEPT !.responded = TRUE]
                 ELSE buf[i]
      BY DEF MarkResponded
    <2>2. buf[i] \in Entry
      OBVIOUS
    <2> QED BY <2>1, <2>2 DEF Entry
  <1>4. m \in Seq(Entry)
    <2>1. m \in [1 .. Len(buf) -> Entry]
      BY <1>1, <1>2, <1>3 DEF MarkResponded
    <2> QED BY <1>1, <2>1, IsSequence
  <1>5. NodesOf(m) = NodesOf(buf)
    BY <1>2, <1>3 DEF NodesOf
  <1> QED BY <1>2, <1>3, <1>4, <1>5

\* The entries for a list of contacts have no marks.
LEMMA NewEntriesProperty ==
  ASSUME NEW s \in Seq(Nodes), NEW new, new = NewEntries(s)
  PROVE  /\ new \in Seq(Entry) /\ DOMAIN new = DOMAIN s /\ Len(new) = Len(s)
         /\ \A i \in DOMAIN s : /\ new[i].node = s[i]
                                /\ ~ new[i].queried /\ ~ new[i].responded
  <1>1. Len(s) \in Nat /\ DOMAIN s = 1 .. Len(s) /\ \A i \in DOMAIN s : s[i] \in Nodes
    OBVIOUS
  <1>2. new = [i \in 1 .. Len(s) |-> [node |-> s[i], queried |-> FALSE, responded |-> FALSE]]
    BY <1>1 DEF NewEntries, NewEntry
  <1>3. new \in [1 .. Len(s) -> Entry]
    BY <1>1, <1>2 DEF Entry
  <1> QED BY <1>1, <1>2, <1>3, IsSequence

\* The contacts of an answer s that are entered: each that is new, once.
LEMMA PushProperty ==
  ASSUME NEW buf \in Seq(Entry), NEW s \in Seq(Nodes \cup {Self}),
         NEW new, new = Pick(s, FirstMentions(buf, s))
  PROVE  /\ new \in Seq(Nodes)
         /\ \A i \in DOMAIN new : new[i] \notin Contacts(buf)
         /\ \A i, j \in DOMAIN new : new[i] = new[j] => i = j
         /\ ToSet(new) = (ToSet(s) \ {Self}) \ Contacts(buf)
  <1> DEFINE I == FirstMentions(buf, s)
             at == Ascending(I)
             n == Cardinality(I)
  <1>0. at = Ascending(I) /\ I \in SUBSET DOMAIN s
    BY DEF FirstMentions
  <1>1. \A i \in DOMAIN s :
          i \in I <=> /\ s[i] \notin Contacts(buf) /\ s[i] # Self
                      /\ \A j \in 1 .. i - 1 : s[j] # s[i]
    BY DEF FirstMentions
  <1> HIDE DEF I, at
  <1>2. /\ n \in Nat /\ at \in [1 .. n -> I]
        /\ \A x \in I : \E j \in 1 .. n : at[j] = x
        /\ \A i, j \in 1 .. n : i < j => at[i] < at[j]
        /\ new \in Seq(Nodes \cup {Self}) /\ Len(new) = n
        /\ \A j \in 1 .. n : new[j] = s[at[j]]
    BY <1>0, PickProperty DEF I
  <1> HIDE DEF n
  <1>3. DOMAIN s = 1 .. Len(s) /\ Len(s) \in Nat /\ \A i \in DOMAIN s : i \in Nat
    OBVIOUS
  <1>4. DOMAIN new = 1 .. n /\ \A j \in 1 .. n : at[j] \in I /\ at[j] \in DOMAIN s
    BY <1>0, <1>2
  <1>5. \A j \in 1 .. n : new[j] \in Nodes /\ new[j] \notin Contacts(buf)
    BY <1>1, <1>2, <1>4
  <1>6. new \in Seq(Nodes)
    BY <1>2, <1>4, <1>5
  <1>7. ASSUME NEW i \in 1 .. n, NEW j \in 1 .. n, i < j PROVE new[i] # new[j]
    <2>1. at[i] < at[j] /\ at[i] \in 1 .. Len(s) /\ at[j] \in 1 .. Len(s)
      BY <1>2, <1>3, <1>4, <1>7
    <2>2. at[i] \in 1 .. at[j] - 1
      BY <1>3, <2>1
    <2> QED BY <1>1, <1>2, <1>4, <2>2
  <1>8. \A i, j \in DOMAIN new : new[i] = new[j] => i = j
    BY <1>2, <1>4, <1>7
  <1>9. ASSUME NEW x \in (ToSet(s) \ {Self}) \ Contacts(buf) PROVE x \in ToSet(new)
    <2> DEFINE P == {i \in DOMAIN s : s[i] = x}
    <2>1. P \in SUBSET Nat /\ P # {}
      BY <1>3, <1>9 DEF ToSet
    <2>2. Min(P) \in P /\ \A y \in P : Min(P) <= y
      <3> HIDE DEF P
      <3> QED BY <2>1, MinProperty
    <2> DEFINE i == Min(P)
    <2>3. i \in DOMAIN s /\ s[i] = x /\ i \in 1 .. Len(s)
      BY <1>3, <2>2
    <2>4. ASSUME NEW j \in 1 .. i - 1 PROVE s[j] # x
      <3>1. j \in DOMAIN s /\ ~ (i <= j)
        BY <1>3, <2>3
      <3> QED BY <2>2, <3>1
    <2> HIDE DEF P, i
    <2>5. i \in I
      BY <1>1, <1>9, <2>3, <2>4
    <2>6. PICK j \in 1 .. n : at[j] = i
      BY <1>2, <2>5
    <2> QED BY <1>2, <1>4, <2>3, <2>6 DEF ToSet
  <1>10. ToSet(new) \subseteq (ToSet(s) \ {Self}) \ Contacts(buf)
    BY <1>1, <1>2, <1>4 DEF ToSet
  <1> QED BY <1>4, <1>5, <1>6, <1>8, <1>9, <1>10

\* Entries of other contacts at the end of a buffer.
LEMMA AppendProperty ==
  ASSUME NEW a \in Seq(Entry), NEW b \in Seq(Entry), NEW c, c = a \o b
  PROVE  /\ c \in Seq(Entry) /\ DOMAIN a \subseteq DOMAIN c
         /\ \A i \in DOMAIN a : c[i] = a[i]
         /\ \A i \in DOMAIN b : Len(a) + i \in DOMAIN c /\ c[Len(a) + i] = b[i]
         /\ \A i \in DOMAIN c \ DOMAIN a :
              i - Len(a) \in DOMAIN b /\ c[i] = b[i - Len(a)] /\ i \in Nat /\ Len(a) \in Nat
  <1>1. /\ DOMAIN a = 1 .. Len(a) /\ Len(a) \in Nat
        /\ DOMAIN b = 1 .. Len(b) /\ Len(b) \in Nat
        /\ DOMAIN c = 1 .. Len(a) + Len(b) /\ c \in Seq(Entry)
    OBVIOUS
  <1>2. DOMAIN a \subseteq DOMAIN c /\ \A i \in DOMAIN a : c[i] = a[i]
    BY <1>1
  <1>3. \A i \in DOMAIN b : Len(a) + i \in DOMAIN c /\ c[Len(a) + i] = b[i]
    BY <1>1
  <1>4. ASSUME NEW i \in DOMAIN c \ DOMAIN a
        PROVE  i - Len(a) \in DOMAIN b /\ c[i] = b[i - Len(a)] /\ i \in Nat
    <2>1. i - Len(a) \in DOMAIN b /\ Len(a) + (i - Len(a)) = i /\ i \in Nat
      BY <1>1
    <2> QED BY <1>3, <2>1
  <1> QED BY <1>1, <1>2, <1>3, <1>4

\* A response of a round, and what the first t of them name and say.
RoundResponse ==
    {r \in [from : Nodes, kind : {"fail", "value", "nodes"}, nodes : Seq(Nodes \cup {Self})] :
        r.kind = "fail" => r.nodes = <<>>}
NamedIn(responses, t) == {n \in Nodes : \E i \in 1 .. t : n \in ToSet(responses[i].nodes)}
FailedIn(responses, t) ==
    {responses[i].from : i \in {x \in 1 .. t : responses[x].kind = "fail"}}
AnsweredIn(responses, t) ==
    {responses[i].from : i \in {x \in 1 .. t : responses[x].kind # "fail"}}
After(responses, t) == {responses[i].from : i \in t + 1 .. Len(responses)}

\* Buffer b is buf and further entries of contacts that are not in buf, each once.
Extends(b, buf) ==
    /\ b \in Seq(Entry) /\ DOMAIN buf \subseteq DOMAIN b
    /\ \A i \in DOMAIN buf : b[i].node = buf[i].node
    /\ \A i \in DOMAIN b \ DOMAIN buf : b[i].node \notin Contacts(buf)
    /\ \A i, j \in DOMAIN b \ DOMAIN buf : b[i].node = b[j].node => i = j

\* One turn: the contacts named are in the buffer, the id of the resolver has its mark.
LEMMA RecordResponseProperty ==
  ASSUME NEW buf \in Seq(Entry), NEW r \in RoundResponse, NEW b, b = RecordResponse(buf, r)
  PROVE  /\ Extends(b, buf)
         /\ Contacts(b) = Contacts(buf) \cup (ToSet(r.nodes) \ {Self})
         /\ \A i \in DOMAIN buf :
              /\ b[i].queried <=>
                   buf[i].queried \/ (r.kind = "fail" /\ Rank[r.from] = Rank[buf[i].node])
              /\ b[i].responded <=>
                   buf[i].responded \/ (r.kind # "fail" /\ Rank[r.from] = Rank[buf[i].node])
         /\ \A i \in DOMAIN b \ DOMAIN buf :
              /\ ~ b[i].queried
              /\ b[i].responded => r.kind # "fail" /\ Rank[r.from] = Rank[b[i].node]
  <1>1. r.nodes \in Seq(Nodes \cup {Self}) /\ (r.kind = "fail" => r.nodes = <<>>)
    BY DEF RoundResponse
  <1>2. CASE r.kind = "fail"
    <2>1. b = MarkQueried(buf, {r.from})
      BY <1>2 DEF RecordResponse
    <2>2. /\ b \in Seq(Entry) /\ DOMAIN b = DOMAIN buf /\ NodesOf(b) = NodesOf(buf)
          /\ \A i \in DOMAIN buf :
               /\ b[i].node = buf[i].node /\ b[i].responded = buf[i].responded
               /\ b[i].queried <=> buf[i].queried \/ SameId(buf[i].node, {r.from})
      BY <2>1, MarkQueriedProperty
    <2>3. \A i \in DOMAIN buf : SameId(buf[i].node, {r.from}) <=> Rank[r.from] = Rank[buf[i].node]
      BY DEF SameId
    <2>4. ToSet(r.nodes) \ {Self} = {} /\ Contacts(b) = Contacts(buf)
      BY <1>1, <1>2, <2>2 DEF ToSet, Contacts
    <2>5. \A i \in DOMAIN buf : /\ buf[i].responded \in BOOLEAN /\ b[i].queried \in BOOLEAN
                                /\ buf[i].queried \in BOOLEAN
      BY <2>2, EntryFacts
    <2>6. Extends(b, buf)
      BY <2>2 DEF Extends
    <2> QED BY <1>2, <2>2, <2>3, <2>4, <2>5, <2>6
  <1>3. CASE r.kind # "fail"
    <2> DEFINE new == Pick(r.nodes, FirstMentions(buf, r.nodes))
               e == NewEntries(new)
               c == buf \o e
    <2>1. b = MarkResponded(c, {r.from})
      BY <1>3 DEF RecordResponse
    <2>2. /\ new \in Seq(Nodes)
          /\ \A i \in DOMAIN new : new[i] \notin Contacts(buf)
          /\ \A i, j \in DOMAIN new : new[i] = new[j] => i = j
          /\ ToSet(new) = (ToSet(r.nodes) \ {Self}) \ Contacts(buf)
      BY <1>1, PushProperty
    <2> HIDE DEF new
    <2>3. /\ e \in Seq(Entry) /\ DOMAIN e = DOMAIN new
          /\ \A i \in DOMAIN new : e[i].node = new[i] /\ ~ e[i].queried /\ ~ e[i].responded
      BY <2>2, NewEntriesProperty
    <2> HIDE DEF e
    <2>4. /\ c \in Seq(Entry) /\ DOMAIN buf \subseteq DOMAIN c
          /\ \A i \in DOMAIN buf : c[i] = buf[i]
          /\ \A i \in DOMAIN e : Len(buf) + i \in DOMAIN c /\ c[Len(buf) + i] = e[i]
          /\ \A i \in DOMAIN c \ DOMAIN buf :
               /\ i - Len(buf) \in DOMAIN e /\ c[i] = e[i - Len(buf)]
               /\ i \in Nat /\ Len(buf) \in Nat
      BY <2>3, AppendProperty
    <2> HIDE DEF c
    <2>5. /\ b \in Seq(Entry) /\ DOMAIN b = DOMAIN c
          /\ \A i \in DOMAIN c :
               /\ b[i].node = c[i].node /\ b[i].queried = c[i].queried
               /\ b[i].responded <=> c[i].responded \/ SameId(c[i].node, {r.from})
      BY <2>1, <2>4, MarkRespondedProperty
    <2>6. \A i \in DOMAIN c : SameId(c[i].node, {r.from}) <=> Rank[r.from] = Rank[c[i].node]
      BY DEF SameId
    <2>7. \A i \in DOMAIN b \ DOMAIN buf :
            /\ i - Len(buf) \in DOMAIN new /\ b[i].node = new[i - Len(buf)]
            /\ ~ b[i].queried /\ ~ c[i].responded
      <3> TAKE i \in DOMAIN b \ DOMAIN buf
      <3> DEFINE x == i - Len(buf)
      <3>1. x \in DOMAIN new /\ c[i] = e[x] /\ i \in DOMAIN c
        BY <2>3, <2>4, <2>5
      <3> HIDE DEF x
      <3>2. e[x].node = new[x] /\ ~ e[x].queried /\ ~ e[x].responded
        BY <2>3, <3>1
      <3>3. b[i].node = c[i].node /\ b[i].queried = c[i].queried
        BY <2>5, <3>1
      <3> QED BY <3>1, <3>2, <3>3 DEF x
    <2>8. Extends(b, buf)
      <3>1. \A i \in DOMAIN b \ DOMAIN buf : b[i].node \notin Contacts(buf)
        BY <2>2, <2>7
      <3>2. ASSUME NEW i \in DOMAIN b \ DOMAIN buf, NEW j \in DOMAIN b \ DOMAIN buf,
                   b[i].node = b[j].node
            PROVE  i = j
        <4>1. i - Len(buf) = j - Len(buf)
          BY <2>2, <2>7, <3>2
        <4>2. i \in Nat /\ j \in Nat /\ Len(buf) \in Nat
          BY <2>4, <2>5
        <4> QED BY <4>1, <4>2
      <3> QED BY <2>4, <2>5, <3>1, <3>2 DEF Extends
    <2>9. Contacts(b) = Contacts(buf) \cup (ToSet(r.nodes) \ {Self})
      <3>1. \A x \in Contacts(b) : \E i \in DOMAIN b : b[i].node = x
        BY <2>5, ContactsOf
      <3>2. \A x \in Contacts(buf) : \E i \in DOMAIN buf : buf[i].node = x
        BY ContactsOf
      <3>3. \A i \in DOMAIN b : b[i].node \in Contacts(b)
        BY <2>5, ContactsOf
      <3>4. \A i \in DOMAIN buf : b[i].node \in Contacts(buf)
        BY <2>4, <2>5, ContactsOf
      <3>5. ASSUME NEW x \in Contacts(b) PROVE x \in Contacts(buf) \cup ToSet(new)
        <4>1. PICK i \in DOMAIN b : b[i].node = x
          BY <3>1
        <4>2. CASE i \in DOMAIN buf
          BY <3>4, <4>1, <4>2
        <4>3. CASE i \notin DOMAIN buf
          BY <2>7, <4>1, <4>3 DEF ToSet
        <4> QED BY <4>2, <4>3
      <3>6. ASSUME NEW x \in Contacts(buf) PROVE x \in Contacts(b)
        <4>1. PICK i \in DOMAIN buf : buf[i].node = x
          BY <3>2
        <4>2. i \in DOMAIN b /\ b[i].node = x
          BY <2>4, <2>5, <4>1
        <4> QED BY <3>3, <4>2
      <3>7. ASSUME NEW x \in ToSet(new) PROVE x \in Contacts(b)
        <4>1. PICK i \in DOMAIN new : new[i] = x
          BY DEF ToSet
        <4>2. /\ Len(buf) + i \in DOMAIN c /\ c[Len(buf) + i] = e[i] /\ e[i].node = x
          BY <2>3, <2>4, <4>1
        <4>3. Len(buf) + i \in DOMAIN b /\ b[Len(buf) + i].node = x
          BY <2>5, <4>2
        <4> QED BY <3>3, <4>3
      <3> QED BY <2>2, <3>5, <3>6, <3>7
    <2>10. \A i \in DOMAIN buf :
             /\ b[i].queried = buf[i].queried /\ buf[i].queried \in BOOLEAN
             /\ b[i].responded <=> buf[i].responded \/ Rank[r.from] = Rank[buf[i].node]
      <3> TAKE i \in DOMAIN buf
      <3>1. i \in DOMAIN c /\ c[i] = buf[i] /\ buf[i].queried \in BOOLEAN
        BY <2>4, EntryFacts
      <3>2. /\ b[i].queried = c[i].queried
            /\ b[i].responded <=> c[i].responded \/ Rank[r.from] = Rank[c[i].node]
        BY <2>5, <2>6, <3>1
      <3> QED BY <3>1, <3>2
    <2>11. \A i \in DOMAIN b \ DOMAIN buf :
             b[i].responded => Rank[r.from] = Rank[b[i].node]
      <3> TAKE i \in DOMAIN b \ DOMAIN buf
      <3>1. i \in DOMAIN c /\ ~ c[i].responded
        BY <2>5, <2>7
      <3>2. /\ b[i].node = c[i].node
            /\ b[i].responded <=> c[i].responded \/ Rank[r.from] = Rank[c[i].node]
        BY <2>5, <2>6, <3>1
      <3> QED BY <3>1, <3>2
    <2> QED BY <1>3, <2>7, <2>8, <2>9, <2>10, <2>11
  <1> QED BY <1>2, <1>3

\* The flags of a buffer rest on these sets: the contacts that were asked, answered and
\* failed, and those whose entries must be marked.
Flags(buf, asks, answers, failures, marked) ==
    \A i \in DOMAIN buf :
        /\ buf[i].queried => SameId(buf[i].node, asks)
        /\ buf[i].responded => SameId(buf[i].node, answers)
        /\ HasFailedToRespond(buf[i]) => SameId(buf[i].node, failures)
        /\ buf[i].node \in marked => buf[i].queried

\* After a turn the resolver need no longer be taken for one that may yet have failed.
LEMMA TurnFlags ==
  ASSUME NEW buf \in Seq(Entry), NEW r \in RoundResponse, NEW b, b = RecordResponse(buf, r),
         NEW asks, NEW answers, NEW failures, NEW marked,
         r.from \in asks, marked \subseteq Contacts(buf), r.from \in Contacts(buf),
         Flags(buf, asks, answers, failures \cup {r.from}, marked),
         NEW ok, ok = (IF r.kind = "fail" THEN {} ELSE {r.from}),
         NEW bad, bad = (IF r.kind = "fail" THEN {r.from} ELSE {})
  PROVE  Flags(b, asks, answers \cup ok, failures \cup bad, marked \cup bad)
  <1>1. /\ DOMAIN buf \subseteq DOMAIN b
        /\ \A i \in DOMAIN buf :
             /\ b[i].node = buf[i].node
             /\ b[i].queried <=>
                  buf[i].queried \/ (r.kind = "fail" /\ Rank[r.from] = Rank[buf[i].node])
             /\ b[i].responded <=>
                  buf[i].responded \/ (r.kind # "fail" /\ Rank[r.from] = Rank[buf[i].node])
        /\ \A i \in DOMAIN b \ DOMAIN buf :
             /\ b[i].node \notin Contacts(buf) /\ ~ b[i].queried
             /\ b[i].responded => r.kind # "fail" /\ Rank[r.from] = Rank[b[i].node]
    BY RecordResponseProperty DEF Extends
  <1> SUFFICES ASSUME NEW i \in DOMAIN b
               PROVE  /\ b[i].queried => SameId(b[i].node, asks)
                      /\ b[i].responded => SameId(b[i].node, answers \cup ok)
                      /\ HasFailedToRespond(b[i]) => SameId(b[i].node, failures \cup bad)
                      /\ b[i].node \in marked \cup bad => b[i].queried
    BY DEF Flags
  <1>2. CASE i \in DOMAIN buf
    <2>1. /\ buf[i].queried => SameId(buf[i].node, asks)
          /\ buf[i].responded => SameId(buf[i].node, answers)
          /\ buf[i].queried /\ ~ buf[i].responded =>
               SameId(buf[i].node, failures \cup {r.from})
          /\ buf[i].node \in marked => buf[i].queried
      BY <1>2 DEF Flags, HasFailedToRespond
    <2>2. b[i].queried => SameId(b[i].node, asks)
      BY <1>1, <1>2, <2>1 DEF SameId
    <2>3. b[i].responded => SameId(b[i].node, answers \cup ok)
      BY <1>1, <1>2, <2>1 DEF SameId
    <2>4. b[i].queried /\ ~ b[i].responded => SameId(b[i].node, failures \cup bad)
      <3>1. CASE r.kind = "fail"
        BY <1>1, <1>2, <2>1, <3>1 DEF SameId
      <3>2. CASE r.kind # "fail"
        BY <1>1, <1>2, <2>1, <3>2 DEF SameId
      <3> QED BY <3>1, <3>2
    <2>5. b[i].node \in marked \cup bad => b[i].queried
      BY <1>1, <1>2, <2>1
    <2> QED BY <2>2, <2>3, <2>4, <2>5 DEF HasFailedToRespond
  <1>3. CASE i \notin DOMAIN buf
    <2>1. /\ b[i].node \notin Contacts(buf) /\ ~ b[i].queried
          /\ b[i].responded => r.kind # "fail" /\ Rank[r.from] = Rank[b[i].node]
      BY <1>1, <1>3
    <2>2. b[i].responded => SameId(b[i].node, answers \cup ok)
      BY <2>1 DEF SameId
    <2> QED BY <2>1, <2>2 DEF HasFailedToRespond
  <1> QED BY <1>2, <1>3

\* The recursion over the turns is well defined.
AreTurns(f, buf, responses, n) ==
    f = [i \in 0 .. n |-> IF i = 0 THEN buf
                          ELSE RecordResponse(f[i - 1], responses[i])]

LEMMA TurnsExist ==
  ASSUME NEW buf, NEW responses, NEW N \in Nat
  PROVE  \E f : AreTurns(f, buf, responses, N)
  <1> DEFINE Is(f, n) == AreTurns(f, buf, responses, n)
             S == {n \in 0 .. N : \E f : Is(f, n)}
  <1>1. 0 \in S
    <2> DEFINE f == [i \in 0 .. 0 |-> buf]
    <2>1. Is(f, 0)
      BY DEF AreTurns
    <2>2. 0 \in 0 .. N
      OBVIOUS
    <2> HIDE DEF f, Is
    <2> QED BY <2>1, <2>2
  <1>2. ASSUME NEW n \in 0 .. N - 1, n \in S PROVE n + 1 \in S
    <2>1. PICK f : Is(f, n)
      BY <1>2
    <2> DEFINE last == RecordResponse(f[n], responses[n + 1])
               g == [i \in 0 .. n + 1 |-> IF i = n + 1 THEN last ELSE f[i]]
    <2>2. /\ f[0] = buf
          /\ \A i \in 1 .. n : f[i] = RecordResponse(f[i - 1], responses[i])
      BY <2>1 DEF AreTurns
    <2>3. ASSUME NEW i \in 0 .. n + 1
          PROVE  g[i] = IF i = 0 THEN buf ELSE RecordResponse(g[i - 1], responses[i])
      <3>1. CASE i = 0
        BY <2>2, <3>1
      <3>2. CASE i \in 1 .. n
        <4>1. g[i] = f[i] /\ g[i - 1] = f[i - 1]
          BY <3>2
        <4> QED BY <2>2, <3>2, <4>1
      <3>3. CASE i = n + 1
        <4>1. g[i] = last /\ g[i - 1] = f[n]
          BY <3>3
        <4> QED BY <3>3, <4>1
      <3> QED BY <3>1, <3>2, <3>3
    <2>4. Is(g, n + 1)
      <3>1. g = [i \in 0 .. n + 1 |-> g[i]]
        OBVIOUS
      <3> HIDE DEF g
      <3> QED BY <2>3, <3>1 DEF AreTurns
    <2>5. n + 1 \in 0 .. N
      OBVIOUS
    <2> HIDE DEF g, Is
    <2> QED BY <2>4, <2>5
  <1>3. 0 .. N \subseteq S
    <2> HIDE DEF S
    <2> QED BY <1>1, <1>2, Upto
  <1> QED BY <1>3

LEMMA TurnsDefined ==
  ASSUME NEW buf, NEW T, NEW responses \in Seq(T), NEW f, f = Turns(buf, responses)
  PROVE  /\ f[0] = buf
         /\ \A i \in 1 .. Len(responses) : f[i] = RecordResponse(f[i - 1], responses[i])
  <1> DEFINE N == Len(responses)
             Is(g) == AreTurns(g, buf, responses, N)
  <1>1. N \in Nat
    OBVIOUS
  <1>2. \E g : Is(g)
    <2> HIDE DEF N
    <2> QED BY <1>1, TurnsExist
  <1>3. f = CHOOSE g : Is(g)
    BY DEF Turns, AreTurns
  <1>4. Is(f)
    <2> HIDE DEF Is
    <2> QED BY <1>2, <1>3
  <1> QED BY <1>1, <1>4 DEF AreTurns

\* Extending is transitive.
LEMMA ExtendsFurther ==
  ASSUME NEW a \in Seq(Entry), NEW b, NEW c, Extends(b, a), Extends(c, b)
  PROVE  Extends(c, a)
  <1>1. /\ b \in Seq(Entry) /\ DOMAIN a \subseteq DOMAIN b
        /\ \A i \in DOMAIN a : b[i].node = a[i].node
        /\ \A i \in DOMAIN b \ DOMAIN a : b[i].node \notin Contacts(a)
        /\ \A i, j \in DOMAIN b \ DOMAIN a : b[i].node = b[j].node => i = j
    BY DEF Extends
  <1>2. /\ c \in Seq(Entry) /\ DOMAIN b \subseteq DOMAIN c
        /\ \A i \in DOMAIN b : c[i].node = b[i].node
        /\ \A i \in DOMAIN c \ DOMAIN b : c[i].node \notin Contacts(b)
        /\ \A i, j \in DOMAIN c \ DOMAIN b : c[i].node = c[j].node => i = j
    BY DEF Extends
  <1>3. \A i \in DOMAIN b : b[i].node \in Contacts(b)
    BY <1>1, ContactsOf
  <1>4. Contacts(a) \subseteq Contacts(b)
    <2>1. \A x \in Contacts(a) : \E i \in DOMAIN a : a[i].node = x
      BY ContactsOf
    <2> QED BY <1>1, <1>3, <2>1
  <1>5. \A i \in DOMAIN c \ DOMAIN a : c[i].node \notin Contacts(a)
    BY <1>1, <1>2, <1>4
  <1>6. \A i, j \in DOMAIN c \ DOMAIN a : c[i].node = c[j].node => i = j
    BY <1>1, <1>2, <1>3
  <1> QED BY <1>1, <1>2, <1>5, <1>6 DEF Extends

\* A contact is in the longer buffer as often as in the shorter one, or once.
LEMMA PlacesExtended ==
  ASSUME NEW buf \in Seq(Entry), NEW b, Extends(b, buf), NEW c \in Contacts(b)
  PROVE  Cardinality(Places(NodesOf(b), c)) =
           IF c \in Contacts(buf) THEN Cardinality(Places(NodesOf(buf), c)) ELSE 1
  <1>1. /\ b \in Seq(Entry) /\ DOMAIN buf \subseteq DOMAIN b
        /\ \A i \in DOMAIN buf : b[i].node = buf[i].node
        /\ \A i \in DOMAIN b \ DOMAIN buf : b[i].node \notin Contacts(buf)
        /\ \A i, j \in DOMAIN b \ DOMAIN buf : b[i].node = b[j].node => i = j
    BY DEF Extends
  <1>2. /\ Places(NodesOf(b), c) = {i \in DOMAIN b : b[i].node = c}
        /\ \E i \in DOMAIN b : b[i].node = c
    BY <1>1, ContactsOf
  <1>3. /\ Places(NodesOf(buf), c) = {i \in DOMAIN buf : buf[i].node = c}
        /\ \A i \in DOMAIN buf : buf[i].node \in Contacts(buf)
    BY ContactsOf
  <1>4. CASE c \in Contacts(buf)
    <2>1. Places(NodesOf(b), c) = Places(NodesOf(buf), c)
      BY <1>1, <1>2, <1>3, <1>4
    <2> QED BY <1>4, <2>1
  <1>5. CASE c \notin Contacts(buf)
    <2>1. PICK i \in DOMAIN b : b[i].node = c
      BY <1>2
    <2>2. Places(NodesOf(b), c) = {i}
      BY <1>1, <1>2, <1>3, <1>5, <2>1
    <2>3. Cardinality({i}) = 1
      BY FS_Singleton
    <2> QED BY <1>5, <2>2, <2>3
  <1> QED BY <1>4, <1>5

\* A buffer in which the responses of contacts of it are recorded that were asked; as
\* long as their responses are not recorded they may count as failed.
Recordable(buf, responses, asks, answers, failures, marked) ==
    /\ marked \subseteq Contacts(buf)
    /\ \A i \in DOMAIN responses :
         responses[i].from \in Contacts(buf) /\ responses[i].from \in asks
    /\ Flags(buf, asks, answers, failures \cup After(responses, 0), marked)

\* The buffer after t turns: the other responses are still to be recorded.
TurnsDone(b, t, buf, responses, asks, answers, failures, marked) ==
    /\ Extends(b, buf)
    /\ Contacts(b) = Contacts(buf) \cup NamedIn(responses, t)
    /\ Flags(b, asks, answers \cup AnsweredIn(responses, t),
             (failures \cup FailedIn(responses, t)) \cup After(responses, t),
             marked \cup FailedIn(responses, t))

LEMMA TurnsProperty ==
  ASSUME NEW buf \in Seq(Entry), NEW responses \in Seq(RoundResponse),
         NEW asks, NEW answers, NEW failures, NEW marked,
         Recordable(buf, responses, asks, answers, failures, marked),
         NEW t \in 0 .. Len(responses), NEW b, b = Turns(buf, responses)[t]
  PROVE  TurnsDone(b, t, buf, responses, asks, answers, failures, marked)
  <1> DEFINE f == Turns(buf, responses)
             N == Len(responses)
             A(x) == AnsweredIn(responses, x)
             F(x) == FailedIn(responses, x)
             L(x) == After(responses, x)
             Good(x) == /\ Extends(f[x], buf)
                        /\ Contacts(f[x]) = Contacts(buf) \cup NamedIn(responses, x)
                        /\ Flags(f[x], asks, answers \cup A(x), (failures \cup F(x)) \cup L(x),
                                 marked \cup F(x))
             S == {x \in 0 .. N : Good(x)}
  <1>0. /\ marked \subseteq Contacts(buf)
        /\ \A i \in DOMAIN responses :
             responses[i].from \in Contacts(buf) /\ responses[i].from \in asks
        /\ Flags(buf, asks, answers, failures \cup L(0), marked)
    BY DEF Recordable
  <1>1. N \in Nat /\ DOMAIN responses = 1 .. N
    OBVIOUS
  <1>2. f[0] = buf /\ \A i \in 1 .. N : f[i] = RecordResponse(f[i - 1], responses[i])
    BY TurnsDefined
  <1> HIDE DEF f
  <1>3. 0 \in S
    <2>1. 1 .. 0 = {}
      OBVIOUS
    <2>2. NamedIn(responses, 0) = {} /\ F(0) = {} /\ A(0) = {}
      BY <2>1 DEF NamedIn, FailedIn, AnsweredIn
    <2>3. Extends(buf, buf)
      BY DEF Extends
    <2>4. /\ answers \cup A(0) = answers /\ marked \cup F(0) = marked
          /\ (failures \cup F(0)) \cup L(0) = failures \cup L(0)
          /\ Contacts(buf) \cup NamedIn(responses, 0) = Contacts(buf)
      BY <2>2
    <2> HIDE DEF N, A, F
    <2>5. Good(0)
      BY <1>0, <1>2, <2>3, <2>4
    <2> QED BY <1>1, <2>5
  <1>4. ASSUME NEW x \in 0 .. N - 1, x \in S PROVE x + 1 \in S
    <2> DEFINE r == responses[x + 1]
               ok == IF r.kind = "fail" THEN {} ELSE {r.from}
               bad == IF r.kind = "fail" THEN {r.from} ELSE {}
    <2>1. /\ x \in Nat /\ x + 1 \in 1 .. N /\ x + 1 \in 0 .. N /\ (x + 1) - 1 = x
          /\ 1 .. x + 1 = (1 .. x) \cup {x + 1}
          /\ x + 1 .. N = (x + 2 .. N) \cup {x + 1} /\ (x + 1) + 1 = x + 2
      BY <1>1
    <2>2. /\ r \in RoundResponse /\ r.from \in Contacts(buf) /\ r.from \in asks
      BY <1>0, <1>1, <2>1
    <2>3. Good(x)
      BY <1>4
    <2>4. f[x + 1] = RecordResponse(f[x], r)
      BY <1>2, <2>1
    <2>5. NamedIn(responses, x + 1) = NamedIn(responses, x) \cup (ToSet(r.nodes) \ {Self})
      <3>1. \A y : (\E i \in 1 .. x + 1 : y \in ToSet(responses[i].nodes)) <=>
                     (\E i \in 1 .. x : y \in ToSet(responses[i].nodes)) \/ y \in ToSet(r.nodes)
        BY <2>1
      <3>2. ToSet(r.nodes) \subseteq Nodes \cup {Self}
        <4>1. r.nodes \in Seq(Nodes \cup {Self})
          BY <2>2 DEF RoundResponse
        <4> QED BY <4>1 DEF ToSet
      <3>3. ToSet(r.nodes) \ {Self} = {n \in Nodes : n \in ToSet(r.nodes)}
        BY <3>2, Constants
      <3> QED BY <3>1, <3>3 DEF NamedIn
    <2>6. F(x + 1) = F(x) \cup bad
      BY <2>1 DEF FailedIn
    <2>7. A(x + 1) = A(x) \cup ok
      BY <2>1 DEF AnsweredIn
    <2>8. L(x) = L(x + 1) \cup {r.from}
      BY <2>1 DEF After
    <2>9. F(x) \subseteq Contacts(buf)
      <3>1. \A i \in 1 .. x : i \in 1 .. N
        BY <1>1, <2>1
      <3> QED BY <1>0, <1>1, <3>1 DEF FailedIn
    <2>a. ok = (IF r.kind = "fail" THEN {} ELSE {r.from})
          /\ bad = (IF r.kind = "fail" THEN {r.from} ELSE {})
      OBVIOUS
    <2> DEFINE fs == (failures \cup F(x)) \cup L(x + 1)
               ms == marked \cup F(x)
    <2>10. (failures \cup F(x)) \cup L(x) = fs \cup {r.from}
      BY <2>8
    <2>11. f[x] \in Seq(Entry) /\ Contacts(buf) \subseteq Contacts(f[x])
      <3> HIDE DEF f, A, F, L
      <3> QED BY <2>3 DEF Extends
    <2>12. ms \subseteq Contacts(f[x]) /\ r.from \in Contacts(f[x])
      BY <1>0, <2>2, <2>9, <2>11
    <2>13. Flags(f[x], asks, answers \cup A(x), fs \cup {r.from}, ms)
      <3> HIDE DEF f, A, F, L
      <3> QED BY <2>3, <2>10
    <2> HIDE DEF r, ok, bad, fs, ms, A, F, L, N
    <2>14. Flags(f[x + 1], asks, (answers \cup A(x)) \cup ok, fs \cup bad, ms \cup bad)
      BY <2>2, <2>4, <2>11, <2>12, <2>13, <2>a, TurnFlags
    <2>15. /\ (answers \cup A(x)) \cup ok = answers \cup A(x + 1)
           /\ fs \cup bad = (failures \cup F(x + 1)) \cup L(x + 1)
           /\ ms \cup bad = marked \cup F(x + 1)
      BY <2>6, <2>7 DEF fs, ms
    <2>16. Extends(f[x + 1], f[x])
           /\ Contacts(f[x + 1]) = Contacts(f[x]) \cup (ToSet(r.nodes) \ {Self})
      BY <2>2, <2>4, <2>11, RecordResponseProperty
    <2>17. Extends(f[x + 1], buf)
      BY <2>3, <2>16, ExtendsFurther
    <2>18. Contacts(f[x + 1]) = Contacts(buf) \cup NamedIn(responses, x + 1)
      BY <2>3, <2>5, <2>16
    <2>19. Good(x + 1)
      BY <2>14, <2>15, <2>17, <2>18
    <2> HIDE DEF Good
    <2> QED BY <2>1, <2>19
  <1>5. 0 .. N \subseteq S
    <2> HIDE DEF S
    <2> QED BY <1>1, <1>3, <1>4, Upto
  <1>6. Good(t)
    <2> HIDE DEF Good
    <2> QED BY <1>5
  <1> QED BY <1>6 DEF f, TurnsDone

\* sort puts the nearest contacts first and keeps the entries.
LEMMA SortProperty ==
  ASSUME NEW buf \in Seq(Entry), NEW s, s = Sort(buf)
  PROVE  /\ s \in Seq(Entry) /\ NearestFirst(s) /\ Contacts(s) = Contacts(buf)
         /\ \A x \in DOMAIN s : \E i \in DOMAIN buf : s[x] = buf[i]
         /\ \A c : Cardinality(Places(NodesOf(s), c)) = Cardinality(Places(NodesOf(buf), c))
  <1> DEFINE D == DOMAIN buf
             key(i) == Rank[buf[i].node]
             before == {p \in D \X D : \/ Rank[buf[p[1]].node] < Rank[buf[p[2]].node]
                                       \/ /\ Rank[buf[p[1]].node] = Rank[buf[p[2]].node]
                                          /\ p[1] < p[2]}
             at == Ordered(D, before)
             n == Cardinality(D)
  <1>1. IsFiniteSet(D) /\ \A i \in D : i \in Nat /\ buf[i] \in Entry /\ key(i) \in Nat
    BY Positions, EntryFacts
  <1>2. \A i, j \in D : <<i, j>> \in before <=> key(i) < key(j) \/ (key(i) = key(j) /\ i < j)
    OBVIOUS
  <1>3. s = [j \in DOMAIN at |-> buf[at[j]]]
    BY DEF Sort
  <1>4. at = Ordered(D, before)
    OBVIOUS
  <1> HIDE DEF at, before, key
  <1>5. IsOrder(D, before)
    <2>1. \A x \in D : <<x, x>> \notin before
      BY <1>1, <1>2
    <2>2. \A x, y, z \in D :
            <<x, y>> \in before /\ <<y, z>> \in before => <<x, z>> \in before
      BY <1>1, <1>2
    <2>3. \A x, y \in D : x = y \/ <<x, y>> \in before \/ <<y, x>> \in before
      <3> TAKE x, y \in D
      <3>1. x \in Nat /\ y \in Nat /\ key(x) \in Nat /\ key(y) \in Nat
        BY <1>1
      <3> DEFINE a == key(x)
                 b == key(y)
      <3>2. /\ <<x, y>> \in before <=> a < b \/ (a = b /\ x < y)
            /\ <<y, x>> \in before <=> b < a \/ (b = a /\ y < x)
        BY <1>2
      <3> HIDE DEF a, b
      <3> QED BY <3>1, <3>2 DEF a, b
    <2> HIDE DEF D
    <2> QED BY <2>1, <2>2, <2>3 DEF IsOrder
  <1>6. /\ n \in Nat /\ at \in [1 .. n -> D]
        /\ \A x \in D : \E j \in 1 .. n : at[j] = x
        /\ \A i, j \in 1 .. n : i < j => <<at[i], at[j]>> \in before
    <2> HIDE DEF D
    <2> QED BY <1>1, <1>4, <1>5, OrderedProperty
  <1> HIDE DEF n
  <1>7. /\ DOMAIN s = 1 .. n
        /\ \A j \in 1 .. n : at[j] \in D /\ s[j] = buf[at[j]]
    BY <1>3, <1>6
  <1>8. s \in Seq(Entry)
    <2>1. s \in [1 .. n -> Entry]
      BY <1>1, <1>3, <1>6, <1>7
    <2> QED BY <1>6, <2>1, IsSequence
  <1>9. NearestFirst(s)
    <2> SUFFICES ASSUME NEW i \in 1 .. n, NEW j \in 1 .. n, i < j
                 PROVE  Rank[s[i].node] <= Rank[s[j].node]
      BY <1>7 DEF NearestFirst
    <2>1. <<at[i], at[j]>> \in before /\ at[i] \in D /\ at[j] \in D
      BY <1>6
    <2>2. key(at[i]) <= key(at[j])
      BY <1>1, <1>2, <2>1
    <2> QED BY <1>7, <2>2 DEF key
  <1>10. \A i, j \in 1 .. n : at[i] = at[j] => i = j
    <2> SUFFICES ASSUME NEW i \in 1 .. n, NEW j \in 1 .. n, at[i] = at[j] PROVE i = j
      OBVIOUS
    <2>1. <<at[i], at[i]>> \notin before
      BY <1>5, <1>6 DEF IsOrder
    <2>2. ~ (i < j) /\ ~ (j < i)
      BY <1>6, <2>1
    <2> QED BY <1>6, <2>2
  <1>11. ASSUME NEW c
         PROVE  Cardinality(Places(NodesOf(s), c)) = Cardinality(Places(NodesOf(buf), c))
    <2> DEFINE P == Places(NodesOf(s), c)
               f == [x \in P |-> at[x]]
    <2>1. P = {x \in 1 .. n : s[x].node = c} /\ IsFiniteSet(P)
      <3>1. P = {x \in DOMAIN s : s[x].node = c} /\ IsFiniteSet(P)
        BY <1>8, ContactsOf
      <3> HIDE DEF P
      <3> QED BY <1>7, <3>1
    <2>2. Places(NodesOf(buf), c) = {x \in D : buf[x].node = c}
      BY ContactsOf
    <2>3. DOMAIN f = P
      OBVIOUS
    <2> HIDE DEF P
    <2>4. \A x, y \in P : f[x] = f[y] => x = y
      BY <1>10, <2>1
    <2>5. ASSUME NEW x \in P PROVE f[x] \in Places(NodesOf(buf), c)
      BY <1>7, <2>1, <2>2
    <2>6. ASSUME NEW y \in Places(NodesOf(buf), c) PROVE \E x \in P : f[x] = y
      <3>1. PICK x \in 1 .. n : at[x] = y
        BY <1>6, <2>2
      <3>2. x \in P
        BY <1>7, <2>1, <2>2, <3>1
      <3> QED BY <3>1, <3>2
    <2> HIDE DEF f
    <2>7. Places(NodesOf(buf), c) = {f[x] : x \in P}
      BY <2>5, <2>6
    <2>8. Cardinality({f[x] : x \in P}) = Cardinality(P)
      BY <2>1, <2>3, <2>4, ImageCardinality
    <2> QED BY <2>7, <2>8 DEF P
  <1>12. \A x \in DOMAIN s : \E i \in DOMAIN buf : s[x] = buf[i]
    BY <1>7
  <1>13. Contacts(s) = Contacts(buf)
    <2>1. ASSUME NEW x \in Contacts(s) PROVE x \in Contacts(buf)
      BY <1>8, <1>12, ContactsOf
    <2>2. ASSUME NEW x \in Contacts(buf) PROVE x \in Contacts(s)
      <3>1. PICK i \in D : buf[i].node = x
        BY ContactsOf
      <3>2. PICK j \in 1 .. n : at[j] = i
        BY <1>6
      <3>3. j \in DOMAIN s /\ s[j].node = x
        BY <1>7, <3>1, <3>2
      <3>4. \A k \in DOMAIN s : s[k].node \in Contacts(s)
        BY <1>8, ContactsOf
      <3> QED BY <3>3, <3>4
    <2> QED BY <2>1, <2>2
  <1> QED BY <1>8, <1>9, <1>11, <1>12, <1>13

\* What record_lookup_round_responses leaves, if t turns of its loop were taken.
RecordedUpTo(b, t, buf, responses, asks, answers, failures, marked) ==
    /\ Contacts(b) = Contacts(buf) \cup NamedIn(responses, t)
    /\ Flags(b, asks, answers \cup AnsweredIn(responses, t),
             (failures \cup FailedIn(responses, t)) \cup After(responses, t),
             marked \cup FailedIn(responses, t))
    /\ ValuesIn(responses) = {} => t = Len(responses) /\ NearestFirst(b)

\* record_lookup_round_responses works off the responses before the first value, if
\* there is one, and otherwise all of them, and then sorts the buffer.
LEMMA RecordProperty ==
  ASSUME NEW buf \in Seq(Entry), NEW responses \in Seq(RoundResponse),
         NEW asks, NEW answers, NEW failures, NEW marked,
         Recordable(buf, responses, asks, answers, failures, marked),
         NEW b, b = Record(buf, responses).buffer
  PROVE  /\ b \in Seq(Entry)
         /\ \A c \in Contacts(b) :
              Cardinality(Places(NodesOf(b), c)) =
                IF c \in Contacts(buf) THEN Cardinality(Places(NodesOf(buf), c)) ELSE 1
         /\ \E t \in 0 .. Len(responses) :
              RecordedUpTo(b, t, buf, responses, asks, answers, failures, marked)
  <1> DEFINE N == Len(responses)
             V == ValuesIn(responses)
             F(x, t) == Flags(x, asks, answers \cup AnsweredIn(responses, t),
                              (failures \cup FailedIn(responses, t)) \cup After(responses, t),
                              marked \cup FailedIn(responses, t))
  <1>a. ASSUME NEW t \in 0 .. Len(responses), NEW c, c = Turns(buf, responses)[t]
        PROVE  /\ Extends(c, buf)
               /\ Contacts(c) = Contacts(buf) \cup NamedIn(responses, t) /\ F(c, t)
    <2>1. TurnsDone(c, t, buf, responses, asks, answers, failures, marked)
      BY <1>a, TurnsProperty
    <2> QED BY <2>1 DEF TurnsDone
  <1>1. N \in Nat /\ DOMAIN responses = 1 .. N /\ V \in SUBSET (1 .. N)
    BY DEF ValuesIn
  <1>2. CASE V = {}
    <2> DEFINE c == Turns(buf, responses)[N]
    <2>1. b = Sort(c)
      BY <1>2 DEF Record
    <2>2. N \in 0 .. Len(responses) /\ c = Turns(buf, responses)[N]
      BY <1>1
    <2>3. /\ Extends(c, buf)
          /\ Contacts(c) = Contacts(buf) \cup NamedIn(responses, N) /\ F(c, N)
      <3> HIDE DEF c, F, N
      <3> QED BY <2>2, <1>a
    <2> HIDE DEF c, N
    <2>4. c \in Seq(Entry)
      BY <2>3 DEF Extends
    <2>5. /\ b \in Seq(Entry) /\ NearestFirst(b) /\ Contacts(b) = Contacts(c)
          /\ \A x \in DOMAIN b : \E i \in DOMAIN c : b[x] = c[i]
          /\ \A x : Cardinality(Places(NodesOf(b), x)) = Cardinality(Places(NodesOf(c), x))
      BY <2>1, <2>4, SortProperty
    <2>6. F(b, N)
      BY <2>3, <2>5 DEF Flags
    <2>7. \A x \in Contacts(b) :
            Cardinality(Places(NodesOf(b), x)) =
              IF x \in Contacts(buf) THEN Cardinality(Places(NodesOf(buf), x)) ELSE 1
      BY <2>3, <2>5, PlacesExtended
    <2>8. N = Len(responses)
      BY DEF N
    <2> HIDE DEF F
    <2>9. \E t \in 0 .. Len(responses) :
              /\ Contacts(b) = Contacts(buf) \cup NamedIn(responses, t) /\ F(b, t)
              /\ ValuesIn(responses) = {} => t = Len(responses) /\ NearestFirst(b)
      BY <2>2, <2>3, <2>5, <2>6, <2>8
    <2> QED BY <2>5, <2>7, <2>9 DEF F, RecordedUpTo
  <1>3. CASE V # {}
    <2> DEFINE t == Min(V) - 1
    <2>1. b = Turns(buf, responses)[t]
      BY <1>3 DEF Record
    <2>2. V \in SUBSET Nat
      BY <1>1
    <2> HIDE DEF V
    <2>3. Min(V) \in V
      BY <1>3, <2>2, MinProperty
    <2>4. Min(V) \in 1 .. N
      BY <1>1, <2>3
    <2>5. t \in 0 .. N
      BY <1>1, <2>4
    <2> HIDE DEF t
    <2>7. /\ Extends(b, buf)
          /\ Contacts(b) = Contacts(buf) \cup NamedIn(responses, t) /\ F(b, t)
      BY <1>a, <2>1, <2>5
    <2>8. b \in Seq(Entry)
      BY <2>7 DEF Extends
    <2>9. \A x \in Contacts(b) :
            Cardinality(Places(NodesOf(b), x)) =
              IF x \in Contacts(buf) THEN Cardinality(Places(NodesOf(buf), x)) ELSE 1
      BY <2>7, PlacesExtended
    <2> HIDE DEF F
    <2>10. \E x \in 0 .. Len(responses) :
              /\ Contacts(b) = Contacts(buf) \cup NamedIn(responses, x) /\ F(b, x)
              /\ ValuesIn(responses) = {} => x = Len(responses) /\ NearestFirst(b)
      BY <1>3, <2>5, <2>7 DEF V
    <2> QED BY <2>8, <2>9, <2>10 DEF F, RecordedUpTo
  <1> QED BY <1>2, <1>3

------------------------------------------------------------------------------
(* A round. *)

\* Each contact asked gives a response.
IsRound(resolvers, responses) ==
    /\ resolvers \in Seq(Nodes)
    /\ responses \in Seq(RoundResponse)
    /\ Len(responses) = Len(resolvers)
    /\ \A i \in DOMAIN responses : /\ responses[i].from = resolvers[i]
                                   /\ responses[i].kind = "value" => mode = "find_value"

LEMMA ReplyFacts ==
  ASSUME NEW r \in Reply
  PROVE  /\ r.kind \in {"fail", "value", "nodes"} /\ r.nodes \in Seq(Nodes \cup {Self})
         /\ r.kind = "fail" => r.nodes = <<>>
  <1>1. \/ r \in [kind : {"fail", "value"}, nodes : {<<>>}]
        \/ r \in [kind : {"nodes"}, nodes : Answers]
    BY DEF Reply
  <1>2. CASE r \in [kind : {"fail", "value"}, nodes : {<<>>}]
    <2>1. <<>> \in Seq(Nodes \cup {Self})
      OBVIOUS
    <2> QED BY <1>2, <2>1
  <1>3. CASE r \in [kind : {"nodes"}, nodes : Answers]
    BY <1>3, Constants
  <1> QED BY <1>1, <1>2, <1>3

LEMMA RoundFacts ==
  ASSUME NEW resolvers \in Seq(Nodes), NEW reply \in Replies(resolvers)
  PROVE  IsRound(resolvers, Responses(resolvers, reply))
  <1> DEFINE rs == Responses(resolvers, reply)
             n == Len(resolvers)
  <1>1. n \in Nat /\ DOMAIN resolvers = 1 .. n /\ \A i \in 1 .. n : resolvers[i] \in Nodes
    OBVIOUS
  <1>2. ASSUME NEW i \in 1 .. n
        PROVE  reply[i] \in Reply /\ (reply[i].kind = "value" => mode = "find_value")
    BY <1>1 DEF Replies
  <1> HIDE DEF n
  <1>3. ASSUME NEW i \in 1 .. n
        PROVE  /\ rs[i] \in RoundResponse /\ rs[i].from = resolvers[i]
               /\ rs[i].kind = "value" => mode = "find_value"
    <2>1. rs[i] = [from |-> resolvers[i], kind |-> reply[i].kind, nodes |-> reply[i].nodes]
      BY <1>1 DEF Responses
    <2>2. /\ reply[i].kind \in {"fail", "value", "nodes"}
          /\ reply[i].nodes \in Seq(Nodes \cup {Self})
          /\ reply[i].kind = "fail" => reply[i].nodes = <<>>
      BY <1>2, ReplyFacts
    <2> HIDE DEF rs
    <2> QED BY <1>1, <1>2, <2>1, <2>2 DEF RoundResponse
  <1>4. rs \in Seq(RoundResponse) /\ Len(rs) = n /\ DOMAIN rs = 1 .. n
    <2>1. rs \in [1 .. n -> RoundResponse]
      BY <1>1, <1>3 DEF Responses
    <2> HIDE DEF rs
    <2> QED BY <1>1, <2>1, IsSequence
  <1> HIDE DEF rs
  <1>5. IsRound(resolvers, rs)
    BY <1>3, <1>4 DEF IsRound, n
  <1> QED BY <1>5 DEF rs

\* The contacts asked are those that failed and those that answered.
LEMMA RoundSets ==
  ASSUME NEW resolvers, NEW responses, IsRound(resolvers, responses),
         NEW t \in 0 .. Len(responses)
  PROVE  /\ Len(responses) \in Nat /\ DOMAIN responses = 1 .. Len(responses)
         /\ FailedIn(responses, Len(responses)) \subseteq ToSet(resolvers)
         /\ AnsweredIn(responses, Len(responses)) \subseteq ToSet(resolvers)
         /\ FailedIn(responses, t) \subseteq FailedIn(responses, Len(responses))
         /\ AnsweredIn(responses, t) \subseteq AnsweredIn(responses, Len(responses))
         /\ NamedIn(responses, t) \subseteq NamedIn(responses, Len(responses))
         /\ After(responses, 0) = ToSet(resolvers) /\ After(responses, Len(responses)) = {}
         /\ ToSet(resolvers) \subseteq Nodes /\ DOMAIN resolvers = DOMAIN responses
         /\ \A i \in DOMAIN responses : responses[i].from \in ToSet(resolvers)
  <1> DEFINE N == Len(responses)
  <1>1. /\ N \in Nat /\ DOMAIN responses = 1 .. N /\ DOMAIN resolvers = 1 .. N
        /\ \A i \in 1 .. N : responses[i].from = resolvers[i] /\ resolvers[i] \in Nodes
    BY DEF IsRound
  <1>2. \A i \in 1 .. t : i \in 1 .. N
    BY <1>1
  <1>9. 0 + 1 .. N = 1 .. N /\ N + 1 .. N = {}
    BY <1>1
  <1>10. After(responses, 0) = ToSet(resolvers) /\ After(responses, N) = {}
    BY <1>1, <1>9 DEF After, ToSet
  <1> HIDE DEF N
  <1>3. FailedIn(responses, N) \subseteq ToSet(resolvers)
    BY <1>1 DEF FailedIn, ToSet
  <1>4. AnsweredIn(responses, N) \subseteq ToSet(resolvers)
    BY <1>1 DEF AnsweredIn, ToSet
  <1>5. FailedIn(responses, t) \subseteq FailedIn(responses, N)
    BY <1>2 DEF FailedIn
  <1>6. AnsweredIn(responses, t) \subseteq AnsweredIn(responses, N)
    BY <1>2 DEF AnsweredIn
  <1>7. NamedIn(responses, t) \subseteq NamedIn(responses, N)
    BY <1>2 DEF NamedIn
  <1>8. ToSet(resolvers) \subseteq Nodes /\ \A i \in 1 .. N : responses[i].from \in ToSet(resolvers)
    BY <1>1 DEF ToSet
  <1> QED BY <1>1, <1>3, <1>4, <1>5, <1>6, <1>7, <1>8, <1>10 DEF N

\* What the histories gain by a round.
LEMMA RememberProperty ==
  ASSUME TypeOK, NEW resolvers, NEW responses, IsRound(resolvers, responses),
         Remember(responses)
  PROVE  /\ asked' \in [Nodes -> Nat]
         /\ \A n \in Nodes :
              /\ asked'[n] = asked[n] + Cardinality(Places(resolvers, n))
              /\ Cardinality(Places(resolvers, n)) \in Nat
              /\ Cardinality(Places(resolvers, n)) > 0 <=> n \in ToSet(resolvers)
         /\ answered' = answered \cup AnsweredIn(responses, Len(responses))
         /\ failed' = failed \cup FailedIn(responses, Len(responses))
         /\ storers' = storers \cup {responses[i].from : i \in ValuesIn(responses)}
         /\ learned' = learned \cup NamedIn(responses, Len(responses))
         /\ {responses[i].from : i \in ValuesIn(responses)}
              \subseteq AnsweredIn(responses, Len(responses))
  <1> DEFINE N == Len(responses)
             U == UNION {ToSet(r.nodes) : r \in ToSet(responses)}
             at(n) == {i \in DOMAIN responses : responses[i].from = n}
  <1>1. /\ N \in Nat /\ DOMAIN responses = 1 .. N /\ DOMAIN resolvers = 1 .. N
        /\ \A i \in 1 .. N : /\ responses[i].from = resolvers[i] /\ resolvers[i] \in Nodes
                             /\ responses[i] \in RoundResponse
        /\ resolvers \in Seq(Nodes)
    BY DEF IsRound
  <1>2. /\ asked' = [n \in Nodes |-> asked[n] + Cardinality(at(n))]
        /\ answered' = answered \cup
             {r.from : r \in {s \in ToSet(responses) : s.kind \in {"nodes", "value"}}}
        /\ failed' = failed \cup {r.from : r \in {s \in ToSet(responses) : s.kind \in {"fail"}}}
        /\ storers' = storers \cup
             {r.from : r \in {s \in ToSet(responses) : s.kind \in {"value"}}}
    BY DEF Remember
  <1>a. learned' = learned \cup (U \ {Self})
    BY DEF Remember
  <1>3. ASSUME NEW n \in Nodes
        PROVE  /\ at(n) = Places(resolvers, n)
               /\ Cardinality(Places(resolvers, n)) \in Nat
               /\ Cardinality(Places(resolvers, n)) > 0 <=> n \in ToSet(resolvers)
    <2>1. at(n) = Places(resolvers, n)
      BY <1>1 DEF Places
    <2>2. Places(resolvers, n) \in SUBSET DOMAIN resolvers
      BY DEF Places
    <2>3. IsFiniteSet(Places(resolvers, n))
      BY <1>1, <2>2, Positions
    <2>4. Places(resolvers, n) # {} <=> n \in ToSet(resolvers)
      BY DEF Places, ToSet
    <2>5. Cardinality(Places(resolvers, n)) \in Nat
          /\ (Cardinality(Places(resolvers, n)) = 0 <=> Places(resolvers, n) = {})
      BY <2>3, FS_CardinalityType, FS_EmptySet
    <2> QED BY <2>1, <2>4, <2>5
  <1> HIDE DEF at, N, U
  <1>4. \A n \in Nodes : asked[n] \in Nat
    BY DEF TypeOK
  <1>5. /\ asked' \in [Nodes -> Nat]
        /\ \A n \in Nodes : asked'[n] = asked[n] + Cardinality(Places(resolvers, n))
    BY <1>2, <1>3, <1>4
  <1>6. \A i \in 1 .. N : /\ responses[i].kind \in {"fail", "value", "nodes"}
                          /\ responses[i].nodes \in Seq(Nodes \cup {Self})
    BY <1>1 DEF RoundResponse
  <1>7. answered' = answered \cup AnsweredIn(responses, N)
    BY <1>1, <1>2, <1>6 DEF AnsweredIn, ToSet
  <1>b. failed' = failed \cup FailedIn(responses, N)
    BY <1>1, <1>2, <1>6 DEF FailedIn, ToSet
  <1>8. storers' = storers \cup {responses[i].from : i \in ValuesIn(responses)}
    BY <1>1, <1>2 DEF ValuesIn, ToSet
  <1>9. U \ {Self} = NamedIn(responses, N)
    <2>1. \A x : x \in U <=> \E i \in 1 .. N : x \in ToSet(responses[i].nodes)
      <3>1. ToSet(responses) = {responses[i] : i \in 1 .. N}
        BY <1>1 DEF ToSet
      <3> QED BY <3>1 DEF U
    <2>2. \A i \in 1 .. N : ToSet(responses[i].nodes) \subseteq Nodes \cup {Self}
      BY <1>6 DEF ToSet
    <2>3. \A x \in U : x # Self <=> x \in Nodes
      BY <2>1, <2>2, Constants
    <2>4. \A x : x \in U \ {Self} <=> x \in NamedIn(responses, N)
      BY <2>1, <2>3, Constants DEF NamedIn
    <2> QED BY <2>4
  <1>10. {responses[i].from : i \in ValuesIn(responses)} \subseteq AnsweredIn(responses, N)
    BY <1>1 DEF ValuesIn, AnsweredIn
  <1> QED BY <1>a, <1>b, <1>3, <1>5, <1>7, <1>8, <1>9, <1>10 DEF N

------------------------------------------------------------------------------
(* What is read off a sorted buffer. *)

\* get_resulting_vector: the first K of the entries that have not failed, in order.
LEMMA ResultProperty ==
  ASSUME NEW buf \in Seq(Entry), NearestFirst(buf), NEW r, r = GetResultingVector(buf)
  PROVE  /\ r \in Seq(Nodes) /\ Len(r) <= K
         /\ \A i, j \in DOMAIN r : i < j => Rank[r[i]] <= Rank[r[j]]
         /\ \A c \in ToSet(r) : \E i \in DOMAIN buf :
              buf[i].node = c /\ ~ HasFailedToRespond(buf[i])
         /\ \A c : Cardinality(Places(r, c)) <= Cardinality(Places(NodesOf(buf), c))
         /\ \A i \in DOMAIN buf :
              \/ buf[i].node \in ToSet(r) \/ HasFailedToRespond(buf[i])
              \/ Len(r) = K /\ \A j \in DOMAIN r : Rank[r[j]] <= Rank[buf[i].node]
  <1> DEFINE I == {i \in DOMAIN buf : ~ HasFailedToRespond(buf[i])}
             at == Ascending(I)
             c == Cardinality(I)
             p == Pick(buf, I)
             q == Take(p, K)
  <1>0. at = Ascending(I) /\ I \in SUBSET DOMAIN buf
    OBVIOUS
  <1>a. \A i \in DOMAIN buf : i \in I <=> ~ HasFailedToRespond(buf[i])
    OBVIOUS
  <1>2. r = NodesOf(q) /\ r = NodesOf(Take(Pick(buf, I), K))
    BY DEF GetResultingVector
  <1> HIDE DEF I, at
  <1>3. /\ c \in Nat /\ at \in [1 .. c -> I] /\ p \in Seq(Entry) /\ Len(p) = c
        /\ \A x \in I : \E j \in 1 .. c : at[j] = x
        /\ \A i, j \in 1 .. c : i < j => at[i] < at[j]
    BY <1>0, PickProperty
  <1>s. /\ r \in Seq(Nodes)
        /\ \A i \in DOMAIN r : r[i] = buf[at[i]].node /\ at[i] \in I
        /\ \A x \in ToSet(r) : \E i \in I : buf[i].node = x
        /\ \A x : Cardinality(Places(r, x)) <= Cardinality(Places(NodesOf(buf), x))
    BY <1>0, <1>2, SelectedNodes, Constants
  <1> HIDE DEF p, c
  <1>4. q \in Seq(Entry) /\ Len(q) = (IF K < c THEN K ELSE c)
    BY <1>3, TakeProperty, Constants
  <1> HIDE DEF q
  <1>5. DOMAIN r = 1 .. Len(q) /\ Len(r) = Len(q)
    <2>1. DOMAIN r = DOMAIN q
      BY <1>2, <1>4, ContactsOf
    <2> QED BY <1>4, <1>s, <2>1
  <1>6. Len(r) <= K /\ \A j \in DOMAIN r : j \in 1 .. c /\ j <= K
    BY <1>3, <1>4, <1>5, Constants
  <1>7. ASSUME NEW i \in DOMAIN r, NEW j \in DOMAIN r, i < j
        PROVE  Rank[r[i]] <= Rank[r[j]]
    <2>1. at[i] < at[j] /\ at[i] \in DOMAIN buf /\ at[j] \in DOMAIN buf
      BY <1>0, <1>3, <1>6, <1>7
    <2> QED BY <1>s, <2>1 DEF NearestFirst
  <1>8. \A x \in ToSet(r) : \E i \in DOMAIN buf :
          buf[i].node = x /\ ~ HasFailedToRespond(buf[i])
    BY <1>0, <1>a, <1>s
  <1>9. ASSUME NEW i \in DOMAIN buf, buf[i].node \notin ToSet(r),
               ~ HasFailedToRespond(buf[i])
        PROVE  Len(r) = K /\ \A j \in DOMAIN r : Rank[r[j]] <= Rank[buf[i].node]
    <2>1. PICK x \in 1 .. c : at[x] = i
      BY <1>3, <1>a, <1>9
    <2>2. x \notin DOMAIN r
      BY <1>9, <1>s, <2>1 DEF ToSet
    <2>3. Len(q) = K /\ x > K
      BY <1>3, <1>4, <1>5, <2>2, Constants
    <2>4. ASSUME NEW j \in DOMAIN r PROVE Rank[r[j]] <= Rank[buf[i].node]
      <3>1. j \in 1 .. c /\ j < x
        BY <1>3, <1>6, <2>3, Constants
      <3>2. at[j] < at[x] /\ at[j] \in DOMAIN buf
        BY <1>0, <1>3, <3>1
      <3> QED BY <1>s, <2>1, <3>2 DEF NearestFirst
    <2> QED BY <1>5, <2>3, <2>4
  <1> QED BY <1>6, <1>7, <1>8, <1>9, <1>s

\* An entry among the first K was queried, or get_unqueried_resulting_nodes returns it.
LEMMA UnqueriedResulting ==
  ASSUME NEW buf \in Seq(Entry), NEW x \in DOMAIN buf, x <= K
  PROVE  buf[x].queried \/ buf[x].node \in ToSet(GetUnqueriedResultingNodes(buf))
  <1> DEFINE I == {i \in Unqueried(buf) : i <= K}
  <1>1. I \in SUBSET DOMAIN buf /\ (~ buf[x].queried => x \in I)
    BY DEF Unqueried
  <1>2. GetUnqueriedResultingNodes(buf) = NodesOf(Pick(buf, I))
    BY DEF GetUnqueriedResultingNodes
  <1> HIDE DEF I
  <1>3. \A i \in I : buf[i].node \in ToSet(GetUnqueriedResultingNodes(buf))
    BY <1>1, <1>2, Constants, SelectedNodes
  <1> QED BY <1>1, <1>3

------------------------------------------------------------------------------
(* The steps. *)

\* The buffer, in the terms of the lemmas.
LEMMA BufferFacts ==
  ASSUME IInv
  PROVE  /\ TypeOK /\ buffer \in Seq(Entry) /\ asked \in [Nodes -> Nat]
         /\ storers = {} => NearestFirst(buffer)
         /\ Contacts(buffer) \subseteq learned
         /\ storers = {} /\ phase # "done" => Contacts(buffer) = learned
         /\ \A c \in Contacts(buffer) : Cardinality(Places(NodesOf(buffer), c)) = Copies(c)
         /\ ToSet(start) \subseteq Contacts(buffer) /\ Asked \subseteq Contacts(buffer)
         /\ failed \subseteq Asked /\ (mode # "find_value" => storers = {})
  BY DEF IInv, TypeOK, BufferSortedAndComplete, AskedAreMarked, NearestFirst

\* Contacts that were not asked are asked: the histories gain the round.
LEMMA AskingNew ==
  ASSUME IInv, phase # "done", start' = start,
         NEW I \in SUBSET Unqueried(buffer), NEW resolvers,
         \/ resolvers = NodesOf(Pick(buffer, I))
         \/ resolvers = NodesOf(Take(Pick(buffer, I), Alpha)),
         NEW reply \in Replies(resolvers), NEW responses,
         responses = Responses(resolvers, reply), Remember(responses)
  PROVE  /\ IsRound(resolvers, responses)
         /\ ToSet(resolvers) \subseteq Contacts(buffer)
         /\ ToSet(resolvers) \cap Asked = {}
         /\ asked' \in [Nodes -> Nat] /\ NoContactAskedTwice'
         /\ \A n \in Nodes : n \notin ToSet(resolvers) => asked'[n] = asked[n]
         /\ Asked' = Asked \cup ToSet(resolvers)
         /\ answered' = answered \cup AnsweredIn(responses, Len(responses))
         /\ failed' = failed \cup FailedIn(responses, Len(responses))
         /\ storers' = storers \cup {responses[i].from : i \in ValuesIn(responses)}
         /\ learned' = learned \cup NamedIn(responses, Len(responses))
         /\ answered' \subseteq Nodes /\ storers' \subseteq answered'
         /\ learned' \subseteq Nodes /\ failed' \subseteq Asked' /\ failed' \subseteq Nodes
         /\ storers' = {} => storers = {} /\ ValuesIn(responses) = {}
         /\ mode # "find_value" => storers' = {}
  <1>0. /\ TypeOK /\ buffer \in Seq(Entry) /\ I \in SUBSET DOMAIN buffer
        /\ \A c \in Contacts(buffer) : Cardinality(Places(NodesOf(buffer), c)) = Copies(c)
        /\ failed \subseteq Asked /\ (mode # "find_value" => storers = {})
        /\ \A i \in I : ~ buffer[i].queried
    BY BufferFacts DEF Unqueried
  <1>1. /\ resolvers \in Seq(Nodes)
        /\ \A c \in ToSet(resolvers) : \E i \in I : buffer[i].node = c
        /\ \A c : Cardinality(Places(resolvers, c)) <= Cardinality(Places(NodesOf(buffer), c))
    BY <1>0, Constants, SelectedNodes
  <1>2. IsRound(resolvers, responses)
    BY <1>1, RoundFacts
  <1>3. \A i \in I : buffer[i].node \in Contacts(buffer) /\ buffer[i].node \notin Asked
    <2>1. \A i \in DOMAIN buffer : buffer[i].node \in Asked => buffer[i].queried
      BY DEF IInv, AskedAreMarked
    <2>2. \A i \in DOMAIN buffer : buffer[i].node \in Contacts(buffer)
      BY <1>0, ContactsOf
    <2> QED BY <1>0, <2>1, <2>2
  <1>4. ToSet(resolvers) \subseteq Contacts(buffer) /\ ToSet(resolvers) \cap Asked = {}
    BY <1>1, <1>3
  <1>6. /\ asked' \in [Nodes -> Nat]
        /\ \A n \in Nodes :
             /\ asked'[n] = asked[n] + Cardinality(Places(resolvers, n))
             /\ Cardinality(Places(resolvers, n)) \in Nat
             /\ Cardinality(Places(resolvers, n)) > 0 <=> n \in ToSet(resolvers)
        /\ answered' = answered \cup AnsweredIn(responses, Len(responses))
        /\ failed' = failed \cup FailedIn(responses, Len(responses))
        /\ storers' = storers \cup {responses[i].from : i \in ValuesIn(responses)}
        /\ learned' = learned \cup NamedIn(responses, Len(responses))
        /\ {responses[i].from : i \in ValuesIn(responses)}
             \subseteq AnsweredIn(responses, Len(responses))
    BY <1>0, <1>2, RememberProperty
  <1>5. \A n \in Nodes : asked[n] \in Nat /\ (n \in Asked <=> asked[n] # 0)
    <2>1. \A n \in Nodes : asked[n] \in Nat
      BY <1>0 DEF TypeOK
    <2> QED BY <2>1 DEF Asked
  <1>7. ToSet(resolvers) \subseteq Nodes /\ \A n \in ToSet(resolvers) : asked[n] = 0
    <2>1. ToSet(resolvers) \subseteq Nodes
      BY <1>1 DEF ToSet
    <2> QED BY <1>4, <1>5, <2>1
  <1>a. \A n \in Nodes : n \notin ToSet(resolvers) => asked'[n] = asked[n]
    BY <1>5, <1>6
  <1>8. NoContactAskedTwice'
    <2> SUFFICES ASSUME NEW c \in Nodes PROVE asked'[c] <= Copies(c)
      BY DEF NoContactAskedTwice, Copies
    <2>1. CASE c \notin ToSet(resolvers)
      <3>1. asked[c] <= Copies(c)
        BY DEF IInv, NoContactAskedTwice
      <3> QED BY <1>a, <2>1, <3>1
    <2>2. CASE c \in ToSet(resolvers)
      <3>1. Cardinality(Places(NodesOf(buffer), c)) = Copies(c)
        BY <1>0, <1>4, <2>2
      <3>2. Cardinality(Places(resolvers, c)) <= Copies(c)
        BY <1>1, <3>1
      <3>3. asked'[c] = Cardinality(Places(resolvers, c))
        BY <1>6, <1>7, <2>2
      <3> QED BY <3>2, <3>3
    <2> QED BY <2>1, <2>2
  <1>9. Asked' = Asked \cup ToSet(resolvers)
    <2>1. \A n \in Nodes : asked'[n] > 0 <=> asked[n] > 0 \/ n \in ToSet(resolvers)
      BY <1>5, <1>6
    <2> QED BY <1>7, <2>1 DEF Asked
  <1>10. /\ AnsweredIn(responses, Len(responses)) \subseteq ToSet(resolvers)
         /\ FailedIn(responses, Len(responses)) \subseteq ToSet(resolvers)
    <2>1. 0 \in 0 .. Len(responses)
      BY <1>2 DEF IsRound
    <2> QED BY <1>2, <2>1, RoundSets
  <1>11. NamedIn(responses, Len(responses)) \subseteq Nodes
    BY DEF NamedIn
  <1>12. /\ answered' \subseteq Nodes /\ storers' \subseteq answered' /\ learned' \subseteq Nodes
         /\ failed' \subseteq Asked' /\ failed' \subseteq Nodes
    <2>1. answered \subseteq Nodes /\ storers \subseteq answered /\ learned \subseteq Nodes
          /\ failed \subseteq Nodes
      BY <1>0 DEF TypeOK
    <2> QED BY <1>0, <1>6, <1>7, <1>9, <1>10, <1>11, <2>1
  <1>13. storers' = {} => storers = {} /\ ValuesIn(responses) = {}
    BY <1>6
  <1>14. mode # "find_value" => storers' = {}
    <2>1. mode # "find_value" => ValuesIn(responses) = {}
      BY <1>2 DEF IsRound, ValuesIn
    <2> QED BY <1>0, <1>6, <2>1
  <1> QED BY <1>2, <1>4, <1>6, <1>8, <1>9, <1>12, <1>13, <1>14, <1>a

\* The failures the flags rest on: none is known once a round was broken off by a value.
Failures == IF storers = {} THEN failed ELSE Nodes

\* The flags still hold of larger sets.
LEMMA LargerFlags ==
  ASSUME NEW b, NEW a1, NEW a2, NEW b1, NEW b2, NEW c1, NEW c2, NEW d1, NEW d2,
         a1 \subseteq a2, b1 \subseteq b2, c1 \subseteq c2, d2 \subseteq d1,
         Flags(b, a1, b1, c1, d1)
  PROVE  Flags(b, a2, b2, c2, d2)
  BY DEF Flags, SameId

\* The buffer as it is marked when the responses of such a round are recorded in it.
MarkedFor(m, marked, resolvers) ==
    /\ m \in Seq(Entry) /\ NodesOf(m) = NodesOf(buffer)
    /\ marked \subseteq Contacts(buffer)
    /\ Flags(m, Asked \cup ToSet(resolvers), answered, Failures \cup ToSet(resolvers), marked)

\* A buffer that agrees with the histories after the round.
AgreesAfter(b, marked, responses) ==
    /\ b \in Seq(Entry) /\ Contacts(b) \subseteq learned'
    /\ ToSet(start) \cup Asked' \subseteq Contacts(b)
    /\ \A c \in Contacts(b) : Cardinality(Places(NodesOf(b), c)) = Copies(c)
    /\ Flags(b, Asked', answered', Nodes, marked)
    /\ storers' = {} =>
         /\ NearestFirst(b) /\ Contacts(b) = learned'
         /\ Flags(b, Asked', answered', failed',
                  marked \cup FailedIn(responses, Len(responses)))

\* The buffer after the responses of such a round are recorded in it: it and the
\* histories agree.
LEMMA Recorded ==
  ASSUME IInv, phase # "done", start' = start,
         NEW I \in SUBSET Unqueried(buffer), NEW resolvers,
         \/ resolvers = NodesOf(Pick(buffer, I))
         \/ resolvers = NodesOf(Take(Pick(buffer, I), Alpha)),
         NEW reply \in Replies(resolvers), NEW responses,
         responses = Responses(resolvers, reply), Remember(responses),
         NEW m, NEW marked, MarkedFor(m, marked, resolvers),
         NEW b, b = Record(m, responses).buffer
  PROVE  AgreesAfter(b, marked, responses)
  <1> DEFINE N == Len(responses)
  <1>0. /\ m \in Seq(Entry) /\ NodesOf(m) = NodesOf(buffer)
        /\ marked \subseteq Contacts(buffer)
        /\ Flags(m, Asked \cup ToSet(resolvers), answered, Failures \cup ToSet(resolvers),
                 marked)
    BY DEF MarkedFor
  <1>1. /\ IsRound(resolvers, responses)
        /\ ToSet(resolvers) \subseteq Contacts(buffer)
        /\ Asked' = Asked \cup ToSet(resolvers)
        /\ answered' = answered \cup AnsweredIn(responses, N)
        /\ failed' = failed \cup FailedIn(responses, N)
        /\ learned' = learned \cup NamedIn(responses, N)
        /\ storers' = {} => storers = {} /\ ValuesIn(responses) = {}
        /\ failed' \subseteq Nodes
    BY AskingNew
  <1>2. /\ buffer \in Seq(Entry) /\ Contacts(buffer) \subseteq learned
        /\ storers = {} => Contacts(buffer) = learned
        /\ \A c \in Contacts(buffer) : Cardinality(Places(NodesOf(buffer), c)) = Copies(c)
        /\ ToSet(start) \subseteq Contacts(buffer) /\ Asked \subseteq Contacts(buffer)
        /\ failed \subseteq Nodes
    BY BufferFacts DEF TypeOK
  <1>3. /\ N \in Nat /\ DOMAIN responses = 1 .. N
        /\ After(responses, 0) = ToSet(resolvers) /\ After(responses, N) = {}
        /\ ToSet(resolvers) \subseteq Nodes
        /\ \A i \in DOMAIN responses : responses[i].from \in ToSet(resolvers)
        /\ responses \in Seq(RoundResponse)
    <2>1. 0 \in 0 .. Len(responses) /\ responses \in Seq(RoundResponse)
      BY <1>1 DEF IsRound
    <2> QED BY <1>1, <2>1, RoundSets
  <1>4. Contacts(m) = Contacts(buffer)
    BY <1>0 DEF Contacts
  <1>5. Recordable(m, responses, Asked', answered, Failures, marked)
    BY <1>0, <1>1, <1>3, <1>4 DEF Recordable
  <1>6. /\ b \in Seq(Entry)
        /\ \A c \in Contacts(b) :
             Cardinality(Places(NodesOf(b), c)) =
               IF c \in Contacts(m) THEN Cardinality(Places(NodesOf(m), c)) ELSE 1
    BY <1>0, <1>3, <1>5, RecordProperty
  <1> DEFINE F(t) == Flags(b, Asked', answered \cup AnsweredIn(responses, t),
                           (Failures \cup FailedIn(responses, t)) \cup After(responses, t),
                           marked \cup FailedIn(responses, t))
  <1>a. PICK t \in 0 .. N :
          RecordedUpTo(b, t, m, responses, Asked', answered, Failures, marked)
    <2>1. \E t \in 0 .. Len(responses) :
            RecordedUpTo(b, t, m, responses, Asked', answered, Failures, marked)
      BY <1>0, <1>3, <1>5, RecordProperty
    <2> QED BY <2>1
  <1>7. /\ Contacts(b) = Contacts(m) \cup NamedIn(responses, t)
        /\ F(t)
        /\ ValuesIn(responses) = {} => t = N /\ NearestFirst(b)
    BY <1>a DEF RecordedUpTo
  <1>8. /\ FailedIn(responses, t) \subseteq FailedIn(responses, N)
        /\ AnsweredIn(responses, t) \subseteq AnsweredIn(responses, N)
        /\ NamedIn(responses, t) \subseteq NamedIn(responses, N)
        /\ FailedIn(responses, N) \subseteq ToSet(resolvers)
    BY <1>1, RoundSets
  <1>9. Contacts(b) \subseteq learned' /\ ToSet(start) \cup Asked' \subseteq Contacts(b)
    <2> HIDE DEF F, N
    <2> QED BY <1>1, <1>2, <1>4, <1>7, <1>8
  <1>10. ASSUME NEW c \in Contacts(b)
         PROVE  Cardinality(Places(NodesOf(b), c)) = Copies(c)
    <2>1. CASE c \in Contacts(buffer)
      BY <1>0, <1>2, <1>4, <1>6, <2>1
    <2>2. CASE c \notin Contacts(buffer)
      <3>1. Copies(c) = 1
        BY <1>2, <2>2 DEF Copies
      <3> QED BY <1>4, <1>6, <2>2, <3>1
    <2> QED BY <2>1, <2>2
  <1>11. After(responses, t) \subseteq Nodes
    <2>1. t + 1 .. N \subseteq 1 .. N
      BY <1>3
    <2> QED BY <1>3, <2>1 DEF After
  <1>12. Flags(b, Asked', answered', Nodes, marked)
    <2>1. /\ answered \cup AnsweredIn(responses, t) \subseteq answered'
          /\ (Failures \cup FailedIn(responses, t)) \cup After(responses, t) \subseteq Nodes
          /\ marked \subseteq marked \cup FailedIn(responses, t)
          /\ Asked' \subseteq Asked'
      BY <1>1, <1>2, <1>3, <1>8, <1>11 DEF Failures
    <2> QED BY <1>7, <2>1, LargerFlags
  <1>13. ASSUME storers' = {}
         PROVE  /\ NearestFirst(b) /\ Contacts(b) = learned'
                /\ Flags(b, Asked', answered', failed', marked \cup FailedIn(responses, N))
    <2>1. t = N /\ NearestFirst(b) /\ storers = {}
      BY <1>1, <1>7, <1>13
    <2>2. Contacts(b) = learned'
      BY <1>1, <1>2, <1>4, <1>7, <2>1
    <2>3. F(N)
      <3> HIDE DEF F, N
      <3> QED BY <1>7, <2>1
    <2>4. /\ answered \cup AnsweredIn(responses, N) \subseteq answered'
          /\ (Failures \cup FailedIn(responses, N)) \cup After(responses, N) \subseteq failed'
          /\ marked \cup FailedIn(responses, N) \subseteq marked \cup FailedIn(responses, N)
          /\ Asked' \subseteq Asked'
      BY <1>1, <1>3, <2>1 DEF Failures
    <2>5. Flags(b, Asked', answered', failed', marked \cup FailedIn(responses, N))
      BY <2>3, <2>4, LargerFlags
    <2> QED BY <2>1, <2>2, <2>5
  <1> QED BY <1>6, <1>9, <1>10, <1>12, <1>13 DEF AgreesAfter

\* BufferSortedAndComplete, in the terms of the lemmas.
LEMMA BufferIs ==
  ASSUME storers' = {} => NearestFirst(buffer'), Contacts(buffer') \subseteq learned',
         storers' = {} /\ (mode' = "find_value" => phase' # "done") =>
            Contacts(buffer') = learned',
         start' = start,
         \A c \in Contacts(buffer') : Cardinality(Places(NodesOf(buffer'), c)) = Copies(c)
  PROVE  BufferSortedAndComplete'
  <1>1. \A c : Copies(c)' = Copies(c)
    BY DEF Copies
  <1> QED BY <1>1 DEF BufferSortedAndComplete, NearestFirst

\* FlagsTrue, in the terms of the lemmas.
LEMMA FlagsAre ==
  ASSUME NEW marked, Flags(buffer', Asked', answered', Nodes, marked),
         storers' = {} => Flags(buffer', Asked', answered', failed', marked)
  PROVE  FlagsTrue'
  BY DEF Flags, FlagsTrue

\* The responses kept for the end of the loop.
LEMMA KindsProperty ==
  ASSUME NEW responses \in Seq(RoundResponse), NEW k, k = Kinds(responses)
  PROVE  /\ k \in Seq([from : Nodes, kind : {"fail", "value", "nodes"}])
         /\ ValuesIn(k) = ValuesIn(responses)
         /\ \A i \in ValuesIn(k) : k[i].from = responses[i].from
  <1> DEFINE N == Len(responses)
             T == [from : Nodes, kind : {"fail", "value", "nodes"}]
  <1>1. N \in Nat /\ DOMAIN responses = 1 .. N
    OBVIOUS
  <1>2. \A i \in 1 .. N : responses[i].from \in Nodes
                          /\ responses[i].kind \in {"fail", "value", "nodes"}
    BY <1>1 DEF RoundResponse
  <1>3. k = [i \in 1 .. N |-> [from |-> responses[i].from, kind |-> responses[i].kind]]
    BY <1>1 DEF Kinds
  <1> HIDE DEF N
  <1>4. k \in [1 .. N -> T]
    BY <1>2, <1>3
  <1>5. k \in Seq(T) /\ DOMAIN k = 1 .. N
    <2> HIDE DEF T
    <2> QED BY <1>1, <1>4, IsSequence
  <1>6. \A i \in 1 .. N : k[i].from = responses[i].from /\ k[i].kind = responses[i].kind
    BY <1>3
  <1> QED BY <1>1, <1>5, <1>6 DEF ValuesIn

\* The contacts a lookup starts from.
LEMMA StartProperty ==
  ASSUME Init
  PROVE  start \in Seq(Nodes)
  <1>1. CASE \E answer \in Answers : BeaconAnswer(answer)
    <2>1. PICK answer \in Answers : BeaconAnswer(answer)
      BY <1>1
    <2> DEFINE I == {i \in DOMAIN answer : answer[i] # Self}
               at == Ascending(I)
               n == Cardinality(I)
    <2>2. answer \in Seq(Nodes \cup {Self}) /\ I \in SUBSET DOMAIN answer
      BY Constants
    <2>3. start = Pick(answer, I) /\ at = Ascending(I)
      BY <2>1 DEF BeaconAnswer
    <2>a. \A i \in I : answer[i] \in Nodes
      BY <2>2
    <2> HIDE DEF I, at
    <2>4. /\ n \in Nat /\ at \in [1 .. n -> I] /\ start \in Seq(Nodes \cup {Self})
          /\ Len(start) = n /\ \A j \in 1 .. n : start[j] = answer[at[j]]
      BY <2>2, <2>3, PickProperty
    <2> HIDE DEF n
    <2>5. \A j \in 1 .. n : start[j] \in Nodes
      BY <2>4, <2>a
    <2> QED BY <2>4, <2>5
  <1>2. CASE \E nodes \in SUBSET Nodes : TableContacts(nodes)
    <2>1. PICK nodes \in SUBSET Nodes : TableContacts(nodes)
      BY <1>2
    <2> DEFINE R == {p \in nodes \X nodes : Rank[p[1]] < Rank[p[2]]}
               n == Cardinality(nodes)
    <2>2. IsFiniteSet(nodes) /\ \A c \in nodes : Rank[c] \in Nat
      BY Constants, FS_Subset
    <2>3. IsOrder(nodes, R)
      <3>1. \A c, d \in nodes : <<c, d>> \in R <=> Rank[c] < Rank[d]
        OBVIOUS
      <3>2. \A c, d \in nodes : Rank[c] = Rank[d] => c = d
        BY <2>1 DEF TableContacts
      <3> HIDE DEF R
      <3> QED BY <2>2, <3>1, <3>2 DEF IsOrder
    <2>4. start = Ordered(nodes, R)
      BY <2>1 DEF TableContacts
    <2> HIDE DEF R
    <2>5. n \in Nat /\ start \in [1 .. n -> nodes]
      BY <2>2, <2>3, <2>4, OrderedProperty
    <2> HIDE DEF n
    <2>6. start \in [1 .. n -> Nodes]
      BY <2>5
    <2> QED BY <2>5, <2>6, IsSequence
  <1> QED BY <1>1, <1>2 DEF Init

LEMMA InitIInv == Init => IInv
  <1> SUFFICES ASSUME Init PROVE IInv
    OBVIOUS
  <1> DEFINE new == NewEntries(start)
  <1>1. start \in Seq(Nodes)
    BY StartProperty
  <1>2. /\ new \in Seq(Entry) /\ DOMAIN new = DOMAIN start
        /\ \A i \in DOMAIN start : /\ new[i].node = start[i]
                                   /\ ~ new[i].queried /\ ~ new[i].responded
    BY <1>1, NewEntriesProperty
  <1>3. /\ buffer = Sort(new) /\ learned = ToSet(start)
        /\ current = <<>> /\ result = <<>> /\ stored = <<>> /\ answered = {} /\ failed = {}
        /\ storers = {} /\ phase = "rounds" /\ asked \in [Nodes -> Nat]
        /\ \A n \in Nodes : asked[n] = 0
    BY DEF Init
  <1> HIDE DEF new
  <1>4. NodesOf(new) = start
    BY <1>1, <1>2 DEF NodesOf
  <1>5. /\ buffer \in Seq(Entry) /\ NearestFirst(buffer) /\ Contacts(buffer) = Contacts(new)
        /\ \A x \in DOMAIN buffer : \E i \in DOMAIN new : buffer[x] = new[i]
        /\ \A c : Cardinality(Places(NodesOf(buffer), c)) = Cardinality(Places(NodesOf(new), c))
    BY <1>2, <1>3, SortProperty
  <1>6. Contacts(new) = ToSet(start)
    BY <1>4 DEF Contacts
  <1>7. ToSet(start) \subseteq Nodes
    BY <1>1 DEF ToSet
  <1>8. Asked = {}
    BY <1>3 DEF Asked
  <1>9. TypeOK
    <2>1. current \in Seq([from : Nodes, kind : {"fail", "value", "nodes"}])
      BY <1>3
    <2>2. result \in Seq(Nodes) /\ stored \in Seq(Nodes)
      BY <1>3
    <2>3. mode \in {"join", "find_node", "find_value"}
      BY DEF Init
    <2> QED BY <1>1, <1>3, <1>5, <1>7, <2>1, <2>2, <2>3 DEF TypeOK
  <1>10. BufferSortedAndComplete
    <2>1. ASSUME NEW c \in Contacts(buffer)
          PROVE  Cardinality(Places(NodesOf(buffer), c)) = Copies(c)
      BY <1>4, <1>5, <1>6 DEF Copies
    <2> QED BY <1>3, <1>5, <1>6, <2>1 DEF BufferSortedAndComplete, NearestFirst
  <1>11. \A x \in DOMAIN buffer : ~ buffer[x].queried /\ ~ buffer[x].responded
    BY <1>2, <1>5
  <1>12. FlagsTrue
    BY <1>11 DEF FlagsTrue, HasFailedToRespond
  <1>13. AskedAreMarked
    BY <1>3, <1>5, <1>6, <1>8 DEF AskedAreMarked
  <1>14. NothingYet
    BY <1>3 DEF NothingYet, ValuesIn
  <1>15. NoContactAskedTwice
    <2> SUFFICES ASSUME NEW c \in Nodes PROVE 0 <= Copies(c)
      BY <1>3 DEF NoContactAskedTwice
    <2>1. IsFiniteSet(Places(start, c))
      BY <1>2, <1>4, ContactsOf
    <2> QED BY <2>1, FS_CardinalityType DEF Copies
  <1>16. OnlyWitnesses
    BY <1>3 DEF OnlyWitnesses, ToSet
  <1>17. ResultIsNearest /\ KNearestAsked
    BY <1>3 DEF ResultIsNearest, KNearestAsked
  <1> QED BY <1>9, <1>10, <1>12, <1>13, <1>14, <1>15, <1>16, <1>17 DEF IInv

\* The flags of the buffer before a round, in the terms of the lemmas.
LEMMA FlagsNow ==
  ASSUME IInv, phase # "done"
  PROVE  Flags(buffer, Asked, answered, Failures, Asked)
  <1> SUFFICES ASSUME NEW i \in DOMAIN buffer
               PROVE  /\ buffer[i].queried => SameId(buffer[i].node, Asked)
                      /\ buffer[i].responded => SameId(buffer[i].node, answered)
                      /\ HasFailedToRespond(buffer[i]) => SameId(buffer[i].node, Failures)
                      /\ buffer[i].node \in Asked => buffer[i].queried
    BY DEF Flags
  <1>1. /\ buffer[i].queried => SameId(buffer[i].node, Asked)
        /\ buffer[i].responded => SameId(buffer[i].node, answered)
        /\ storers = {} /\ HasFailedToRespond(buffer[i]) => SameId(buffer[i].node, failed)
        /\ buffer[i].node \in Asked => buffer[i].queried
    BY DEF IInv, FlagsTrue, AskedAreMarked
  <1>2. SameId(buffer[i].node, Nodes)
    <2>1. buffer[i].node \in Nodes
      BY BufferFacts, EntryFacts
    <2> QED BY <2>1 DEF SameId
  <1> QED BY <1>1, <1>2 DEF Failures

LEMMA RoundIInv ==
  ASSUME IInv, Round
  PROVE  IInv'
  <1> DEFINE resolvers == AlphaUnqueriedNodes(buffer)
             m == MarkQueried(buffer, ToSet(resolvers))
             I == Unqueried(buffer)
  <1>1. phase = "rounds" /\ UNCHANGED <<mode, result, stored, start>>
    BY DEF Round
  <1>2. PICK reply \in Replies(resolvers) :
          LET responses == Responses(resolvers, reply)
              record == Record(m, responses)
          IN  /\ buffer' = record.buffer
              /\ phase' = IF record.goOn THEN "rounds" ELSE "last"
              /\ current' = Kinds(responses)
              /\ Remember(responses)
    BY DEF Round
  <1> DEFINE responses == Responses(resolvers, reply)
  <1>3. /\ buffer' = Record(m, responses).buffer
        /\ phase' \in {"rounds", "last"}
        /\ current' = Kinds(responses)
        /\ Remember(responses)
    BY <1>2
  <1>4. resolvers = NodesOf(Take(Pick(buffer, I), Alpha)) /\ I \in SUBSET Unqueried(buffer)
    BY DEF AlphaUnqueriedNodes
  <1>5. m = MarkQueried(buffer, ToSet(resolvers))
    OBVIOUS
  <1>6. responses = Responses(resolvers, reply) /\ phase # "done" /\ start' = start
    BY <1>1
  <1> HIDE DEF resolvers, m, responses, I
  <1>7. /\ IsRound(resolvers, responses)
        /\ ToSet(resolvers) \subseteq Contacts(buffer)
        /\ asked' \in [Nodes -> Nat] /\ NoContactAskedTwice'
        /\ Asked' = Asked \cup ToSet(resolvers)
        /\ storers' = storers \cup {responses[i].from : i \in ValuesIn(responses)}
        /\ answered' \subseteq Nodes /\ storers' \subseteq answered'
        /\ learned' \subseteq Nodes /\ failed' \subseteq Asked' /\ failed' \subseteq Nodes
        /\ mode # "find_value" => storers' = {}
    BY <1>3, <1>4, <1>6, AskingNew
  <1>8. buffer \in Seq(Entry) /\ Asked \subseteq Contacts(buffer)
    BY BufferFacts
  <1>9. /\ m \in Seq(Entry) /\ DOMAIN m = DOMAIN buffer /\ NodesOf(m) = NodesOf(buffer)
        /\ \A i \in DOMAIN buffer :
             /\ m[i].node = buffer[i].node /\ m[i].responded = buffer[i].responded
             /\ m[i].queried <=> buffer[i].queried \/ SameId(buffer[i].node, ToSet(resolvers))
    BY <1>5, <1>8, MarkQueriedProperty
  <1>10. Flags(m, Asked \cup ToSet(resolvers), answered, Failures \cup ToSet(resolvers),
               Asked \cup ToSet(resolvers))
    <2>1. Flags(buffer, Asked, answered, Failures, Asked)
      BY <1>6, FlagsNow
    <2>2. \A c \in ToSet(resolvers) : SameId(c, ToSet(resolvers))
      BY DEF SameId
    <2>3. \A c, S : /\ SameId(c, S) => SameId(c, S \cup ToSet(resolvers))
                    /\ SameId(c, ToSet(resolvers)) => SameId(c, S \cup ToSet(resolvers))
      BY DEF SameId
    <2> QED BY <1>9, <2>1, <2>2, <2>3 DEF Flags, HasFailedToRespond
  <1>11. /\ buffer' \in Seq(Entry) /\ Contacts(buffer') \subseteq learned'
         /\ ToSet(start) \cup Asked' \subseteq Contacts(buffer')
         /\ \A c \in Contacts(buffer') : Cardinality(Places(NodesOf(buffer'), c)) = Copies(c)
         /\ Flags(buffer', Asked', answered', Nodes, Asked')
         /\ storers' = {} =>
              /\ NearestFirst(buffer') /\ Contacts(buffer') = learned'
              /\ Flags(buffer', Asked', answered', failed',
                       Asked' \cup FailedIn(responses, Len(responses)))
    <2>1. Asked \cup ToSet(resolvers) \subseteq Contacts(buffer)
      BY <1>7, <1>8
    <2>2. Asked' = Asked \cup ToSet(resolvers)
      BY <1>7
    <2> DEFINE M == Asked \cup ToSet(resolvers)
    <2>3. MarkedFor(m, M, resolvers)
      BY <1>9, <1>10, <2>1 DEF MarkedFor
    <2> HIDE DEF M
    <2>4. AgreesAfter(buffer', M, responses)
      BY <1>3, <1>4, <1>6, <2>3, Recorded
    <2>5. M = Asked'
      BY <2>2 DEF M
    <2> QED BY <2>4, <2>5 DEF AgreesAfter
  <1>12. storers' = {} => Flags(buffer', Asked', answered', failed', Asked')
    <2> SUFFICES ASSUME storers' = {}
                 PROVE  Flags(buffer', Asked', answered', failed', Asked')
      OBVIOUS
    <2>1. Flags(buffer', Asked', answered', failed',
                Asked' \cup FailedIn(responses, Len(responses)))
      BY <1>11
    <2> QED BY <2>1 DEF Flags
  <1>13. /\ current' \in Seq([from : Nodes, kind : {"fail", "value", "nodes"}])
         /\ \A i \in ValuesIn(current') : current'[i].from \in storers'
    <2>1. responses \in Seq(RoundResponse)
      BY <1>7 DEF IsRound
    <2>2. /\ current' \in Seq([from : Nodes, kind : {"fail", "value", "nodes"}])
          /\ ValuesIn(current') = ValuesIn(responses)
          /\ \A i \in ValuesIn(current') : current'[i].from = responses[i].from
      BY <1>3, <2>1, KindsProperty
    <2> QED BY <1>7, <2>2
  <1>14. /\ result = <<>> /\ stored = <<>> /\ TypeOK
    BY <1>1 DEF IInv, NothingYet
  <1>15. TypeOK'
    BY <1>1, <1>3, <1>7, <1>11, <1>13, <1>14 DEF TypeOK
  <1>16. BufferSortedAndComplete'
    BY <1>6, <1>11, BufferIs
  <1>17. FlagsTrue'
    BY <1>11, <1>12, FlagsAre
  <1>18. AskedAreMarked'
    <2>1. \A i \in DOMAIN buffer' : buffer'[i].node \in Asked' => buffer'[i].queried
      BY <1>11 DEF Flags
    <2> QED BY <1>1, <1>7, <1>11, <2>1 DEF AskedAreMarked
  <1>19. NothingYet'
    BY <1>1, <1>13, <1>14 DEF NothingYet
  <1>20. OnlyWitnesses'
    BY <1>1, <1>14 DEF OnlyWitnesses, ToSet
  <1>21. ResultIsNearest' /\ KNearestAsked'
    BY <1>3 DEF ResultIsNearest, KNearestAsked
  <1> QED BY <1>7, <1>15, <1>16, <1>17, <1>18, <1>19, <1>20, <1>21 DEF IInv

LEMMA LastRoundIInv ==
  ASSUME IInv, LastRound
  PROVE  IInv'
  <1> DEFINE resolvers == GetUnqueriedResultingNodes(buffer)
             I == {i \in Unqueried(buffer) : i <= K}
             R == {i \in DOMAIN buffer' : buffer'[i].queried /\ buffer'[i].responded}
  <1>1. /\ phase = "last" /\ phase' = "done" /\ mode # "find_value"
        /\ result' = GetResultingVector(buffer')
        /\ stored' = GetResponsiveNodes(buffer')
        /\ UNCHANGED <<mode, current, start>>
    BY DEF LastRound
  <1>2. PICK reply \in Replies(resolvers) :
          LET responses == Responses(resolvers, reply)
          IN  /\ buffer' = Record(buffer, responses).buffer
              /\ Remember(responses)
    BY DEF LastRound
  <1> DEFINE responses == Responses(resolvers, reply)
  <1>3. buffer' = Record(buffer, responses).buffer /\ Remember(responses)
    BY <1>2
  <1>4. resolvers = NodesOf(Pick(buffer, I)) /\ I \in SUBSET Unqueried(buffer)
    BY DEF GetUnqueriedResultingNodes
  <1>5. responses = Responses(resolvers, reply) /\ phase # "done" /\ start' = start
    BY <1>1
  <1> HIDE DEF resolvers, responses, I
  <1>6. /\ asked' \in [Nodes -> Nat] /\ NoContactAskedTwice'
        /\ Asked' = Asked \cup ToSet(resolvers)
        /\ storers' = {} /\ answered' \subseteq Nodes /\ learned' \subseteq Nodes
        /\ failed' = failed \cup FailedIn(responses, Len(responses))
        /\ failed' \subseteq Asked' /\ failed' \subseteq Nodes
        /\ storers \subseteq storers'
    BY <1>1, <1>3, <1>4, <1>5, AskingNew
  <1>7. buffer \in Seq(Entry) /\ failed \subseteq Asked /\ Asked \subseteq Contacts(buffer)
    BY BufferFacts
  <1>8. /\ buffer' \in Seq(Entry) /\ NearestFirst(buffer') /\ Contacts(buffer') = learned'
        /\ ToSet(start) \cup Asked' \subseteq Contacts(buffer')
        /\ \A c \in Contacts(buffer') : Cardinality(Places(NodesOf(buffer'), c)) = Copies(c)
        /\ Flags(buffer', Asked', answered', failed', failed')
    <2>1. Flags(buffer, Asked, answered, Failures, Asked)
      BY <1>5, FlagsNow
    <2>2. /\ Asked \subseteq Asked \cup ToSet(resolvers) /\ answered \subseteq answered
          /\ Failures \subseteq Failures \cup ToSet(resolvers) /\ failed \subseteq Asked
      BY <1>7
    <2>3. Flags(buffer, Asked \cup ToSet(resolvers), answered,
                Failures \cup ToSet(resolvers), failed)
      BY <2>1, <2>2, LargerFlags
    <2>4. MarkedFor(buffer, failed, resolvers)
      BY <1>7, <2>3 DEF MarkedFor
    <2>5. AgreesAfter(buffer', failed, responses)
      BY <1>3, <1>4, <1>5, <2>4, Recorded
    <2> QED BY <1>6, <2>5 DEF AgreesAfter
  <1>9. Flags(buffer', Asked', answered', Nodes, failed')
    BY <1>6, <1>8, LargerFlags
  <1>10. /\ result' \in Seq(Nodes) /\ Len(result') <= K
         /\ \A i, j \in DOMAIN result' : i < j => Rank[result'[i]] <= Rank[result'[j]]
         /\ \A c \in ToSet(result') : \E i \in DOMAIN buffer' :
              buffer'[i].node = c /\ ~ HasFailedToRespond(buffer'[i])
         /\ \A c : Cardinality(Places(result', c)) <= Cardinality(Places(NodesOf(buffer'), c))
         /\ \A i \in DOMAIN buffer' :
              \/ buffer'[i].node \in ToSet(result') \/ HasFailedToRespond(buffer'[i])
              \/ /\ Len(result') = K
                 /\ \A j \in DOMAIN result' : Rank[result'[j]] <= Rank[buffer'[i].node]
    BY <1>1, <1>8, ResultProperty
  <1>a. /\ \A i \in DOMAIN buffer' : buffer'[i].node \in Contacts(buffer')
        /\ \A c \in Contacts(buffer') : \E i \in DOMAIN buffer' : buffer'[i].node = c
    BY <1>8, ContactsOf
  <1>11. stored' \in Seq(Nodes) /\ \A c \in ToSet(stored') : SameId(c, answered')
    <2>1. R \in SUBSET DOMAIN buffer' /\ stored' = NodesOf(Pick(buffer', R))
      BY <1>1 DEF GetResponsiveNodes
    <2>2. \A i \in R : SameId(buffer'[i].node, answered')
      BY <1>8 DEF Flags
    <2> HIDE DEF R
    <2>3. stored' \in Seq(Nodes) /\ \A c \in ToSet(stored') : \E i \in R : buffer'[i].node = c
      BY <1>8, <2>1, Constants, SelectedNodes
    <2> QED BY <2>2, <2>3
  <1>12. mode' = mode /\ current' = current
    BY <1>1
  <1>13. TypeOK'
    <2>1. TypeOK
      BY DEF IInv
    <2> QED BY <1>1, <1>6, <1>8, <1>10, <1>11, <1>12, <2>1 DEF TypeOK
  <1>14. BufferSortedAndComplete'
    BY <1>5, <1>8, BufferIs
  <1>15. FlagsTrue'
    BY <1>8, <1>9, FlagsAre
  <1>16. AskedAreMarked'
    <2>1. \A i \in DOMAIN buffer' : buffer'[i].node \in failed' => buffer'[i].queried
      BY <1>8 DEF Flags
    <2> QED BY <1>1, <1>6, <1>8, <2>1 DEF AskedAreMarked
  <1>17. NothingYet'
    <2>1. \A i \in ValuesIn(current) : current[i].from \in storers
      BY DEF IInv, NothingYet
    <2> QED BY <1>1, <1>6, <1>12, <2>1 DEF NothingYet
  <1>18. OnlyWitnesses'
    BY <1>1, <1>11, <1>12 DEF OnlyWitnesses
  <1>19. ResultIsNearest'
    <2>1. \A c : Copies(c)' = Copies(c)
      BY <1>5 DEF Copies
    <2>2. ASSUME NEW c \in ToSet(result')
          PROVE  /\ c \in learned' /\ (c \in failed' => SameId(c, answered'))
                 /\ Cardinality(Places(result', c)) <= Copies(c)
      <3>1. PICK i \in DOMAIN buffer' :
              buffer'[i].node = c /\ ~ HasFailedToRespond(buffer'[i])
        BY <1>10
      <3>2. c \in Contacts(buffer')
        BY <1>a, <3>1
      <3>3. c \in failed' => SameId(c, answered')
        BY <1>8, <3>1 DEF Flags, HasFailedToRespond
      <3>4. Cardinality(Places(NodesOf(buffer'), c)) = Copies(c)
        BY <1>8, <3>2
      <3>5. Cardinality(Places(result', c)) <= Cardinality(Places(NodesOf(buffer'), c))
        BY <1>10
      <3> QED BY <1>8, <3>2, <3>3, <3>4, <3>5
    <2>3. ASSUME NEW c \in learned' \ ToSet(result')
          PROVE  \/ SameId(c, failed')
                 \/ /\ Len(result') = K
                    /\ \A i \in DOMAIN result' : Rank[result'[i]] <= Rank[c]
      <3>1. PICK i \in DOMAIN buffer' : buffer'[i].node = c
        BY <1>8, <1>a
      <3>2. HasFailedToRespond(buffer'[i]) => SameId(c, failed')
        BY <1>8, <3>1 DEF Flags
      <3> QED BY <1>10, <3>1, <3>2
    <2> QED BY <1>10, <2>1, <2>2, <2>3 DEF ResultIsNearest
  <1>20. KNearestAsked'
    BY <1>1, <1>12 DEF KNearestAsked
  <1> QED BY <1>6, <1>13, <1>14, <1>15, <1>16, <1>17, <1>18, <1>19, <1>20 DEF IInv

LEMMA AskRemainingIInv ==
  ASSUME IInv, AskRemaining
  PROVE  IInv'
  <1> DEFINE resolvers == GetUnqueriedResultingNodes(buffer)
             I == {i \in Unqueried(buffer) : i <= K}
  <1>1. /\ phase = "last" /\ phase' = "done" /\ mode = "find_value"
        /\ mode' = mode /\ buffer' = buffer /\ current' = current /\ stored' = stored
        /\ start' = start
    BY DEF AskRemaining
  <1>2. PICK reply \in Replies(resolvers) :
          LET responses == Responses(resolvers, reply)
          IN  /\ result' = IF ValuesIn(responses) = {} THEN <<>>
                           ELSE <<FirstStorer(responses)>>
              /\ Remember(responses)
    BY DEF AskRemaining
  <1> DEFINE responses == Responses(resolvers, reply)
             V == ValuesIn(responses)
  <1>3. /\ result' = IF V = {} THEN <<>> ELSE <<FirstStorer(responses)>>
        /\ Remember(responses)
    BY <1>2
  <1>4. resolvers = NodesOf(Pick(buffer, I)) /\ I \in SUBSET Unqueried(buffer)
    BY DEF GetUnqueriedResultingNodes
  <1>5. responses = Responses(resolvers, reply)
    OBVIOUS
  <1> HIDE DEF responses, I
  <1>6. /\ IsRound(resolvers, responses)
        /\ asked' \in [Nodes -> Nat] /\ NoContactAskedTwice'
        /\ ToSet(resolvers) \subseteq Contacts(buffer)
        /\ Asked' = Asked \cup ToSet(resolvers)
        /\ answered \subseteq answered' /\ learned \subseteq learned'
        /\ failed \subseteq failed' /\ failed' \subseteq Asked' /\ failed' \subseteq Nodes
        /\ storers' = storers \cup {responses[i].from : i \in V}
        /\ answered' \subseteq Nodes /\ storers' \subseteq answered'
        /\ learned' \subseteq Nodes
    <2> HIDE DEF resolvers
    <2>1. phase # "done"
      BY <1>1
    <2> QED BY <1>1, <1>3, <1>4, <1>5, <2>1, AskingNew
  <1>7. /\ TypeOK /\ stored = <<>>
        /\ \A i \in ValuesIn(current) : current[i].from \in storers
    BY <1>1 DEF IInv, NothingYet
  <1>8. result' \in Seq(Nodes) /\ ToSet(result') \subseteq storers'
    <2>1. CASE V = {}
      <3>1. result' = <<>>
        BY <1>3, <2>1
      <3> QED BY <3>1 DEF ToSet
    <2>2. CASE V # {}
      <3> DEFINE n == FirstStorer(responses)
      <3>1. V \in SUBSET Nat
        BY <1>6 DEF IsRound, ValuesIn
      <3>2. Min(V) \in V
        <4> HIDE DEF V
        <4> QED BY <2>2, <3>1, MinProperty
      <3>3. n \in storers'
        BY <1>6, <3>2 DEF FirstStorer
      <3>4. result' = <<n>>
        BY <1>3, <2>2
      <3> HIDE DEF n
      <3>5. n \in Nodes
        BY <1>6, <3>3
      <3> QED BY <3>3, <3>4, <3>5 DEF ToSet
    <2> QED BY <2>1, <2>2
  <1>9. TypeOK'
    BY <1>1, <1>6, <1>7, <1>8 DEF TypeOK
  <1>10. BufferSortedAndComplete'
    <2>1. /\ Contacts(buffer) \subseteq learned
          /\ \A c \in Contacts(buffer) : Cardinality(Places(NodesOf(buffer), c)) = Copies(c)
          /\ storers = {} => NearestFirst(buffer)
      BY BufferFacts
    <2> QED BY <1>1, <1>6, <2>1, BufferIs
  <1>11. FlagsTrue'
    <2>1. \A c, S, T : S \subseteq T /\ SameId(c, S) => SameId(c, T)
      BY DEF SameId
    <2>2. Asked \subseteq Asked' /\ storers \subseteq storers'
      BY <1>6
    <2> QED BY <1>1, <1>6, <2>1, <2>2 DEF IInv, FlagsTrue
  <1>a. AskedAreMarked'
    <2>1. ToSet(start) \subseteq Contacts(buffer) /\ Asked \subseteq Contacts(buffer)
      BY BufferFacts
    <2> QED BY <1>1, <1>6, <2>1 DEF AskedAreMarked
  <1>12. NothingYet'
    BY <1>1, <1>6, <1>7 DEF NothingYet
  <1>13. OnlyWitnesses'
    BY <1>1, <1>7, <1>8 DEF OnlyWitnesses, ToSet
  <1>14. ResultIsNearest'
    BY <1>1 DEF ResultIsNearest
  <1>15. KNearestAsked'
    <2> SUFFICES ASSUME NEW i \in DOMAIN buffer, i <= K
                 PROVE  SameId(buffer[i].node, Asked')
      BY <1>1 DEF KNearestAsked
    <2>1. buffer \in Seq(Entry) /\ (buffer[i].queried => SameId(buffer[i].node, Asked))
      BY BufferFacts DEF IInv, FlagsTrue
    <2>2. buffer[i].queried \/ buffer[i].node \in ToSet(resolvers)
      BY <2>1, UnqueriedResulting
    <2> HIDE DEF resolvers
    <2> QED BY <1>6, <2>1, <2>2 DEF SameId
  <1> QED BY <1>6, <1>9, <1>10, <1>11, <1>12, <1>13, <1>14, <1>15, <1>a DEF IInv

LEMMA StorerFoundIInv ==
  ASSUME IInv, StorerFound
  PROVE  IInv'
  <1> DEFINE V == ValuesIn(current)
             n == FirstStorer(current)
  <1>1. /\ phase = "last" /\ phase' = "done" /\ mode = "find_value" /\ V # {}
        /\ result' = <<n>>
        /\ UNCHANGED <<mode, buffer, current, stored, start, asked, answered, failed,
                       storers, learned>>
    BY DEF StorerFound
  <1>2. /\ TypeOK /\ stored = <<>>
        /\ \A i \in V : current[i].from \in storers
    BY <1>1 DEF IInv, NothingYet
  <1>3. n \in storers
    <2>1. V \in SUBSET Nat
      BY <1>2 DEF TypeOK, ValuesIn
    <2>2. Min(V) \in V
      <3> HIDE DEF V
      <3> QED BY <1>1, <2>1, MinProperty
    <2> QED BY <1>2, <2>2 DEF FirstStorer
  <1> HIDE DEF n
  <1>4. result' \in Seq(Nodes) /\ ToSet(result') \subseteq storers
    <2>1. n \in Nodes
      BY <1>2, <1>3 DEF TypeOK
    <2> QED BY <1>1, <1>3, <2>1 DEF ToSet
  <1>5. TypeOK'
    BY <1>1, <1>2, <1>4 DEF TypeOK
  <1>6. BufferSortedAndComplete'
    BY <1>1 DEF IInv, BufferSortedAndComplete, Copies
  <1>7. FlagsTrue' /\ AskedAreMarked'
    BY <1>1 DEF IInv, FlagsTrue, AskedAreMarked, Asked
  <1>8. NothingYet'
    BY <1>1, <1>2 DEF NothingYet
  <1>9. NoContactAskedTwice'
    BY <1>1 DEF IInv, NoContactAskedTwice, Copies
  <1>10. OnlyWitnesses'
    BY <1>1, <1>2, <1>4 DEF OnlyWitnesses, ToSet
  <1>11. ResultIsNearest' /\ KNearestAsked'
    BY <1>1, <1>3 DEF ResultIsNearest, KNearestAsked
  <1> QED BY <1>5, <1>6, <1>7, <1>8, <1>9, <1>10, <1>11 DEF IInv

LEMMA NoResolversLeftIInv ==
  ASSUME IInv, NoResolversLeft
  PROVE  IInv'
  <1>1. /\ phase = "rounds" /\ phase' = "last"
        /\ UNCHANGED <<mode, buffer, current, result, stored, start, asked, answered, failed,
                       storers, learned>>
    BY DEF NoResolversLeft
  <1>2. TypeOK'
    BY <1>1 DEF IInv, TypeOK
  <1>3. BufferSortedAndComplete'
    BY <1>1 DEF IInv, BufferSortedAndComplete, Copies
  <1>4. FlagsTrue' /\ AskedAreMarked'
    BY <1>1 DEF IInv, FlagsTrue, AskedAreMarked, Asked
  <1>5. NothingYet'
    BY <1>1 DEF IInv, NothingYet
  <1>6. NoContactAskedTwice' /\ OnlyWitnesses'
    BY <1>1 DEF IInv, NoContactAskedTwice, OnlyWitnesses, Copies
  <1>7. ResultIsNearest' /\ KNearestAsked'
    BY <1>1 DEF ResultIsNearest, KNearestAsked
  <1> QED BY <1>2, <1>3, <1>4, <1>5, <1>6, <1>7 DEF IInv

LEMMA UnchangedIInv ==
  ASSUME IInv, UNCHANGED vars
  PROVE  IInv'
  <1>1. TypeOK' /\ NothingYet'
    BY DEF vars, IInv, TypeOK, NothingYet
  <1>2. BufferSortedAndComplete' /\ NoContactAskedTwice'
    BY DEF vars, IInv, BufferSortedAndComplete, NoContactAskedTwice, Copies
  <1>3. FlagsTrue' /\ AskedAreMarked'
    BY DEF vars, IInv, FlagsTrue, AskedAreMarked, Asked
  <1>4. OnlyWitnesses' /\ KNearestAsked'
    BY DEF vars, IInv, OnlyWitnesses, KNearestAsked, Asked
  <1>5. ResultIsNearest'
    BY DEF vars, IInv, ResultIsNearest, Copies
  <1> QED BY <1>1, <1>2, <1>3, <1>4, <1>5 DEF IInv

LEMMA NextIInv == IInv /\ [Next]_vars => IInv'
  <1> SUFFICES ASSUME IInv, [Next]_vars PROVE IInv'
    OBVIOUS
  <1>1. CASE Round
    BY <1>1, RoundIInv
  <1>2. CASE NoResolversLeft
    BY <1>2, NoResolversLeftIInv
  <1>3. CASE LastRound
    BY <1>3, LastRoundIInv
  <1>4. CASE StorerFound
    BY <1>4, StorerFoundIInv
  <1>5. CASE AskRemaining
    BY <1>5, AskRemainingIInv
  <1>6. CASE Terminated
    BY <1>6, UnchangedIInv DEF Terminated
  <1>7. CASE UNCHANGED vars
    BY <1>7, UnchangedIInv
  <1> QED BY <1>1, <1>2, <1>3, <1>4, <1>5, <1>6, <1>7 DEF Next

------------------------------------------------------------------------------
(* What is left of a lookup. *)

\* The nodes not asked so far, and the weight of the phase.
Fresh == {n \in Nodes : asked[n] = 0}
Weight == IF phase = "rounds" THEN 2 ELSE IF phase = "last" THEN 1 ELSE 0

\* Fewer fresh nodes and no heavier phase, or as many and a lighter one, is less.
LEMMA LessLeft ==
  ASSUME Fresh' \subseteq Fresh, Weight' <= Weight, Fresh' # Fresh \/ Weight' < Weight
  PROVE  Left' < Left
  <1>1. Left = Cardinality(Fresh) + Weight /\ Left' = Cardinality(Fresh') + Weight'
    BY DEF Left, Fresh, Weight
  <1>2. Weight \in Nat /\ Weight' \in Nat
    BY DEF Weight
  <1>3. IsFiniteSet(Fresh)
    <2>1. Fresh \in SUBSET Nodes
      BY DEF Fresh
    <2> QED BY <2>1, Constants, FS_Subset
  <1>4. /\ Cardinality(Fresh) \in Nat /\ Cardinality(Fresh') \in Nat
        /\ Cardinality(Fresh') <= Cardinality(Fresh)
        /\ Fresh' # Fresh => Cardinality(Fresh') # Cardinality(Fresh)
    BY <1>3, FS_Subset, FS_CardinalityType
  <1>5. Cardinality(Fresh') + Weight' < Cardinality(Fresh) + Weight
    BY <1>2, <1>4
  <1> QED BY <1>1, <1>5

\* A round of unqueried nodes makes no node fresh, and its own nodes not fresh.
LEMMA FreshAsked ==
  ASSUME IInv, phase # "done", start' = start, NEW I \in SUBSET Unqueried(buffer), NEW resolvers,
         \/ resolvers = NodesOf(Pick(buffer, I))
         \/ resolvers = NodesOf(Take(Pick(buffer, I), Alpha)),
         NEW reply \in Replies(resolvers), Remember(Responses(resolvers, reply))
  PROVE  /\ Fresh' \subseteq Fresh /\ (resolvers # <<>> => Fresh' # Fresh)
         /\ \A c \in Nodes : asked[c] > 0 => asked'[c] = asked[c]
  <1>1. /\ IsRound(resolvers, Responses(resolvers, reply))
        /\ ToSet(resolvers) \cap Asked = {} /\ Asked' = Asked \cup ToSet(resolvers)
        /\ asked' \in [Nodes -> Nat]
        /\ \A n \in Nodes : n \notin ToSet(resolvers) => asked'[n] = asked[n]
    BY AskingNew
  <1>2. asked \in [Nodes -> Nat]
    BY BufferFacts
  <1>3. Fresh = Nodes \ Asked /\ Fresh' = Nodes \ Asked'
    BY <1>1, <1>2 DEF Fresh, Asked
  <1>4. ASSUME resolvers # <<>> PROVE \E n \in Fresh : n \in ToSet(resolvers)
    <2>1. resolvers \in Seq(Nodes)
      BY <1>1 DEF IsRound
    <2>2. 1 \in DOMAIN resolvers
      BY <1>4, <2>1
    <2>3. resolvers[1] \in ToSet(resolvers) /\ resolvers[1] \in Nodes
      BY <2>1, <2>2 DEF ToSet
    <2>4. resolvers[1] \notin Asked
      BY <1>1, <2>3
    <2>5. resolvers[1] \in Fresh
      BY <1>3, <2>3, <2>4
    <2> QED BY <2>3, <2>5
  <1>5. ASSUME NEW c \in Nodes, asked[c] > 0 PROVE asked'[c] = asked[c]
    <2>1. c \in Asked
      BY <1>5 DEF Asked
    <2> QED BY <1>1, <2>1
  <1> QED BY <1>1, <1>3, <1>4, <1>5

LEMMA NextProgresses ==
  ASSUME IInv, Next, vars' # vars
  PROVE  Left' < Left /\ \A c \in Nodes : asked[c] > 0 => asked'[c] = asked[c]
  <1>1. CASE Round
    <2> DEFINE resolvers == AlphaUnqueriedNodes(buffer)
    <2>1. PICK reply \in Replies(resolvers) : Remember(Responses(resolvers, reply))
      BY <1>1 DEF Round
    <2>2. /\ phase = "rounds" /\ phase' \in {"rounds", "last"} /\ resolvers # <<>>
          /\ start' = start
      BY <1>1 DEF Round
    <2>3. resolvers = NodesOf(Take(Pick(buffer, Unqueried(buffer)), Alpha))
      BY DEF AlphaUnqueriedNodes
    <2> HIDE DEF resolvers
    <2>4. /\ Fresh' \subseteq Fresh /\ Fresh' # Fresh
          /\ \A c \in Nodes : asked[c] > 0 => asked'[c] = asked[c]
      BY <2>1, <2>2, <2>3, FreshAsked
    <2>5. Weight' <= Weight
      BY <2>2 DEF Weight
    <2> QED BY <2>4, <2>5, LessLeft
  <1>2. CASE NoResolversLeft
    <2>1. Weight' < Weight /\ Weight' <= Weight /\ Fresh' = Fresh /\ asked' = asked
      BY <1>2 DEF NoResolversLeft, Weight, Fresh
    <2> QED BY <2>1, LessLeft
  <1>3. CASE LastRound \/ AskRemaining
    <2> DEFINE resolvers == GetUnqueriedResultingNodes(buffer)
               I == {i \in Unqueried(buffer) : i <= K}
    <2>1. PICK reply \in Replies(resolvers) : Remember(Responses(resolvers, reply))
      BY <1>3 DEF LastRound, AskRemaining
    <2>2. phase = "last" /\ phase' = "done" /\ start' = start
      BY <1>3 DEF LastRound, AskRemaining
    <2>3. resolvers = NodesOf(Pick(buffer, I)) /\ I \in SUBSET Unqueried(buffer)
      BY DEF GetUnqueriedResultingNodes
    <2> HIDE DEF resolvers, I
    <2>4. /\ Fresh' \subseteq Fresh
          /\ \A c \in Nodes : asked[c] > 0 => asked'[c] = asked[c]
      BY <2>1, <2>2, <2>3, FreshAsked
    <2>5. Weight' < Weight /\ Weight' <= Weight
      BY <2>2 DEF Weight
    <2> QED BY <2>4, <2>5, LessLeft
  <1>4. CASE StorerFound
    <2>1. Weight' < Weight /\ Weight' <= Weight /\ Fresh' = Fresh /\ asked' = asked
      BY <1>4 DEF StorerFound, Weight, Fresh
    <2> QED BY <2>1, LessLeft
  <1>5. CASE Terminated
    BY <1>5 DEF Terminated
  <1> QED BY <1>1, <1>2, <1>3, <1>4, <1>5 DEF Next

------------------------------------------------------------------------------
(* The theorems. *)

\* The inductive invariant holds, whatever is answered: the flags of LookupBuffer say
\* what has happened.
THEOREM Invariance == Spec => []IInv
  BY InitIInv, NextIInv, PTL DEF Spec

\* The rounds add to the buffer of a lookup every contact they learn of, none that it
\* has, and keep the nearest first, whatever lists of contacts are answered: an answer
\* that names a contact twice, under two addresses or this node itself included.
THEOREM BufferStaysSorted == Spec => []BufferSortedAndComplete
  <1>1. IInv => BufferSortedAndComplete
    BY DEF IInv
  <1> QED BY <1>1, Invariance, PTL

\* A contact gets no more requests from a lookup than the beacon named it times, and one
\* if the beacon did not name it.
THEOREM RequestsBounded == Spec => []NoContactAskedTwice
  <1>1. IInv => NoContactAskedTwice
    BY DEF IInv
  <1> QED BY <1>1, Invariance, PTL

\* A contact that was sent a request is sent none in a later round, whichever of the
\* loop and the last round follows: although marks go by id and entries by contact.
THEOREM NobodyAskedAgain == Spec => NeverAskedAgain
  <1>1. IInv /\ [Next]_vars => [\A c \in Nodes : asked[c] > 0 => asked'[c] = asked[c]]_vars
    BY NextProgresses
  <1> QED BY <1>1, Invariance, PTL DEF Spec, NeverAskedAgain

\* find_node and join_network return the first K, nearest first, of the contacts that
\* they learned of without those of a node that failed, for any K and Alpha.
THEOREM NearestReturned == Spec => []ResultIsNearest
  <1>1. IInv => ResultIsNearest
    BY DEF IInv
  <1> QED BY <1>1, Invariance, PTL

\* find_storer returns only a node that said it has the value, and store_nodeinfo gets
\* only nodes that have answered, at this address or another one.
THEOREM WitnessesReturned == Spec => []OnlyWitnesses
  <1>1. IInv => OnlyWitnesses
    BY DEF IInv
  <1> QED BY <1>1, Invariance, PTL

\* find_storer gives up only when each of the K nearest nodes it knows was asked.
THEOREM NearestAsked == Spec => []KNearestAsked
  <1>1. IInv => KNearestAsked
    BY DEF IInv
  <1> QED BY <1>1, Invariance, PTL

\* Every step of a lookup leaves less to do, so that no answers keep it going forever.
THEOREM Progress == Spec => LookupProgresses
  <1>1. IInv /\ [Next]_vars => [Left' < Left]_vars
    BY NextProgresses
  <1> QED BY <1>1, Invariance, PTL DEF Spec, LookupProgresses
=============================================================================
