---------------------------- MODULE RoutingTable ----------------------------
(***************************************************************************)
(* The routing table of one node: its k-buckets, how a node is recorded in *)
(* them and how the nodes nearest to a key are collected                   *)
(* (src/src/routing/kbucket.rs, src/src/routing/routing_table.rs).         *)
(*                                                                         *)
(* A NodeInfo is identified with its id.  Adding to a full bucket pings    *)
(* the bucket's head in the middle of the operation; here the ping may     *)
(* return anything.  Module NodeTasks composes the table with the lock     *)
(* that guards it, and there the ping never returns.                       *)
(***************************************************************************)
EXTENDS Keyspace, Sequences, SequencesExt

CONSTANTS Self,     \* the id of this node
          Peers,    \* ids of the nodes that may be recorded
          Capacity, \* K, the capacity of a bucket
          NoKey     \* no node

ASSUME TableAssumption ==
    /\ Self \in Key
    /\ Peers \subseteq Key
    /\ Capacity \in Nat \ {0}
    /\ NoKey \notin Key

VARIABLES buckets,  \* buckets[i]: the nodes of bucket i, least recently seen first
          evicting, \* the former head of a full bucket whose ping is awaited
          adding    \* the node that add_nodeinfo wants to add in its place

tableVars == <<buckets, evicting, adding>>

TableTypeOK ==
    /\ buckets \in [BucketIndices -> Seq(Key)]
    /\ evicting \in Peers \cup {NoKey}
    /\ adding \in Peers \cup {NoKey}

TableInit ==
    /\ buckets = [i \in BucketIndices |-> <<>>]
    /\ evicting = NoKey
    /\ adding = NoKey

------------------------------------------------------------------------------
(* KBucket *)

\* KBucket::remove_nodeinfo: drops the first entry with that id, if any.
RemoveNodeinfo(nodes, key) ==
    IF \E p \in DOMAIN nodes : nodes[p] = key
    THEN RemoveAt(nodes, CHOOSE p \in DOMAIN nodes :
                             /\ nodes[p] = key
                             /\ \A q \in 1 .. p - 1 : nodes[q] # key)
    ELSE nodes

\* Mutant: a bucket is full only beyond its capacity.
AddBeyondCapacity(i, key) ==
    LET others == RemoveNodeinfo(buckets[i], key)
    IN  IF Len(others) <= Capacity
        THEN /\ buckets' = [buckets EXCEPT ![i] = Append(others, key)]
             /\ UNCHANGED <<evicting, adding>>
        ELSE /\ buckets' = [buckets EXCEPT ![i] = Tail(others)]
             /\ evicting' = Head(others)
             /\ adding' = key

\* Mutant: a node that is seen again keeps its place.
AddInPlace(i, key) ==
    IF key \in ToSet(buckets[i])
    THEN UNCHANGED tableVars
    ELSE IF Len(buckets[i]) < Capacity
    THEN /\ buckets' = [buckets EXCEPT ![i] = Append(@, key)]
         /\ UNCHANGED <<evicting, adding>>
    ELSE /\ buckets' = [buckets EXCEPT ![i] = Tail(@)]
         /\ evicting' = Head(buckets[i])
         /\ adding' = key

\* KBucket::add_nodeinfo up to its return or to its ping of the removed head.
AddNodeinfo(i, key) ==
    LET others == RemoveNodeinfo(buckets[i], key)
    IN  IF Len(others) < Capacity
        THEN /\ buckets' = [buckets EXCEPT ![i] = Append(others, key)]
             /\ UNCHANGED <<evicting, adding>>
        ELSE /\ buckets' = [buckets EXCEPT ![i] = Tail(others)]
             /\ evicting' = Head(others)
             /\ adding' = key

\* The rest of add_nodeinfo: the head goes back as most recently seen if it
\* replied, the new node takes its place if it did not, and on any other
\* error neither is kept.
PingOfHeadReturns(result) ==
    /\ evicting # NoKey
    /\ LET i == BucketIndex(Self, adding) IN
         buckets' = CASE result = "ok" ->
                             [buckets EXCEPT ![i] = Append(@, evicting)]
                      [] result \in {"timeout", "bad_response"} ->
                             [buckets EXCEPT ![i] = Append(@, adding)]
                      [] OTHER -> buckets
    /\ evicting' = NoKey
    /\ adding' = NoKey

\* RoutingTable::store_nodeinfo; storing oneself is an error and no change.
\* The table is mutably borrowed while a ping of a head is awaited.
StoreNodeinfo(key) ==
    /\ evicting = NoKey
    /\ IF BucketIndex(Self, key) = NoBucket
       THEN UNCHANGED tableVars
       ELSE AddNodeinfo(BucketIndex(Self, key), key)

TableNext ==
    \/ \E key \in Peers : StoreNodeinfo(key)
    \/ \E result \in {"ok", "timeout", "bad_response", "other_error"} :
           PingOfHeadReturns(result)

TableSpec == TableInit /\ [][TableNext]_tableVars

------------------------------------------------------------------------------
(* Reading the table. *)

\* The nodes of buckets lo to hi, and how many entries those have.
NodesIn(lo, hi) == UNION {ToSet(buckets[i]) : i \in lo .. hi}
Entries(lo, hi) == Cardinality(UNION {{i} \X DOMAIN buckets[i] : i \in lo .. hi})
AllNodeinfos == NodesIn(0, Bits - 1)

\* The n elements of S nearest to key: sort_by_key(distance), then take(n).
TakeNearest(S, key, n) ==
    {x \in S : Cardinality({y \in S : Nearer(y, x, key)}) < n}

\* One pass of the loop of get_n_closest over the buckets r[1] .. r[2] taken so
\* far: one bucket up, then buckets down until as many entries as from above.
Widen(r) ==
    LET up == IF r[2] + 1 < Bits THEN r[2] + 1 ELSE r[2]
        gotUp == Entries(r[2] + 1, up)
        down == IF r[1] = 0 THEN 0
                ELSE Max({l \in 0 .. r[1] - 1 : Entries(l, r[1] - 1) >= gotUp}
                         \cup {0})
    IN  <<down, up>>

\* The loop of get_n_closest.  A pass that takes nothing leaves the range alone,
\* so the Bits passes made here are as many as the loop can make.
WidenUntilEnough(index, n) ==
    LET after[passes \in 0 .. Bits] ==
            IF passes = 0 THEN <<index, index>>
            ELSE LET r == after[passes - 1]
                 IN  IF Entries(r[1], r[2]) < n THEN Widen(r) ELSE r
    IN  after[Bits]

\* Mutant: the neighbouring buckets are searched only when the own one is empty.
GatheredIfEmpty(index, n) ==
    IF buckets[index] = <<>> THEN WidenUntilEnough(index, n) ELSE <<index, index>>

\* The buckets get_n_closest has taken, first and last, when its loop ends.
Gathered(index, n) ==
    IF Len(buckets[index]) < n THEN WidenUntilEnough(index, n) ELSE <<index, index>>

\* Mutant: the nodes are sorted by their distance to this node.
GetNClosestToSelf(key, n) ==
    LET index == BucketIndex(Self, key)
        r == Gathered(index, n)
    IN  IF index = NoBucket THEN {} ELSE TakeNearest(NodesIn(r[1], r[2]), Self, n)

\* RoutingTable::get_n_closest (get_alpha_closest, get_k_closest and the lookup_
\* variants).  The errors Empty and AttempStoreSelf are the empty set.
GetNClosest(key, n) ==
    LET index == BucketIndex(Self, key)
        r == Gathered(index, n)
    IN  IF index = NoBucket THEN {} ELSE TakeNearest(NodesIn(r[1], r[2]), key, n)

\* RoutingTable::get_nodeinfo; an error and a missing node are both FALSE.
KnowsNode(key) ==
    /\ BucketIndex(Self, key) # NoBucket
    /\ key \in ToSet(buckets[BucketIndex(Self, key)])

------------------------------------------------------------------------------
(* Properties. *)

\* Bucket i only ever holds keys whose bucket index is i; hence never Self.
Placement ==
    \A i \in BucketIndices : \A p \in DOMAIN buckets[i] :
        buckets[i][p] \in Peers /\ BucketIndex(Self, buckets[i][p]) = i

\* No node is recorded twice, however often it is seen.
NoDuplicates ==
    \A i \in BucketIndices : \A p, q \in DOMAIN buckets[i] :
        buckets[i][p] = buckets[i][q] => p = q

\* No bucket outgrows its capacity; while the ping of a removed head is
\* awaited there is room for one of the two nodes, and neither is in there.
WithinCapacity ==
    /\ \A i \in BucketIndices : Len(buckets[i]) <= Capacity
    /\ evicting # NoKey <=> adding # NoKey
    /\ evicting # NoKey =>
         LET i == BucketIndex(Self, adding) IN
           /\ i \in BucketIndices
           /\ BucketIndex(Self, evicting) = i
           /\ evicting # adding
           /\ Len(buckets[i]) < Capacity
           /\ \A p \in DOMAIN buckets[i] : buckets[i][p] \notin {evicting, adding}

\* The buckets of a table stay well formed through any sequence of stores and
\* through any outcome of the pings in the middle of them.
BucketsWellFormed ==
    TableTypeOK /\ Placement /\ NoDuplicates /\ WithinCapacity

\* get_n_closest returns n nodes whenever the table has that many, all of them
\* when it has fewer, and an error only for Self or an empty table.
EnoughFound ==
    \A key \in Key \ {Self}, n \in 1 .. Capacity + 1 :
        LET total == Cardinality(AllNodeinfos) IN
        Cardinality(GetNClosest(key, n)) = IF n < total THEN n ELSE total

\* get_n_closest returns exactly the n nearest nodes of the whole table when the
\* bucket of the key has n nodes, although it looks at that bucket only: the code,
\* which sorts here too, does better than its comment (routing_table.rs:133 "Faster but
\* not all of them are closest") says.  It also does when its walk has left no node in
\* the buckets below the key's: all of those are nearer than any above.
ExactUnlessLowerLeft ==
    \A key \in Key \ {Self}, n \in 1 .. Capacity + 1 :
        LET index == BucketIndex(Self, key) IN
        Len(buckets[index]) >= n \/ NodesIn(0, Gathered(index, n)[1] - 1) = {} =>
            GetNClosest(key, n) = TakeNearest(AllNodeinfos, key, n)
=============================================================================
