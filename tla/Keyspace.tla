------------------------------ MODULE Keyspace ------------------------------
(***************************************************************************)
(* Keys and the XOR metric (src/src/core/key.rs) and the k-bucket of a key *)
(* (src/src/routing/routing_table.rs).                                     *)
(*                                                                         *)
(* A Key is an array of K bytes, compared byte by byte from the front: the *)
(* model keeps it as the string of its Bits bits, position 1 being the     *)
(* most significant bit of the first byte.  In the code Bits = 160; every  *)
(* definition here is parametric in it.                                    *)
(***************************************************************************)
EXTENDS Integers

CONSTANT Bits       \* RoutingTable::NUM_BUCKETS, the length of a key in bits

ASSUME BitsAssumption == Bits \in Nat \ {0}

Positions == 1 .. Bits
Key == [Positions -> {0, 1}]

\* Key::distance: the bitwise exclusive or.
Distance(a, b) == [i \in Positions |-> IF a[i] = b[i] THEN 0 ELSE 1]

\* The order of byte arrays, by which distances are sorted.
Less(a, b) ==
    \E i \in Positions : /\ a[i] < b[i]
                         /\ \A j \in 1 .. i - 1 : a[j] = b[j]

\* x is nearer to the target than y.
Nearer(x, y, target) == Less(Distance(x, target), Distance(y, target))

\* a and b agree on exactly their first n bits.
ExactlyNSameLeadingBits(a, b, n) ==
    /\ \A i \in 1 .. n : a[i] = b[i]
    /\ n < Bits => a[n + 1] # b[n + 1]

\* Key::leading_zeros_in_distance: counts zero bits up to the first one bit.
LeadingZerosInDistance(a, b) ==
    CHOOSE n \in 0 .. Bits : ExactlyNSameLeadingBits(a, b, n)

\* Key::make_exactly_n_same_leading_bits_as: n bits copied from key, the next
\* bit inverted (n = Bits leaves none to invert), the rest kept from mine.
MakeExactlyNSameLeadingBits(mine, key, n) ==
    [i \in Positions |-> IF i <= n THEN key[i]
                         ELSE IF i = n + 1 THEN 1 - key[i]
                         ELSE mine[i]]

\* RoutingTable::get_bucket_index.  The error AttempStoreSelf, which every
\* caller returns to its own caller, is the index NoBucket.
NoBucket == -1
BucketIndices == 0 .. Bits - 1

BucketIndex(self, key) ==
    LET lz == LeadingZerosInDistance(self, key)
    IN  IF lz = Bits THEN NoBucket ELSE Bits - 1 - lz

\* RoutingTable::get_random_id_for_bucket, from a random key.
RandomIdForBucket(self, random, bucket) ==
    MakeExactlyNSameLeadingBits(random, self, Bits - bucket - 1)
=============================================================================
