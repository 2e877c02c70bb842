----------------------------- MODULE ChunkStore -----------------------------
(***************************************************************************)
(* What the chunk store of one node promises to the rest of the network,   *)
(* with nothing about maps, ports, tasks, locks or background threads:     *)
(*                                                                         *)
(*   - a chunk is written once: nothing is put over a chunk that is there; *)
(*   - no more than Limit chunks are on offer;                             *)
(*   - what is read of a chunk was put under its hash: all of it once it   *)
(*     has settled, a shorter part before;                                 *)
(*   - a chunk settles, with its content or with a shorter part of it      *)
(*     where writing failed, and does not change again;                    *)
(*   - a restart withdraws the offers and settles everything.              *)
(*                                                                         *)
(* Module ShardStorage, the model of the code, implements this             *)
(* specification as long as nobody calls remove_dead_chunks (in the        *)
(* program nobody does).  Module FileSharing builds on it: a node of the   *)
(* network is there what MayPut and Contents say it is.                    *)
(***************************************************************************)
EXTENDS Naturals, FiniteSets

CONSTANTS Chunks,     \* chunk hashes
          Contents,   \* what can be put under a hash
          Shorter(_), \* Shorter(d): what writing or reading only a part of d leaves
          Limit,      \* MAX_SHARDS_STORED
          None        \* no chunk, no content

VARIABLES kept,    \* kept[c]: the content under hash c
          settled, \* the chunks whose content will not change any more
          offered, \* the chunks FIND_VALUE is answered HAS_VALUE for
          read     \* <<chunk, content>> of the latest read

vars == <<kept, settled, offered, read>>

\* A put is accepted for a chunk that is not there, while there is room.
MayPut(k, o, c) == k[c] = None /\ Cardinality(o) < Limit

Init ==
    /\ kept = [c \in Chunks |-> None]
    /\ settled = Chunks
    /\ offered = {}
    /\ read = <<None, None>>

Put(c, d) ==
    /\ MayPut(kept, offered, c)
    /\ kept' = [kept EXCEPT ![c] = d]
    /\ settled' = settled \ {c}
    /\ offered' = offered \cup {c}
    /\ UNCHANGED read

Settle(c, d) ==
    /\ c \notin settled
    /\ d \in {kept[c]} \cup Shorter(kept[c])
    /\ kept' = [kept EXCEPT ![c] = d]
    /\ settled' = settled \cup {c}
    /\ UNCHANGED <<offered, read>>

\* What is there can be read, on offer or not.
Read(c, d) ==
    /\ kept[c] # None
    /\ d \in IF c \in settled THEN {kept[c]} ELSE Shorter(kept[c])
    /\ read' = <<c, d>>
    /\ UNCHANGED <<kept, settled, offered>>

Restart ==
    /\ offered' = {}
    /\ settled' = Chunks
    /\ kept' \in [Chunks -> Contents \cup {None}]
    /\ \A c \in Chunks :
         kept'[c] \in IF c \in settled THEN {kept[c]}
                      ELSE {kept[c]} \cup Shorter(kept[c])
    /\ UNCHANGED read

Next ==
    \/ \E c \in Chunks, d \in Contents : Put(c, d) \/ Settle(c, d) \/ Read(c, d)
    \/ Restart

Spec == Init /\ [][Next]_vars
=============================================================================
