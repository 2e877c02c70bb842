---------------------------- MODULE TableHistory ----------------------------
(***************************************************************************)
(* The routing table with a history variable: which of two nodes was seen  *)
(* last.  A node is seen when it is stored and when it, being the head of  *)
(* a full bucket, replies to the ping; a node the table does not take in   *)
(* leaves no trace.  The history decides nothing: every step is a step of  *)
(* RoutingTable.                                                           *)
(***************************************************************************)
EXTENDS RoutingTable

VARIABLE older      \* <<a, b>> \in older: b was seen after a was last seen

historyVars == <<tableVars, older>>

\* The node that was just seen is in the table, as the latest one.
Sighting(key) ==
    older' = IF \E i \in BucketIndices : key \in ToSet(buckets'[i])
             THEN {pair \in older : pair[1] # key} \cup ((Peers \ {key}) \X {key})
             ELSE older

HistoryInit == TableInit /\ older = {}

StoreSighting(key) == StoreNodeinfo(key) /\ Sighting(key)

PingSighting(result) ==
    /\ PingOfHeadReturns(result)
    /\ Sighting(IF result = "ok" THEN evicting ELSE adding)

HistoryNext ==
    \/ \E key \in Peers : StoreSighting(key)
    \/ \E result \in {"ok", "timeout", "bad_response", "other_error"} :
           PingSighting(result)

HistorySpec == HistoryInit /\ [][HistoryNext]_historyVars

\* kbucket.rs:23 "Nodes are kept sorted by Most-Recently-Seen metric from tail
\* to head": in every bucket, every node was seen after all those before it, and
\* none of those has been seen since.
SortedByLastSeen ==
    \A i \in BucketIndices : \A p, q \in DOMAIN buckets[i] :
        p < q => /\ <<buckets[i][p], buckets[i][q]>> \in older
                 /\ <<buckets[i][q], buckets[i][p]>> \notin older
=============================================================================
