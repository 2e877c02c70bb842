----------------------------- MODULE MCLifecycle -----------------------------
(* Model-checking instance of Lifecycle. *)
EXTENDS Lifecycle

File(beacon, port, cachePath) ==
    [beacon |-> beacon, port |-> port, cachePath |-> cachePath]

\* The beacon's own file, a node's file, one that lacks the beacon's key, and one
\* without a cache.
MCConfigFiles == {File({}, 1, TRUE), File({"address", "key"}, None, TRUE),
                  File({"address"}, 1, TRUE), File({"address", "key"}, 1, FALSE)}

MCPortArgs == {2, None}
=============================================================================
