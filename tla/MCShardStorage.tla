--------------------------- MODULE MCShardStorage ---------------------------
(* Model-checking instance of ShardStorage. *)
EXTENDS ShardStorage, TLC

\* Chunks, ports and tasks are interchangeable (safety runs only).
Perms == Permutations(Chunks) \cup Permutations(Ports) \cup Permutations(Tasks)
=============================================================================
