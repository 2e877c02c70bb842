--------------------------- MODULE MCFileSharing ---------------------------
(* Model-checking instance of FileSharing. *)
EXTENDS FileSharing

CONSTANTS A, Rest

\* A file that ends with a short block, and one that is too big.
MCFiles == {<<A, Rest>>, <<Rest, Rest, Rest>>}

\* The same, and a file that consists of a short block.
MCMoreFiles == MCFiles \cup {<<Rest>>}

\* A file with the same block twice.
MCTwice == {<<A, A>>}
=============================================================================
