------------------------------ MODULE MCLookup ------------------------------
(* Model-checking instances of Lookup. *)
EXTENDS Lookup

\* A contact is ten times the rank of its id, and the number of its address.
MCRank == [c \in Nodes |-> c \div 10]

\* Answers that a routing table can give, nearest first and each id once (this node is
\* named alone), and answers that name one contact or one id twice.
Pairs == [1 .. 2 -> Nodes]
MCTableAnswers == {<<>>} \cup [1 .. 1 -> Nodes \cup {Self}]
                  \cup {s \in Pairs : s[1] \div 10 < s[2] \div 10}
MCAnswers == MCTableAnswers \cup {<<10, 20, 30>>, <<20, 20>>, <<20, 21>>}
=============================================================================
