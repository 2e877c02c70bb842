--------------------------- MODULE MCRoutingTable ---------------------------
(* Model-checking instance of RoutingTable, with the history of sightings. *)
EXTENDS TableHistory

\* Keys of three bits; three of the peers share the outermost bucket, so that
\* a full bucket meets a further node.
MCSelf == <<1, 0, 1>>
MCPeers == Key \ {<<0, 0, 0>>}
=============================================================================
