---------------------------- MODULE MCNodeTasks ----------------------------
(* Model-checking instance of NodeTasks, on keys of two bits. *)
EXTENDS NodeTasks

MCSelf == <<0, 0>>
near == <<0, 1>>
far1 == <<1, 0>>
far2 == <<1, 1>>
MCPeers == {near, far1, far2}

Req(from, to, kind, target) == [from |-> from, to |-> to, kind |-> kind, target |-> target]

\* Two of the peers share a bucket of one place.  One of them wants a chunk from each
\* of the two workers, the other looks for a value.
MCRequests == {Req(far1, MCSelf, "get_value", near), Req(far1, MCSelf, "get_value", far2),
               Req(far2, MCSelf, "find_value", near)}
=============================================================================
