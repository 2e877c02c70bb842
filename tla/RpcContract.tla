---------------------------- MODULE RpcContract ----------------------------
(***************************************************************************)
(* What a caller of Node::send_request_and_wait is promised, with nothing  *)
(* about maps, channels, timers or worker tasks: a call returns at most    *)
(* once; if it returns a response, a peer sent that response in answer to  *)
(* THIS request; otherwise it returns one of the two errors a caller can   *)
(* meet, UnableToSend and ResponseTimeout.  The third error of the enum    *)
(* NodeError, BadResponse, is not among the outcomes: the sending half of  *)
(* a call's channel is never dropped while the call still listens.         *)
(* Module Rpc, the model of the code, implements this specification.       *)
(***************************************************************************)
CONSTANTS Calls,    \* calls of send_request_and_wait, each with its own Uuid
          Bodies,   \* the response types a peer may answer with
          None      \* no body

VARIABLES answered, \* the answers peers have produced: <<call, body>>
          outcome,  \* outcome[c]: how call c returned, "none" before that
          body      \* body[c]: the response returned to the caller of c

vars == <<answered, outcome, body>>

Init ==
    /\ answered = {}
    /\ outcome = [c \in Calls |-> "none"]
    /\ body = [c \in Calls |-> None]

\* A peer answers the request of call c (it may answer twice: UDP duplicates).
Answer(c, b) ==
    /\ answered' = answered \cup {<<c, b>>}
    /\ UNCHANGED <<outcome, body>>

Succeed(c, b) ==
    /\ outcome[c] = "none"
    /\ <<c, b>> \in answered
    /\ outcome' = [outcome EXCEPT ![c] = "ok"]
    /\ body' = [body EXCEPT ![c] = b]
    /\ UNCHANGED answered

Fail(c, error) ==
    /\ outcome[c] = "none"
    /\ outcome' = [outcome EXCEPT ![c] = error]
    /\ UNCHANGED <<answered, body>>

Next ==
    \E c \in Calls :
        \/ \E b \in Bodies : Answer(c, b) \/ Succeed(c, b)
        \/ \E error \in {"unable_to_send", "timeout"} : Fail(c, error)

Spec == Init /\ [][Next]_vars
=============================================================================
