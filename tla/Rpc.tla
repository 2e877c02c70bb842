-------------------------------- MODULE Rpc --------------------------------
(***************************************************************************)
(* The request/response layer of one node (src/src/core/node.rs,           *)
(* send_request_and_wait; src/src/networking/request_map.rs;               *)
(* src/src/networking/message_dispatcher.rs).                              *)
(*                                                                         *)
(* A call registers the sending half of a oneshot channel in the request   *)
(* map under its fresh request id, sends the request over UDP and awaits   *)
(* the receiving half under a timeout.  Responses arrive, in any order,    *)
(* any number of times, or never, at a pool of worker tasks; a worker      *)
(* looks the id up (a read lock), removes the entry (a write lock) and     *)
(* only then sends into the channel: three steps between which other       *)
(* workers and the caller's timeout run.                                   *)
(*                                                                         *)
(* Request ids are Uuid::new_v4 values, taken to be distinct: a call IS    *)
(* its request id.                                                         *)
(***************************************************************************)
EXTENDS Naturals

CONSTANTS Calls,    \* concurrent calls of send_request_and_wait
          Workers,  \* the RECEIVE_WORKER_TASK_COUNT receive tasks
          Bodies,   \* the response types a peer may answer with
          None      \* not a body: nothing in the channel, nothing returned

ASSUME RpcAssumption == None \notin Bodies

VARIABLES
    pc,        \* pc[c]: where send_request_and_wait stands
    outcome,   \* outcome[c]: the Result it returned, "none" while it runs
    body,      \* body[c]: the Response it returned
    map,       \* RequestMap: the ids whose oneshot::Sender it holds
    channel,   \* channel[c]: the value in the oneshot channel
    requests,  \* requests that reached the network
    responses, \* response datagrams in flight: <<request id, body>>
    answered,  \* history: every response a peer produced
    wpc,       \* wpc[w]: where worker w stands in handle_response
    wmsg       \* wmsg[w]: the response worker w is handling

vars == <<pc, outcome, body, map, channel, requests, responses, answered,
          wpc, wmsg>>

CallStates == {"idle", "registered", "waiting", "unsent", "expired", "returned"}
Outcomes == {"none", "ok", "unable_to_send", "bad_response", "timeout"}
Responses == Calls \X Bodies
NoMsg == <<None, None>>

TypeOK ==
    /\ pc \in [Calls -> CallStates]
    /\ outcome \in [Calls -> Outcomes]
    /\ body \in [Calls -> Bodies \cup {None}]
    /\ map \subseteq Calls
    /\ channel \in [Calls -> Bodies \cup {None}]
    /\ requests \subseteq Calls
    /\ responses \subseteq Responses
    /\ answered \subseteq Responses
    /\ wpc \in [Workers -> {"idle", "take", "send"}]
    /\ wmsg \in [Workers -> Responses \cup {NoMsg}]

Init ==
    /\ pc = [c \in Calls |-> "idle"]
    /\ outcome = [c \in Calls |-> "none"]
    /\ body = [c \in Calls |-> None]
    /\ map = {}
    /\ channel = [c \in Calls |-> None]
    /\ requests = {}
    /\ responses = {}
    /\ answered = {}
    /\ wpc = [w \in Workers |-> "idle"]
    /\ wmsg = [w \in Workers |-> NoMsg]

\* Worker w has taken the sender of call c out of the map.
Holds(w, c) == wpc[w] = "send" /\ wmsg[w][1] = c

\* The sending half of c's channel exists: in the map or with a worker.
SenderAlive(c) == c \in map \/ \E w \in Workers : Holds(w, c)

------------------------------------------------------------------------------
(* The caller: send_request_and_wait. *)

\* Mutant: the sender is not recorded before the request goes out.
AddRequestUnrecorded(c) ==
    /\ pc[c] = "idle"
    /\ pc' = [pc EXCEPT ![c] = "registered"]
    /\ UNCHANGED <<outcome, body, map, channel, requests, responses, answered,
                   wpc, wmsg>>

\* Creates the oneshot channel and records its sender, before the send.
AddRequest(c) ==
    /\ pc[c] = "idle"
    /\ pc' = [pc EXCEPT ![c] = "registered"]
    /\ map' = map \cup {c}
    /\ UNCHANGED <<outcome, body, channel, requests, responses, answered,
                   wpc, wmsg>>

\* send_request succeeds: the datagram is on the network, the caller awaits.
SendRequest(c) ==
    /\ pc[c] = "registered"
    /\ pc' = [pc EXCEPT ![c] = "waiting"]
    /\ requests' = requests \cup {c}
    /\ UNCHANGED <<outcome, body, map, channel, responses, answered, wpc, wmsg>>

\* send_request fails: message to self, too large, or a socket error.
SendFails(c) ==
    /\ pc[c] = "registered"
    /\ pc' = [pc EXCEPT ![c] = "unsent"]
    /\ UNCHANGED <<outcome, body, map, channel, requests, responses, answered,
                   wpc, wmsg>>

\* The awaited receiver is ready: it holds a response, or its sender is gone
\* (Ok(Err(_)), reported as BadResponse).
ReceiverReady(c) ==
    /\ pc[c] = "waiting"
    /\ channel[c] # None \/ ~SenderAlive(c)
    /\ pc' = [pc EXCEPT ![c] = "returned"]
    /\ outcome' = [outcome EXCEPT
                     ![c] = IF channel[c] # None THEN "ok" ELSE "bad_response"]
    /\ body' = [body EXCEPT ![c] = channel[c]]
    /\ UNCHANGED <<map, channel, requests, responses, answered, wpc, wmsg>>

\* Mutant: the receiver is awaited without a timeout.
AwaitWithoutTimeout(c) == pc[c] = "waiting" /\ channel[c] # None /\ UNCHANGED vars

\* The timer fires first.  tokio::time::timeout polls the receiver before its
\* timer, so a response already in the channel wins; the receiver is dropped.
TimeoutExpires(c) ==
    /\ pc[c] = "waiting"
    /\ channel[c] = None
    /\ pc' = [pc EXCEPT ![c] = "expired"]
    /\ UNCHANGED <<outcome, body, map, channel, requests, responses, answered,
                   wpc, wmsg>>

\* Mutant: the error path forgets remove_request.
ReturnWithoutRemove(c) ==
    /\ pc[c] \in {"unsent", "expired"}
    /\ pc' = [pc EXCEPT ![c] = "returned"]
    /\ outcome' = [outcome EXCEPT
                     ![c] = IF pc[c] = "unsent" THEN "unable_to_send" ELSE "timeout"]
    /\ UNCHANGED <<body, map, channel, requests, responses, answered, wpc, wmsg>>

\* remove_request, awaited on both error paths before the call returns.
RemoveRequest(c) ==
    /\ pc[c] \in {"unsent", "expired"}
    /\ map' = map \ {c}
    /\ pc' = [pc EXCEPT ![c] = "returned"]
    /\ outcome' = [outcome EXCEPT
                     ![c] = IF pc[c] = "unsent" THEN "unable_to_send" ELSE "timeout"]
    /\ UNCHANGED <<body, channel, requests, responses, answered, wpc, wmsg>>

------------------------------------------------------------------------------
(* The peers and the network (UDP: loss, duplication, reordering). *)

\* A peer that received the request of c answers it, possibly repeatedly.
PeerAnswers(c, b) ==
    /\ c \in requests
    /\ responses' = responses \cup {<<c, b>>}
    /\ answered' = answered \cup {<<c, b>>}
    /\ UNCHANGED <<pc, outcome, body, map, channel, requests, wpc, wmsg>>

LoseResponse(r) ==
    /\ r \in responses
    /\ responses' = responses \ {r}
    /\ UNCHANGED <<pc, outcome, body, map, channel, requests, answered, wpc, wmsg>>

------------------------------------------------------------------------------
(* The workers: RequestMap::handle_response. *)

\* Dequeues a datagram (a duplicate of it may stay in flight) and asks
\* contains_request; a response with an unknown id is discarded.
ContainsRequest(w, r) ==
    /\ wpc[w] = "idle"
    /\ r \in responses
    /\ responses' \in {responses, responses \ {r}}
    /\ IF r[1] \in map
       THEN /\ wpc' = [wpc EXCEPT ![w] = "take"]
            /\ wmsg' = [wmsg EXCEPT ![w] = r]
       ELSE UNCHANGED <<wpc, wmsg>>
    /\ UNCHANGED <<pc, outcome, body, map, channel, requests, answered>>

\* Mutant: the sender is looked up and left in the map.
TakeLeavesEntry(w) ==
    /\ wpc[w] = "take"
    /\ wmsg[w][1] \in map
    /\ wpc' = [wpc EXCEPT ![w] = "send"]
    /\ UNCHANGED <<pc, outcome, body, map, channel, requests, responses, answered,
                   wmsg>>

\* Mutant: the sender taken out of the map is dropped.
TakeDropsSender(w) ==
    /\ wpc[w] = "take"
    /\ map' = map \ {wmsg[w][1]}
    /\ wpc' = [wpc EXCEPT ![w] = "idle"]
    /\ wmsg' = [wmsg EXCEPT ![w] = NoMsg]
    /\ UNCHANGED <<pc, outcome, body, channel, requests, responses, answered>>

\* take_request: the entry may be gone by now (another worker, or a timeout).
TakeRequest(w) ==
    /\ wpc[w] = "take"
    /\ IF wmsg[w][1] \in map
       THEN /\ map' = map \ {wmsg[w][1]}
            /\ wpc' = [wpc EXCEPT ![w] = "send"]
            /\ UNCHANGED wmsg
       ELSE /\ wpc' = [wpc EXCEPT ![w] = "idle"]
            /\ wmsg' = [wmsg EXCEPT ![w] = NoMsg]
            /\ UNCHANGED map
    /\ UNCHANGED <<pc, outcome, body, channel, requests, responses, answered>>

\* sender.send(response): fails, and is only logged, if the receiver is gone.
SendToChannel(w) ==
    /\ wpc[w] = "send"
    /\ LET c == wmsg[w][1] IN
         channel' = IF pc[c] = "waiting"
                    THEN [channel EXCEPT ![c] = wmsg[w][2]]
                    ELSE channel
    /\ wpc' = [wpc EXCEPT ![w] = "idle"]
    /\ wmsg' = [wmsg EXCEPT ![w] = NoMsg]
    /\ UNCHANGED <<pc, outcome, body, map, requests, responses, answered>>

------------------------------------------------------------------------------
CallStep(c) ==
    \/ SendRequest(c)
    \/ SendFails(c)
    \/ ReceiverReady(c)
    \/ TimeoutExpires(c)
    \/ RemoveRequest(c)

WorkerStep(w) == TakeRequest(w) \/ SendToChannel(w)

Next ==
    \/ \E c \in Calls : AddRequest(c) \/ CallStep(c)
    \/ \E c \in Calls, b \in Bodies : PeerAnswers(c, b)
    \/ \E r \in responses : LoseResponse(r)
    \/ \E w \in Workers, r \in responses : ContainsRequest(w, r)
    \/ \E w \in Workers : WorkerStep(w)

Spec == Init /\ [][Next]_vars

\* The tokio scheduler polls every task that can run and fires every timer.
\* Nothing is assumed of users, peers or the network.
Fairness ==
    /\ \A c \in Calls : WF_vars(CallStep(c))
    /\ \A w \in Workers : WF_vars(WorkerStep(w))

FairSpec == Spec /\ Fairness

------------------------------------------------------------------------------
(* Properties. *)

\* request_map.rs:13 "The caller is responsible for removing request entries":
\* no call returns, on any path and under any race of response and timeout,
\* while the request map still holds its entry.
NoLeakedEntry == \A c \in Calls : pc[c] = "returned" => c \notin map

\* A call that still waits can still be woken: its response is in the channel,
\* or its sender is in the map or with exactly the worker about to use it.
\* Hence the BadResponse arm of send_request_and_wait is never taken.
SenderNotLost ==
    \A c \in Calls :
        pc[c] = "waiting" => channel[c] # None \/ SenderAlive(c)

\* However many duplicates of a response arrive, at most one worker ever gets
\* the sender of a call, and never while the map still has it.
SenderUnique ==
    \A c \in Calls, w \in Workers :
        Holds(w, c) => c \notin map /\ \A v \in Workers : Holds(v, c) => v = w

\* What is known of a call by where it stands: it is in the map from the start
\* until it is sent, a value in its channel is an answer to it and the last one.
CallInv ==
    \A c \in Calls :
        /\ pc[c] \in {"idle", "registered", "unsent"} => c \notin requests
        /\ pc[c] = "idle" => c \notin map
        /\ pc[c] = "registered" => c \in map
        /\ channel[c] # None =>
             /\ <<c, channel[c]>> \in answered
             /\ pc[c] \in {"waiting", "returned"}
             /\ ~SenderAlive(c)
        /\ outcome[c] = "none" <=> pc[c] # "returned"

\* Every datagram in flight or at a worker answers a request that was sent.
MessageInv ==
    /\ responses \subseteq answered
    /\ \A a \in answered : a[1] \in requests
    /\ \A w \in Workers : wpc[w] # "idle" => wmsg[w] \in answered

\* The inductive invariant behind the three properties above.
IInv ==
    /\ TypeOK
    /\ NoLeakedEntry
    /\ SenderNotLost
    /\ SenderUnique
    /\ CallInv
    /\ MessageInv

\* The request/response layer keeps the caller's contract.
Contract == INSTANCE RpcContract
ContractSpec == Contract!Spec

\* Every call that was started returns, whatever peers and network do.
EveryCallReturns == \A c \in Calls : pc[c] = "registered" ~> pc[c] = "returned"
=============================================================================
