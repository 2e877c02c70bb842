----------------------------- MODULE RpcProofs -----------------------------
(***************************************************************************)
(* Proofs about module Rpc, for any number of concurrent calls, workers    *)
(* and kinds of response: the inductive invariant IInv, the properties it  *)
(* implies, and the refinement of the caller's contract.                   *)
(***************************************************************************)
EXTENDS Rpc, TLAPS

\* The initial state of the request layer satisfies the inductive invariant.
LEMMA InitIInv == Init => IInv
  BY RpcAssumption DEF Init, IInv, TypeOK, NoLeakedEntry, SenderNotLost,
     SenderUnique, CallInv, MessageInv, SenderAlive, Holds, CallStates,
     Outcomes, Responses, NoMsg

\* Every step of a caller, of a worker or of the network preserves TypeOK.
LEMMA NextTypeOK == TypeOK /\ [Next]_vars => TypeOK'
  <1> SUFFICES ASSUME TypeOK, [Next]_vars PROVE TypeOK'
    OBVIOUS
  <1> USE DEF TypeOK, CallStates, Outcomes, Responses
  <1>1. ASSUME NEW c \in Calls, AddRequest(c) PROVE TypeOK'
    BY <1>1 DEF AddRequest
  <1>2. ASSUME NEW c \in Calls, SendRequest(c) PROVE TypeOK'
    BY <1>2 DEF SendRequest
  <1>3. ASSUME NEW c \in Calls, SendFails(c) PROVE TypeOK'
    BY <1>3 DEF SendFails
  <1>4. ASSUME NEW c \in Calls, ReceiverReady(c) PROVE TypeOK'
    BY <1>4 DEF ReceiverReady
  <1>5. ASSUME NEW c \in Calls, TimeoutExpires(c) PROVE TypeOK'
    BY <1>5 DEF TimeoutExpires
  <1>6. ASSUME NEW c \in Calls, RemoveRequest(c) PROVE TypeOK'
    BY <1>6 DEF RemoveRequest
  <1>7. ASSUME NEW c \in Calls, NEW b \in Bodies, PeerAnswers(c, b) PROVE TypeOK'
    BY <1>7 DEF PeerAnswers
  <1>8. ASSUME NEW r \in responses, LoseResponse(r) PROVE TypeOK'
    BY <1>8 DEF LoseResponse
  <1>9. ASSUME NEW w \in Workers, NEW r \in responses, ContainsRequest(w, r)
        PROVE TypeOK'
    BY <1>9 DEF ContainsRequest
  <1>10. ASSUME NEW w \in Workers, TakeRequest(w) PROVE TypeOK'
    BY <1>10 DEF TakeRequest
  <1>11. ASSUME NEW w \in Workers, SendToChannel(w) PROVE TypeOK'
    <2>1. wmsg[w][2] \in Bodies \cup {None}
      BY DEF NoMsg
    <2>2. channel' \in [Calls -> Bodies \cup {None}]
      BY <1>11, <2>1 DEF SendToChannel
    <2> QED BY <1>11, <2>2 DEF SendToChannel
  <1>12. CASE UNCHANGED vars
    BY <1>12 DEF vars
  <1> QED
    BY <1>1, <1>2, <1>3, <1>4, <1>5, <1>6, <1>7, <1>8, <1>9, <1>10, <1>11,
       <1>12 DEF Next, CallStep, WorkerStep

\* The same for the rest of the inductive invariant; one step per action.
LEMMA NextIInv == IInv /\ [Next]_vars => IInv'
  <1> SUFFICES ASSUME IInv, [Next]_vars PROVE IInv'
    OBVIOUS
  <1>t. TypeOK'
    BY NextTypeOK DEF IInv
  <1> USE RpcAssumption
  <1> USE DEF IInv, TypeOK, NoLeakedEntry, SenderNotLost, SenderUnique,
              CallInv, MessageInv, SenderAlive, Holds, CallStates, Outcomes,
              Responses
  <1>1. ASSUME NEW c \in Calls, AddRequest(c) PROVE IInv'
    <2>1. c \notin map /\ channel[c] = None /\ c \notin requests
      BY <1>1 DEF AddRequest
    <2>2. ASSUME NEW v \in Workers PROVE ~Holds(v, c)
      <3>1. wpc[v] = "send" => wmsg[v][1] \in requests
        OBVIOUS
      <3> QED BY <2>1, <3>1
    <2>3. NoLeakedEntry' /\ SenderNotLost'
      BY <1>1 DEF AddRequest
    <2>4. SenderUnique'
      BY <1>1, <2>2 DEF AddRequest
    <2>5. CallInv' /\ MessageInv'
      BY <1>1, <2>1, <2>2 DEF AddRequest
    <2> QED BY <1>t, <2>3, <2>4, <2>5
  <1>2. ASSUME NEW c \in Calls, SendRequest(c) PROVE IInv'
    <2>1. NoLeakedEntry' /\ SenderUnique' /\ MessageInv'
      BY <1>2 DEF SendRequest
    <2>2. ASSUME NEW d \in Calls, (pc[d] = "waiting")'
          PROVE (channel[d] # None \/ SenderAlive(d))'
      <3>1. CASE d = c
        BY <1>2, <3>1 DEF SendRequest
      <3>2. CASE d # c
        <4>1. pc[d] = "waiting"
          BY <1>2, <2>2, <3>2 DEF SendRequest
        <4>2. channel[d] # None \/ SenderAlive(d)
          BY <4>1
        <4> QED BY <1>2, <4>2 DEF SendRequest
      <3> QED BY <3>1, <3>2
    <2>3. CallInv'
      BY <1>2 DEF SendRequest
    <2> QED BY <1>t, <2>1, <2>2, <2>3
  <1>3. ASSUME NEW c \in Calls, SendFails(c) PROVE IInv'
    BY <1>3, <1>t DEF SendFails
  <1>4. ASSUME NEW c \in Calls, ReceiverReady(c) PROVE IInv'
    <2>1. ~SenderAlive(c) /\ channel[c] # None
      BY <1>4 DEF ReceiverReady
    <2>2. NoLeakedEntry' /\ SenderNotLost' /\ SenderUnique'
      BY <1>4, <2>1 DEF ReceiverReady
    <2>3. CallInv' /\ MessageInv'
      BY <1>4, <2>1 DEF ReceiverReady
    <2> QED BY <1>t, <2>2, <2>3
  <1>5. ASSUME NEW c \in Calls, TimeoutExpires(c) PROVE IInv'
    BY <1>5, <1>t DEF TimeoutExpires
  <1>6. ASSUME NEW c \in Calls, RemoveRequest(c) PROVE IInv'
    BY <1>6, <1>t DEF RemoveRequest
  <1>7. ASSUME NEW c \in Calls, NEW b \in Bodies, PeerAnswers(c, b) PROVE IInv'
    BY <1>7, <1>t DEF PeerAnswers
  <1>8. ASSUME NEW r \in responses, LoseResponse(r) PROVE IInv'
    BY <1>8, <1>t DEF LoseResponse
  <1>9. ASSUME NEW w \in Workers, NEW r \in responses, ContainsRequest(w, r)
        PROVE IInv'
    BY <1>9, <1>t DEF ContainsRequest
  <1>10. ASSUME NEW w \in Workers, TakeRequest(w) PROVE IInv'
    BY <1>10, <1>t DEF TakeRequest
  <1>11. ASSUME NEW w \in Workers, SendToChannel(w) PROVE IInv'
    <2> DEFINE c == wmsg[w][1]
    <2>1. /\ wmsg[w] \in answered /\ wmsg[w] = <<c, wmsg[w][2]>>
          /\ c \in Calls /\ wmsg[w][2] \in Bodies
      BY <1>11 DEF SendToChannel
    <2>h. Holds(w, c)
      BY <1>11 DEF SendToChannel
    <2>2. /\ c \notin map /\ channel[c] = None
          /\ \A v \in Workers : Holds(v, c) => v = w
      <3> HIDE DEF Holds, c
      <3>1. c \notin map /\ \A v \in Workers : Holds(v, c) => v = w
        BY <2>h, <2>1
      <3>2. SenderAlive(c)
        BY <2>h
      <3>3. channel[c] = None
        BY <2>1, <3>2
      <3> QED BY <3>1, <3>3
    <2>3. \A v \in Workers, d \in Calls : Holds(v, d)' <=> Holds(v, d) /\ v # w
      BY <1>11 DEF SendToChannel
    <2>4. NoLeakedEntry' /\ SenderUnique' /\ MessageInv'
      BY <1>11, <2>3 DEF SendToChannel
    <2>5. \A d \in Calls : SenderAlive(d)' <=> SenderAlive(d) /\ d # c
      BY <1>11, <2>1, <2>2, <2>3 DEF SendToChannel
    <2>6. ASSUME NEW d \in Calls PROVE channel'[d] = IF d = c /\ pc[c] = "waiting"
                                                  THEN wmsg[w][2] ELSE channel[d]
      BY <1>11, <2>1 DEF SendToChannel
    <2>7. UNCHANGED <<pc, outcome, map, requests, answered>>
      BY <1>11 DEF SendToChannel
    <2> HIDE DEF c, SenderAlive, Holds
    <2>8. SenderNotLost'
      BY <2>1, <2>5, <2>6, <2>7
    <2>9. CallInv'
      <3> SUFFICES ASSUME NEW d \in Calls, (channel[d] # None)'
                   PROVE  /\ <<d, channel[d]'>> \in answered
                          /\ pc[d] \in {"waiting", "returned"}
                          /\ ~SenderAlive(d)'
        BY <2>7
      <3>1. CASE d = c /\ pc[c] = "waiting"
        BY <3>1, <2>1, <2>5, <2>6
      <3>2. CASE ~(d = c /\ pc[c] = "waiting")
        BY <3>2, <2>5, <2>6
      <3> QED BY <3>1, <3>2
    <2> QED BY <1>t, <2>4, <2>8, <2>9
  <1>12. CASE UNCHANGED vars
    BY <1>12 DEF vars
  <1> QED
    BY <1>1, <1>2, <1>3, <1>4, <1>5, <1>6, <1>7, <1>8, <1>9, <1>10, <1>11,
       <1>12 DEF Next, CallStep, WorkerStep

\* The inductive invariant holds in every reachable state of Rpc, hence its
\* type invariant does.
THEOREM Invariance == Spec => []IInv
  BY InitIInv, NextIInv, PTL DEF Spec

\* No call returns while the request map still holds its entry, whatever the
\* race of responses, duplicates and timeouts (send_request_and_wait removes
\* the entry on both error paths, a worker on the successful one).
THEOREM EntriesNeverLeak == Spec => []NoLeakedEntry
  <1>1. IInv => NoLeakedEntry
    BY DEF IInv
  <1> QED BY <1>1, Invariance, PTL

\* A waiting call can always still be woken, and by one worker only.
THEOREM SenderSafe == Spec => [](SenderNotLost /\ SenderUnique)
  <1>1. IInv => SenderNotLost /\ SenderUnique
    BY DEF IInv
  <1> QED BY <1>1, Invariance, PTL

\* send_request_and_wait implements the caller's contract: what it returns is
\* an answer to this very request, and BadResponse is never returned.
THEOREM Refinement == Spec => ContractSpec
  <1>1. Init => Contract!Init
    BY DEF Init, Contract!Init
  <1>2. IInv /\ [Next]_vars => [Contract!Next]_Contract!vars
    <2> SUFFICES ASSUME IInv, [Next]_vars PROVE [Contract!Next]_Contract!vars
      OBVIOUS
    <2> USE DEF Contract!Next, Contract!vars
    <2>1. ASSUME NEW c \in Calls, ReceiverReady(c) PROVE Contract!Next
      <3>1. channel[c] # None /\ <<c, channel[c]>> \in answered
        BY <2>1 DEF ReceiverReady, IInv, SenderNotLost, CallInv
      <3>2. channel[c] \in Bodies
        BY <3>1 DEF IInv, TypeOK
      <3>3. outcome[c] = "none"
        BY <2>1 DEF ReceiverReady, IInv, CallInv
      <3>4. Contract!Succeed(c, channel[c])
        BY <2>1, <3>1, <3>3 DEF ReceiverReady, Contract!Succeed
      <3> QED BY <3>2, <3>4
    <2>2. ASSUME NEW c \in Calls, RemoveRequest(c) PROVE Contract!Next
      <3>1. outcome[c] = "none"
        BY <2>2 DEF RemoveRequest, IInv, CallInv
      <3>2. \E error \in {"unable_to_send", "timeout"} : Contract!Fail(c, error)
        BY <2>2, <3>1 DEF RemoveRequest, Contract!Fail
      <3> QED BY <3>2
    <2>3. ASSUME NEW c \in Calls, NEW b \in Bodies, PeerAnswers(c, b)
          PROVE Contract!Next
      BY <2>3 DEF PeerAnswers, Contract!Answer
    <2>4. ASSUME NEW c \in Calls,
                 AddRequest(c) \/ SendRequest(c) \/ SendFails(c) \/ TimeoutExpires(c)
          PROVE UNCHANGED Contract!vars
      BY <2>4 DEF AddRequest, SendRequest, SendFails, TimeoutExpires
    <2>5. ASSUME NEW r \in responses, LoseResponse(r) PROVE UNCHANGED Contract!vars
      BY <2>5 DEF LoseResponse
    <2>6. ASSUME NEW w \in Workers, NEW r \in responses, ContainsRequest(w, r)
          PROVE UNCHANGED Contract!vars
      BY <2>6 DEF ContainsRequest
    <2>7. ASSUME NEW w \in Workers, TakeRequest(w) \/ SendToChannel(w)
          PROVE UNCHANGED Contract!vars
      BY <2>7 DEF TakeRequest, SendToChannel
    <2>8. CASE UNCHANGED vars
      BY <2>8 DEF vars
    <2> QED
      BY <2>1, <2>2, <2>3, <2>4, <2>5, <2>6, <2>7, <2>8
         DEF Next, CallStep, WorkerStep
  <1> QED
    BY <1>1, <1>2, Invariance, PTL DEF Spec, ContractSpec, Contract!Spec
=============================================================================
