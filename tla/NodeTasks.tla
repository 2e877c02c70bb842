----------------------------- MODULE NodeTasks -----------------------------
(***************************************************************************)
(* The tasks of one running node and the lock they share: the UDP receive  *)
(* loop, the pool of receive workers with the request router, and the task *)
(* of the user's commands (src/src/core/node.rs start_listening, ping,     *)
(* join_network, find_node; src/src/core/request_handler.rs), composed     *)
(* with the routing table of module RoutingTable.                          *)
(*                                                                         *)
(* The table is behind one tokio::sync::RwLock.  Its queue is fair, first  *)
(* come first served.  A section of code without an await is one step, at  *)
(* the moment the lock is granted; the one await made under a write guard  *)
(* is the ping of a full bucket's head, and ping itself takes the read     *)
(* lock first.                                                             *)
(***************************************************************************)
EXTENDS RoutingTable

CONSTANTS Workers,       \* RECEIVE_WORKER_TASK_COUNT tasks
          User,          \* the task that runs the user's commands
          NoTask,        \* nobody
          Requests,      \* requests peers send: [from, to, kind, target]
          QueueCapacity, \* QUEUE_CAPACITY of the channel to the workers
          Alpha,         \* ALPHA, the initial resolvers of a lookup
          FitNodes,      \* how many NodeInfos fit into MAX_MESSAGE_SIZE
          MaxFound       \* bound: responsive nodes one lookup returns

RequestTypes == {"ping", "find_node", "find_value", "store", "get_port", "get_value"}

ASSUME TasksAssumption ==
    /\ User \notin Workers
    /\ NoTask \notin Workers \cup {User}
    /\ Requests \subseteq [from : Peers \cup {Self}, to : Key,
                           kind : RequestTypes, target : Key]
    /\ QueueCapacity \in Nat \ {0}
    /\ Alpha \in Nat \ {0}
    /\ FitNodes \in Nat
    /\ MaxFound \in Nat

Tasks == Workers \cup {User}

\* A Response datagram for the one request the user task may be waiting on.
AnswerToUser == [kind |-> "response"]
Messages == Requests \cup {AnswerToUser}

VARIABLES
    writer,    \* the task that holds the write guard across an await
    lockq,     \* the tasks queueing for the lock, first come first
    stage,     \* stage[t]: what task t is doing
    msg,       \* msg[w]: the message worker w is processing
    inbox,     \* the bounded channel from the receive loop to the workers
    network,   \* datagrams on their way to this node
    answered,  \* requests to which a response was sent
    op,        \* the user's command
    peer,      \* the node or key the command is about
    found      \* responsive nodes of the lookup still to be stored

taskVars == <<writer, lockq, stage, msg, inbox, network, answered, op, peer, found>>
vars == <<tableVars, taskVars>>

Stages == {"idle", "record", "handle", "closest", "sending",   \* workers
           "ping", "await", "lookup", "rounds",                \* the user task
           "join", "store", "evict"}

TypeOK ==
    /\ TableTypeOK
    /\ writer \in Tasks \cup {NoTask}
    /\ lockq \in Seq(Tasks)
    /\ stage \in [Tasks -> Stages]
    /\ msg \in [Workers -> Messages \cup {NoKey}]
    /\ inbox \in Seq(Messages) /\ Len(inbox) <= QueueCapacity
    /\ network \subseteq Messages
    /\ answered \subseteq Requests
    /\ op \in {"none", "ping", "find_node", "join"}
    /\ peer \in Key \cup {NoKey}
    /\ found \in Seq(Peers)

Init ==
    /\ TableInit
    /\ writer = NoTask
    /\ lockq = <<>>
    /\ stage = [t \in Tasks |-> "idle"]
    /\ msg = [w \in Workers |-> NoKey]
    /\ inbox = <<>>
    /\ network = Requests
    /\ answered = {}
    /\ op = "none"
    /\ peer = NoKey
    /\ found = <<>>

\* Mutant: the task that holds the write guard gets the lock again.
GrantedReentrant(t) == lockq # <<>> /\ Head(lockq) = t

\* The lock is granted to t: nobody holds it across an await, and t is first.
Granted(t) == writer = NoTask /\ lockq # <<>> /\ Head(lockq) = t

------------------------------------------------------------------------------
(* The receive loop. *)

\* Mutant: the channel to the workers is unbounded.
ReceiveUnbounded(m) ==
    /\ m \in network
    /\ network' = network \ {m}
    /\ inbox' = Append(inbox, m)
    /\ UNCHANGED <<tableVars, writer, lockq, stage, msg, answered, op, peer, found>>

\* recv_from, then tx.send: while the channel is full the loop waits and the
\* datagram is as good as in the network.
Receive(m) ==
    /\ m \in network
    /\ Len(inbox) < QueueCapacity
    /\ network' = network \ {m}
    /\ inbox' = Append(inbox, m)
    /\ UNCHANGED <<tableVars, writer, lockq, stage, msg, answered, op, peer, found>>

\* UDP may lose a datagram; here also what the kernel drops for lack of room.
Lose(m) ==
    /\ m \in network
    /\ network' = network \ {m}
    /\ UNCHANGED <<tableVars, writer, lockq, stage, msg, inbox, answered, op, peer,
                   found>>

------------------------------------------------------------------------------
(* The workers. *)

\* A worker takes the next message.  A response wakes the task that waits for
\* it, if it still does; a request for another node is ignored; any other
\* request first asks for the write lock, to record its sender.
TakeMessage(w) ==
    /\ stage[w] = "idle"
    /\ inbox # <<>>
    /\ inbox' = Tail(inbox)
    /\ LET m == Head(inbox) IN
       IF m = AnswerToUser
       THEN /\ stage' = IF stage[User] = "await"
                        THEN [stage EXCEPT ![User] = IF op = "join" THEN "rounds"
                                                     ELSE "idle"]
                        ELSE stage
            /\ UNCHANGED <<lockq, msg>>
       ELSE IF m.to # Self
       THEN UNCHANGED <<stage, lockq, msg>>
       ELSE /\ stage' = [stage EXCEPT ![w] = "record"]
            /\ lockq' = Append(lockq, w)
            /\ msg' = [msg EXCEPT ![w] = m]
    /\ UNCHANGED <<tableVars, writer, network, answered, op, peer, found>>

\* Mutant: the request is handled without recording its sender.
SkipRecordSender(w) ==
    /\ Granted(w)
    /\ stage[w] = "record"
    /\ stage' = [stage EXCEPT ![w] = "handle"]
    /\ lockq' = Tail(lockq)
    /\ UNCHANGED <<tableVars, writer, msg, inbox, network, answered, op, peer, found>>

\* Mutant: the sender is put into its bucket whether or not there is room.
AppendSender(w) ==
    /\ Granted(w)
    /\ stage[w] = "record"
    /\ msg[w].from # Self
    /\ buckets' = [buckets EXCEPT ![BucketIndex(Self, msg[w].from)] =
                                     Append(RemoveNodeinfo(@, msg[w].from), msg[w].from)]
    /\ stage' = [stage EXCEPT ![w] = "handle"]
    /\ lockq' = Tail(lockq)
    /\ UNCHANGED <<evicting, adding, writer, msg, inbox, network, answered, op, peer,
                   found>>

\* record_possible_neighbour; an error of store_nodeinfo (the sender claims the
\* id of this node) is only logged.
RecordSender(w) ==
    /\ Granted(w)
    /\ stage[w] = "record"
    /\ StoreNodeinfo(msg[w].from)
    /\ IF evicting' # NoKey
       THEN /\ writer' = w
            /\ stage' = [stage EXCEPT ![w] = "evict"]
            /\ lockq' = Append(Tail(lockq), w)
       ELSE /\ stage' = [stage EXCEPT ![w] = "handle"]
            /\ lockq' = Tail(lockq)
            /\ UNCHANGED writer
    /\ UNCHANGED <<msg, inbox, network, answered, op, peer, found>>

\* Worker w is done with its message.
Done(w) ==
    /\ stage' = [stage EXCEPT ![w] = "idle"]
    /\ msg' = [msg EXCEPT ![w] = NoKey]

\* The router awaits the handler, in the worker.  What the handler does to the chunk
\* store, and that it gets that lock, is in module ShardStorage; here the outcome is
\* open.  PING and STORE are answered; GET_PORT is, unless no listener can be had;
\* FIND_VALUE is, where the chunk is stored, and is else a FIND_NODE, which asks for
\* the read lock; GET_VALUE is never answered: without the chunk the handler returns,
\* with it the worker itself connects to the peer and writes to it.
HandleRequest(w) ==
    /\ stage[w] = "handle"
    /\ \/ /\ msg[w].kind \in {"ping", "store", "get_port", "find_value"}
          /\ Done(w)
          /\ answered' = answered \cup {msg[w]}
          /\ UNCHANGED lockq
       \/ /\ msg[w].kind \in {"get_port", "get_value"}
          /\ Done(w)
          /\ UNCHANGED <<answered, lockq>>
       \/ /\ msg[w].kind \in {"find_node", "find_value"}
          /\ stage' = [stage EXCEPT ![w] = "closest"]
          /\ lockq' = Append(lockq, w)
          /\ UNCHANGED <<answered, msg>>
       \/ /\ msg[w].kind = "get_value"
          /\ stage' = [stage EXCEPT ![w] = "sending"]
          /\ UNCHANGED <<answered, msg, lockq>>
    /\ UNCHANGED <<tableVars, writer, inbox, network, op, peer, found>>

\* The peer has taken the chunk, or the connection failed.  No timeout is set on the
\* write: it is up to the peer when, and whether, this happens.
SendEnds(w) ==
    /\ stage[w] = "sending"
    /\ Done(w)
    /\ UNCHANGED <<tableVars, writer, lockq, inbox, network, answered, op, peer, found>>

\* Mutant: the read guard is never given back.
AnswerKeepingLock(w) ==
    /\ Granted(w)
    /\ stage[w] = "closest"
    /\ Done(w)
    /\ answered' = answered \cup {msg[w]}
    /\ UNCHANGED <<tableVars, writer, lockq, inbox, network, op, peer, found>>

\* handle_find_node_message: the K closest nodes.  An error (the target is this
\* node, or the table is empty), or more nodes than fit into a message, means no
\* answer at all.
AnswerFindNode(w) ==
    /\ Granted(w)
    /\ stage[w] = "closest"
    /\ lockq' = Tail(lockq)
    /\ Done(w)
    /\ answered' = IF Cardinality(GetNClosest(msg[w].target, Capacity)) \in 1 .. FitNodes
                   THEN answered \cup {msg[w]} ELSE answered
    /\ UNCHANGED <<tableVars, writer, inbox, network, op, peer, found>>

------------------------------------------------------------------------------
(* The user task. *)

\* A command starts and queues for the lock its first section needs.
Command(o, k, first) ==
    /\ stage[User] = "idle"
    /\ op' = o
    /\ peer' = k
    /\ found' = <<>>
    /\ stage' = [stage EXCEPT ![User] = first]
    /\ lockq' = Append(lockq, User)
    /\ UNCHANGED <<tableVars, writer, msg, inbox, network, answered>>

PingCommand(k) == Command("ping", k, "ping")
FindNodeCommand(k) == Command("find_node", k, "lookup")
JoinCommand(beacon) == Command("join", beacon, "join")

\* The locked part of Node::ping: the read lock, and the node's address.  It
\* is reached by the user's commands, and by a task that pings the head of a
\* full bucket; that head is in the table no more, so the ping would fail with
\* PingMissingNode, keep neither node, and be logged (by the router and by
\* find_node, which goes on storing) or end the command (join_network).
PingLookup(t) ==
    /\ Granted(t)
    /\ stage[t] \in {"ping", "evict"}
    /\ lockq' = Tail(lockq)
    /\ IF stage[t] = "ping"
       THEN /\ stage' = [stage EXCEPT ![t] = IF KnowsNode(peer) THEN "await" ELSE "idle"]
            /\ UNCHANGED <<tableVars, writer>>
       ELSE /\ PingOfHeadReturns("other_error")
            /\ stage' = [stage EXCEPT ![t] = IF t # User THEN "handle"
                                             ELSE IF op = "join" THEN "idle" ELSE "store"]
            /\ writer' = IF stage'[t] = "store" THEN t ELSE NoTask
    /\ UNCHANGED <<msg, inbox, network, answered, op, peer, found>>

\* The pinged node answers (see Rpc for the request and response layer).
PeerAnswers ==
    /\ stage[User] = "await"
    /\ network' = network \cup {AnswerToUser}
    /\ UNCHANGED <<tableVars, writer, lockq, stage, msg, inbox, answered, op, peer,
                   found>>

\* Mutant: the answer to the ping is awaited without a timeout.
AwaitForEver == stage[User] = "await" /\ UNCHANGED vars

\* send_request_and_wait times out; the command fails.
AwaitTimesOut ==
    /\ stage[User] = "await"
    /\ stage' = [stage EXCEPT ![User] = "idle"]
    /\ UNCHANGED <<tableVars, writer, lockq, msg, inbox, network, answered, op, peer,
                   found>>

\* join_network records its beacon under the write lock, then pings it.
RecordBeacon ==
    /\ Granted(User)
    /\ stage[User] = "join"
    /\ StoreNodeinfo(peer)
    /\ IF evicting' # NoKey
       THEN /\ writer' = User
            /\ stage' = [stage EXCEPT ![User] = "evict"]
            /\ lockq' = Append(Tail(lockq), User)
       ELSE IF BucketIndex(Self, peer) = NoBucket
       THEN /\ stage' = [stage EXCEPT ![User] = "idle"]
            /\ lockq' = Tail(lockq)
            /\ UNCHANGED writer
       ELSE /\ stage' = [stage EXCEPT ![User] = "ping"]
            /\ lockq' = Append(Tail(lockq), User)
            /\ UNCHANGED writer
    /\ UNCHANGED <<msg, inbox, network, answered, op, peer, found>>

\* find_node takes its initial resolvers under the write lock, or fails.
LookupStarts ==
    /\ Granted(User)
    /\ stage[User] = "lookup"
    /\ lockq' = Tail(lockq)
    /\ stage' = [stage EXCEPT ![User] = IF GetNClosest(peer, Alpha) = {} THEN "idle"
                                        ELSE "rounds"]
    /\ UNCHANGED <<tableVars, writer, msg, inbox, network, answered, op, peer, found>>

\* The lookup rounds (module Lookup) yield responsive nodes; the task queues
\* for the write lock to record them.
RoundsEnd(nodes) ==
    /\ stage[User] = "rounds"
    /\ found' = nodes
    /\ stage' = [stage EXCEPT ![User] = "store"]
    /\ lockq' = Append(lockq, User)
    /\ UNCHANGED <<tableVars, writer, msg, inbox, network, answered, op, peer>>

\* join_network fails when its beacon does not answer the first FIND_NODE.
BeaconRefuses ==
    /\ stage[User] = "rounds"
    /\ op = "join"
    /\ stage' = [stage EXCEPT ![User] = "idle"]
    /\ UNCHANGED <<tableVars, writer, lockq, msg, inbox, network, answered, op, peer,
                   found>>

\* One turn of the loop that records the responsive nodes: the write guard is
\* kept from the first to the last of them.
StoreFound ==
    /\ stage[User] = "store"
    /\ writer = User \/ Granted(User)
    /\ IF found = <<>>
       THEN /\ writer' = NoTask
            /\ stage' = [stage EXCEPT ![User] = "idle"]
            /\ lockq' = IF writer = User THEN lockq ELSE Tail(lockq)
            /\ UNCHANGED <<tableVars, found>>
       ELSE /\ StoreNodeinfo(Head(found))
            /\ found' = Tail(found)
            /\ writer' = User
            /\ LET rest == IF writer = User THEN lockq ELSE Tail(lockq) IN
               IF evicting' # NoKey
               THEN /\ stage' = [stage EXCEPT ![User] = "evict"]
                    /\ lockq' = Append(rest, User)
               ELSE lockq' = rest /\ UNCHANGED stage
    /\ UNCHANGED <<msg, inbox, network, answered, op, peer>>

------------------------------------------------------------------------------
WorkerStep(w) ==
    \/ TakeMessage(w)
    \/ RecordSender(w)
    \/ HandleRequest(w)
    \/ AnswerFindNode(w)

UserStep ==
    \/ AwaitTimesOut
    \/ RecordBeacon
    \/ LookupStarts
    \/ BeaconRefuses
    \/ \E nodes \in {s \in BoundedSeq(Peers, MaxFound) : IsInjective(s)} : RoundsEnd(nodes)
    \/ StoreFound

Next ==
    \/ \E m \in network : Receive(m) \/ Lose(m)
    \/ \E w \in Workers : WorkerStep(w) \/ SendEnds(w)
    \/ \E t \in Tasks : PingLookup(t)
    \/ \E k \in Peers : PingCommand(k) \/ FindNodeCommand(k) \/ JoinCommand(k)
    \/ PeerAnswers
    \/ UserStep

Spec == Init /\ [][Next]_vars

\* Every task that can run is run (tokio), and the receive loop is one of them.
\* Nothing is assumed of the network, the peers or the user, so nothing of SendEnds.
Fairness ==
    /\ \A w \in Workers : WF_vars(WorkerStep(w) \/ PingLookup(w))
    /\ WF_vars(UserStep \/ PingLookup(User))

FairSpec == Spec /\ Fairness

------------------------------------------------------------------------------
(* Properties. *)

\* Whatever the tasks do to the table, under the lock and in the middle of a
\* ping, is what the routing table by itself allows.
TableRespected == TableSpec

\* A request is answered only when its sender has been recorded: from then on
\* the sender is in the table, or it is the head being evicted.
AnsweredAreKnown ==
    \A r \in answered :
        r.from # Self => r.from \in AllNodeinfos \cup {evicting}

\* Who waits for the lock: each task at most once, exactly the tasks in a stage
\* that needs it; a task keeps the write guard only to ping a head (and then it
\* is itself queueing for the lock it holds) or between two stores of a lookup.
LockDiscipline ==
    /\ \A i, j \in DOMAIN lockq : lockq[i] = lockq[j] => i = j
    /\ \A t \in Tasks :
         t \in ToSet(lockq) <=>
            \/ stage[t] \in {"record", "closest", "ping", "lookup", "join", "evict"}
            \/ stage[t] = "store" /\ writer # t
    /\ writer # NoTask => stage[writer] \in {"evict", "store"}
    /\ evicting # NoKey <=> \E t \in Tasks : stage[t] = "evict"
    /\ \A t \in Tasks : stage[t] = "evict" => writer = t

\* Once a task pings the head of a full bucket the table never changes again:
\* the write guard is never released, whoever waits for the lock waits on, and no
\* FIND_NODE is answered.
WedgeIsPermanent ==
    [][evicting # NoKey => /\ UNCHANGED <<tableVars, writer>>
                           /\ \A t \in ToSet(lockq) : stage'[t] = stage[t]
                           /\ \A r \in answered' \ answered : r.kind # "find_node"]_vars

Wedged == evicting # NoKey

\* Until a full bucket is met, the channel to the workers stays full only while every
\* one of them is writing a chunk to a peer, and no worker is held up for ever by the
\* message it took but by such a write.
MessagesHandled ==
    /\ Len(inbox) = QueueCapacity
         ~> \/ Len(inbox) < QueueCapacity
            \/ Wedged
            \/ \A w \in Workers : stage[w] = "sending"
    /\ \A w \in Workers :
         stage[w] \notin {"idle", "sending"} ~> stage[w] \in {"idle", "sending"} \/ Wedged

\* Until a full bucket is met, every command of the user comes to its end.
CommandsEnd == stage[User] # "idle" ~> stage[User] = "idle" \/ Wedged

\* Where a worker may be, and what the router knows there: it has a request, and
\* once the router handles it its sender is this node or one the table has met.
WorkersKnowSenders ==
    \A w \in Workers :
        /\ stage[w] \in {"idle", "record", "evict", "handle", "closest", "sending"}
        /\ stage[w] # "idle" => msg[w] \in Requests
        /\ stage[w] \in {"handle", "closest"} =>
              msg[w].from \in AllNodeinfos \cup {evicting, Self}

\* The inductive invariant: the buckets stay well formed under every interleaving
\* of the tasks, who may be where with the lock, and what a worker knows.
IInv ==
    /\ TypeOK
    /\ BucketsWellFormed
    /\ LockDiscipline
    /\ WorkersKnowSenders
    /\ stage[User] # "idle" => peer \in Peers
    /\ AnsweredAreKnown

\* What the comment on add_nodeinfo says of a full bucket: the head is pinged,
\* and then either it or the new node is put at the tail.
FullBucketResolved == evicting # NoKey ~> evicting = NoKey
=============================================================================
