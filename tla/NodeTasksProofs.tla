-------------------------- MODULE NodeTasksProofs --------------------------
(***************************************************************************)
(* The tasks of a node keep the discipline of the lock they share, do      *)
(* nothing to the routing table that the table by itself would not allow,  *)
(* answer only peers they have recorded, and never get out of the ping of  *)
(* a full bucket's head: for any number of workers, any requests, keys of  *)
(* any length and any bucket capacity.                                     *)
(***************************************************************************)
EXTENDS NodeTasks, RoutingTableProofs

\* The assumptions on the constants, as the provers use them.
LEMMA Distinct ==
  /\ Self \in Key /\ Peers \subseteq Key /\ NoKey \notin Key
  /\ User \in Tasks /\ User \notin Workers /\ NoTask \notin Tasks
  /\ Workers \subseteq Tasks
  /\ \A t \in Tasks : t \in Workers \/ t = User
  /\ QueueCapacity \in Nat
  /\ \A r \in Requests : r.from \in Peers \cup {Self} /\ r.from \in Key /\ r.target \in Key
  BY TableAssumption, TasksAssumption DEF Tasks

\* A queue in which nobody waits twice.
NoRepeats(q) == \A i, j \in DOMAIN q : q[i] = q[j] => i = j

\* A task is in a stage in which it waits for the lock.
Waits(t) ==
    \/ stage[t] \in {"record", "closest", "ping", "lookup", "join", "evict"}
    \/ stage[t] = "store" /\ writer # t

\* LockDiscipline in these words.
LEMMA Discipline ==
  LockDiscipline <=>
    /\ NoRepeats(lockq)
    /\ \A t \in Tasks : t \in ToSet(lockq) <=> Waits(t)
    /\ writer # NoTask => stage[writer] \in {"evict", "store"}
    /\ evicting # NoKey <=> \E t \in Tasks : stage[t] = "evict"
    /\ \A t \in Tasks : stage[t] = "evict" => writer = t
  BY DEF LockDiscipline, NoRepeats, Waits

\* A task that is not in the queue joins it at its end.
LEMMA Enqueue ==
  ASSUME NEW q \in Seq(Tasks), NoRepeats(q), NEW t \in Tasks, t \notin ToSet(q)
  PROVE  /\ Append(q, t) \in Seq(Tasks)
         /\ NoRepeats(Append(q, t))
         /\ ToSet(Append(q, t)) = ToSet(q) \cup {t}
  <1> DEFINE a == Append(q, t)
  <1>1. /\ a \in Seq(Tasks) /\ ToSet(a) = ToSet(q) \cup {t}
        /\ \A p \in DOMAIN a : \/ p \in DOMAIN q /\ a[p] = q[p]
                               \/ p = Len(q) + 1 /\ a[p] = t
    BY AppendElements
  <1> HIDE DEF a
  <1>2. \A p \in DOMAIN q : q[p] # t
    BY DEF ToSet
  <1>3. NoRepeats(a)
    BY <1>1, <1>2 DEF NoRepeats
  <1> QED BY <1>1, <1>3 DEF a

\* The first of a queue leaves it.
LEMMA Dequeue ==
  ASSUME NEW q \in Seq(Tasks), NoRepeats(q), q # <<>>
  PROVE  /\ Tail(q) \in Seq(Tasks)
         /\ NoRepeats(Tail(q))
         /\ Head(q) \in ToSet(q) /\ Head(q) \in Tasks
         /\ ToSet(Tail(q)) = ToSet(q) \ {Head(q)}
  <1> DEFINE r == Tail(q)
  <1>1. /\ Head(q) \in Tasks /\ r \in Seq(Tasks) /\ Len(r) = Len(q) - 1
        /\ Head(q) = q[1] /\ 1 \in DOMAIN q
        /\ \A p \in DOMAIN r : p + 1 \in DOMAIN q /\ p # 0 /\ r[p] = q[p + 1]
        /\ ToSet(q) = ToSet(r) \cup {Head(q)}
    BY TailElements
  <1>2. \A p \in DOMAIN r : p \in Nat /\ p # 0
    BY <1>1
  <1> HIDE DEF r
  <1>3. \A p \in DOMAIN r : r[p] # Head(q)
    BY <1>1, <1>2 DEF NoRepeats
  <1>4. NoRepeats(r)
    <2> SUFFICES ASSUME NEW i \in DOMAIN r, NEW j \in DOMAIN r, r[i] = r[j] PROVE i = j
      BY DEF NoRepeats
    <2>1. i + 1 = j + 1
      BY <1>1 DEF NoRepeats
    <2> QED BY <1>2, <2>1
  <1>5. Head(q) \notin ToSet(r)
    BY <1>3 DEF ToSet
  <1> QED BY <1>1, <1>4, <1>5 DEF r

\* What holds when the lock is granted: nobody pings a head.
LEMMA WhenGranted ==
  ASSUME TypeOK, LockDiscipline, NEW t, Granted(t)
  PROVE  /\ t \in Tasks /\ t \in ToSet(lockq) /\ lockq # <<>>
         /\ Tail(lockq) \in Seq(Tasks) /\ NoRepeats(Tail(lockq))
         /\ ToSet(Tail(lockq)) = ToSet(lockq) \ {t}
         /\ writer = NoTask
         /\ evicting = NoKey
         /\ \A u \in Tasks : stage[u] # "evict"
  <1>1. lockq \in Seq(Tasks) /\ NoRepeats(lockq) /\ lockq # <<>> /\ Head(lockq) = t
    BY Discipline DEF TypeOK, Granted
  <1>2. writer = NoTask /\ \A u \in Tasks : stage[u] # "evict"
    BY Discipline, Distinct DEF Granted
  <1>3. evicting = NoKey
    BY <1>2, Discipline
  <1> QED BY <1>1, <1>2, <1>3, Dequeue

\* The ping of a head returns in no step: the task that made it holds the lock it
\* waits for.
LEMMA PingOfHeadNeverReturns ==
  ASSUME TypeOK, LockDiscipline, NEW t \in Tasks, PingLookup(t)
  PROVE  /\ stage[t] = "ping"
         /\ lockq' = Tail(lockq)
         /\ stage' = [stage EXCEPT ![t] = IF KnowsNode(peer) THEN "await" ELSE "idle"]
         /\ UNCHANGED <<tableVars, writer, msg, inbox, network, answered, op, peer, found>>
  <1>1. stage[t] # "evict"
    BY WhenGranted DEF PingLookup
  <1> QED BY <1>1 DEF PingLookup

\* To the table a step does nothing, or it stores one of the peers.
LEMMA TableStep ==
  ASSUME TypeOK, LockDiscipline, WorkersKnowSenders, stage[User] # "idle" => peer \in Peers,
         [Next]_vars
  PROVE  UNCHANGED tableVars \/ \E key \in Peers : StoreNodeinfo(key)
  <1>1. ASSUME NEW w \in Workers, RecordSender(w)
        PROVE  UNCHANGED tableVars \/ \E key \in Peers : StoreNodeinfo(key)
    <2>1. StoreNodeinfo(msg[w].from) /\ msg[w].from \in Peers \cup {Self}
      BY <1>1, Distinct DEF RecordSender, WorkersKnowSenders
    <2>2. BucketIndex(Self, Self) = NoBucket
      BY Distinct, BucketIndexSound
    <2> QED BY <2>1, <2>2 DEF StoreNodeinfo
  <1>2. ASSUME RecordBeacon
        PROVE  \E key \in Peers : StoreNodeinfo(key)
    BY <1>2 DEF RecordBeacon
  <1>3. ASSUME StoreFound
        PROVE  UNCHANGED tableVars \/ \E key \in Peers : StoreNodeinfo(key)
    <2>1. CASE found = <<>>
      BY <1>3, <2>1 DEF StoreFound
    <2>2. CASE found # <<>>
      BY <1>3, <2>2 DEF StoreFound, TypeOK
    <2> QED BY <2>1, <2>2
  <1>4. ASSUME NEW t \in Tasks, PingLookup(t) PROVE UNCHANGED tableVars
    BY <1>4, PingOfHeadNeverReturns
  <1>5. ASSUME NEW m, Receive(m) \/ Lose(m) PROVE UNCHANGED tableVars
    BY <1>5 DEF Receive, Lose
  <1>6. ASSUME NEW w, \/ TakeMessage(w) \/ HandleRequest(w)
                       \/ AnswerFindNode(w) \/ SendEnds(w)
        PROVE  UNCHANGED tableVars
    BY <1>6 DEF TakeMessage, HandleRequest, AnswerFindNode, SendEnds
  <1>7. ASSUME NEW k, PingCommand(k) \/ FindNodeCommand(k) \/ JoinCommand(k)
        PROVE  UNCHANGED tableVars
    BY <1>7 DEF PingCommand, FindNodeCommand, JoinCommand, Command
  <1>8. ASSUME PeerAnswers \/ AwaitTimesOut \/ LookupStarts \/ BeaconRefuses
        PROVE  UNCHANGED tableVars
    BY <1>8 DEF PeerAnswers, AwaitTimesOut, LookupStarts, BeaconRefuses
  <1>9. ASSUME NEW nodes, RoundsEnd(nodes) PROVE UNCHANGED tableVars
    BY <1>9 DEF RoundsEnd
  <1>10. CASE UNCHANGED vars
    BY <1>10 DEF vars
  <1> QED BY <1>1, <1>2, <1>3, <1>4, <1>5, <1>6, <1>7, <1>8, <1>9, <1>10
          DEF Next, WorkerStep, UserStep

\* So the buckets stay well formed under every interleaving, and nobody whom the
\* table has met is forgotten.
LEMMA TableStays ==
  ASSUME BucketsWellFormed, UNCHANGED tableVars \/ \E key \in Peers : StoreNodeinfo(key)
  PROVE  /\ BucketsWellFormed'
         /\ \A x \in Key : x \in AllNodeinfos \cup {evicting} =>
                               x \in AllNodeinfos' \cup {evicting'}
  <1>1. CASE UNCHANGED tableVars
    <2>1. BucketsWellFormed'
      BY <1>1 DEF tableVars, BucketsWellFormed, TableTypeOK, Placement, NoDuplicates,
                  WithinCapacity
    <2>2. AllNodeinfos' = AllNodeinfos /\ evicting' = evicting
      BY <1>1 DEF tableVars, AllNodeinfos, NodesIn
    <2> QED BY <2>1, <2>2
  <1>2. ASSUME NEW key \in Peers, StoreNodeinfo(key)
        PROVE  /\ BucketsWellFormed'
               /\ \A x \in Key : x \in AllNodeinfos \cup {evicting} =>
                                     x \in AllNodeinfos' \cup {evicting'}
    <2>1. evicting = NoKey /\ NoKey \notin Key /\ key \in Key
      BY <1>2, Distinct DEF StoreNodeinfo
    <2>2. AllNodeinfos \subseteq AllNodeinfos' \cup {evicting'}
      BY <1>2, <2>1, StoreForgetsNobody
    <2> QED BY <1>2, <2>1, <2>2, StoreWellFormed
  <1> QED BY <1>1, <1>2

\* The types.
LEMMA NextTypeOK ==
  ASSUME TypeOK, LockDiscipline, WorkersKnowSenders, BucketsWellFormed',
         [Next]_vars
  PROVE  TypeOK'
  <1> USE Distinct
  <1>0. TableTypeOK'
    BY DEF BucketsWellFormed
  <1>1. ASSUME NEW m \in network, Receive(m) PROVE TypeOK'
    <2>1. m \in Messages
      BY DEF TypeOK
    <2>2. inbox' \in Seq(Messages) /\ Len(inbox') = Len(inbox) + 1
      BY <1>1, <2>1 DEF Receive, TypeOK
    <2>3. Len(inbox') <= QueueCapacity
      BY <1>1, <2>2 DEF Receive, TypeOK
    <2> QED BY <1>0, <1>1, <2>2, <2>3 DEF Receive, TypeOK
  <1>2. ASSUME NEW m \in network, Lose(m) PROVE TypeOK'
    BY <1>0, <1>2 DEF Lose, TypeOK
  <1>3. ASSUME NEW w \in Workers, TakeMessage(w) PROVE TypeOK'
    <2> DEFINE m == Head(inbox)
    <2>1. m \in Messages /\ inbox' \in Seq(Messages) /\ Len(inbox') = Len(inbox) - 1
      BY <1>3 DEF TakeMessage, TypeOK
    <2>2. Len(inbox') <= QueueCapacity
      BY <1>3, <2>1 DEF TakeMessage, TypeOK
    <2> HIDE DEF m
    <2>3. stage' \in [Tasks -> Stages]
      BY <1>3, <2>1 DEF TakeMessage, TypeOK, Stages
    <2>4. lockq' \in Seq(Tasks)
      <3>1. lockq' = lockq \/ lockq' = Append(lockq, w)
        BY <1>3 DEF TakeMessage
      <3>2. w \in Tasks /\ lockq \in Seq(Tasks)
        BY DEF TypeOK
      <3> QED BY <3>1, <3>2
    <2>5. msg' \in [Workers -> Messages \cup {NoKey}]
      BY <1>3, <2>1 DEF TakeMessage, TypeOK, m
    <2> QED BY <1>0, <1>3, <2>1, <2>2, <2>3, <2>4, <2>5 DEF TakeMessage, TypeOK
  <1>4. ASSUME NEW w \in Workers, RecordSender(w) PROVE TypeOK'
    <2>1. Tail(lockq) \in Seq(Tasks)
      BY <1>4, WhenGranted DEF RecordSender
    <2>2. Append(Tail(lockq), w) \in Seq(Tasks)
      BY <2>1
    <2> QED BY <1>0, <1>4, <2>1, <2>2 DEF RecordSender, TypeOK, Stages
  <1>5. ASSUME NEW w \in Workers, HandleRequest(w) PROVE TypeOK'
    <2>1. msg[w] \in Requests
      BY <1>5 DEF HandleRequest, WorkersKnowSenders
    <2>2. Append(lockq, w) \in Seq(Tasks)
      BY DEF TypeOK
    <2> QED BY <1>0, <1>5, <2>1, <2>2 DEF HandleRequest, Done, TypeOK, Stages
  <1>6. ASSUME NEW w \in Workers, AnswerFindNode(w) PROVE TypeOK'
    <2>1. msg[w] \in Requests
      BY <1>6 DEF AnswerFindNode, WorkersKnowSenders
    <2>2. Tail(lockq) \in Seq(Tasks)
      BY <1>6, WhenGranted DEF AnswerFindNode
    <2>3. answered' \subseteq Requests
      BY <1>6, <2>1 DEF AnswerFindNode, TypeOK
    <2> QED BY <1>0, <1>6, <2>2, <2>3 DEF AnswerFindNode, Done, TypeOK, Stages
  <1>7. ASSUME NEW t \in Tasks, PingLookup(t) PROVE TypeOK'
    <2>1. Tail(lockq) \in Seq(Tasks)
      BY <1>7, WhenGranted DEF PingLookup
    <2> QED BY <1>0, <1>7, <2>1, PingOfHeadNeverReturns DEF TypeOK, Stages
  <1>8. ASSUME NEW k \in Peers, PingCommand(k) \/ FindNodeCommand(k) \/ JoinCommand(k)
        PROVE  TypeOK'
    <2>1. PICK o \in {"ping", "find_node", "join"}, first \in {"ping", "lookup", "join"} :
            Command(o, k, first)
      BY <1>8 DEF PingCommand, FindNodeCommand, JoinCommand
    <2>2. Append(lockq, User) \in Seq(Tasks)
      BY DEF TypeOK
    <2> QED BY <1>0, <2>1, <2>2 DEF Command, TypeOK, Stages
  <1>9. CASE PeerAnswers \/ AwaitTimesOut \/ BeaconRefuses
    <2>1. network' \subseteq Messages
      BY <1>9 DEF PeerAnswers, AwaitTimesOut, BeaconRefuses, TypeOK, Messages
    <2>2. stage' \in [Tasks -> Stages]
      BY <1>9 DEF PeerAnswers, AwaitTimesOut, BeaconRefuses, TypeOK, Stages
    <2>3. UNCHANGED <<writer, lockq, msg, inbox, answered, op, peer, found>>
      BY <1>9 DEF PeerAnswers, AwaitTimesOut, BeaconRefuses
    <2> QED BY <1>0, <2>1, <2>2, <2>3 DEF TypeOK
  <1>10. CASE RecordBeacon
    <2>1. Tail(lockq) \in Seq(Tasks)
      BY <1>10, WhenGranted DEF RecordBeacon
    <2>2. Append(Tail(lockq), User) \in Seq(Tasks)
      BY <2>1
    <2> QED BY <1>0, <1>10, <2>1, <2>2 DEF RecordBeacon, TypeOK, Stages
  <1>11. CASE LookupStarts
    <2>1. Tail(lockq) \in Seq(Tasks)
      BY <1>11, WhenGranted DEF LookupStarts
    <2> QED BY <1>0, <1>11, <2>1 DEF LookupStarts, TypeOK, Stages
  <1>12. ASSUME NEW nodes \in BoundedSeq(Peers, MaxFound), RoundsEnd(nodes) PROVE TypeOK'
    <2>1. nodes \in Seq(Peers)
      BY TasksAssumption DEF BoundedSeq, SeqOf
    <2> QED BY <1>0, <1>12, <2>1 DEF RoundsEnd, TypeOK, Stages
  <1>13. CASE StoreFound
    <2> DEFINE rest == IF writer = User THEN lockq ELSE Tail(lockq)
    <2>1. rest \in Seq(Tasks)
      BY <1>13, WhenGranted DEF StoreFound, TypeOK
    <2>2. Append(rest, User) \in Seq(Tasks)
      BY <2>1
    <2>3. found = <<>> \/ Tail(found) \in Seq(Peers)
      BY DEF TypeOK
    <2>4. lockq' = rest \/ lockq' = Append(rest, User)
      BY <1>13 DEF StoreFound
    <2> HIDE DEF rest
    <2>5. found' \in Seq(Peers)
      BY <1>13, <2>3 DEF StoreFound, TypeOK
    <2>6. stage' \in [Tasks -> Stages]
      BY <1>13 DEF StoreFound, TypeOK, Stages
    <2>7. writer' \in Tasks \cup {NoTask}
      BY <1>13 DEF StoreFound
    <2>8. UNCHANGED <<msg, inbox, network, answered, op, peer>>
      BY <1>13 DEF StoreFound
    <2> QED BY <1>0, <2>1, <2>2, <2>4, <2>5, <2>6, <2>7, <2>8 DEF TypeOK
  <1>14. CASE UNCHANGED vars
    BY <1>0, <1>14 DEF vars, taskVars, TypeOK
  <1>15. ASSUME NEW w \in Workers, SendEnds(w) PROVE TypeOK'
    BY <1>0, <1>15 DEF SendEnds, Done, TypeOK, Stages
  <1> QED BY <1>1, <1>2, <1>3, <1>4, <1>5, <1>6, <1>7, <1>8, <1>9, <1>10, <1>11, <1>12,
             <1>13, <1>14, <1>15 DEF Next, WorkerStep, UserStep

\* The same for a step, from what happened to the queue and to the stages.
LEMMA DisciplineAfter ==
  ASSUME NoRepeats(lockq'),
         \A t \in Tasks : t \in ToSet(lockq') <=> Waits(t)',
         writer' # NoTask => stage'[writer'] \in {"evict", "store"},
         evicting' # NoKey <=> \E t \in Tasks : stage'[t] = "evict",
         \A t \in Tasks : stage'[t] = "evict" => writer' = t
  PROVE  LockDiscipline'
  BY DEF LockDiscipline, NoRepeats, Waits

\* A task in a stage without the lock goes to another one without it.
LEMMA MovesFreely ==
  ASSUME TypeOK, LockDiscipline, NEW t \in Tasks, NEW x \in {"idle", "await", "rounds", "handle", "sending"},
         stage[t] \in {"idle", "await", "rounds", "handle", "sending"},
         stage' = [stage EXCEPT ![t] = x], UNCHANGED <<lockq, writer, evicting>>
  PROVE  LockDiscipline'
  <1> USE Distinct
  <1>1. stage \in [Tasks -> Stages]
    BY DEF TypeOK
  <1>2. NoRepeats(lockq')
    BY Discipline
  <1>3. \A u \in Tasks : u \in ToSet(lockq') <=> Waits(u)'
    BY <1>1, Discipline DEF Waits
  <1>4. /\ writer' # NoTask => stage'[writer'] \in {"evict", "store"}
        /\ \A u \in Tasks : stage'[u] = "evict" => writer' = u
        /\ evicting' # NoKey <=> \E u \in Tasks : stage'[u] = "evict"
    BY <1>1, Discipline
  <1> QED BY <1>2, <1>3, <1>4, DisciplineAfter

\* A task in a stage without the lock queues for it.
LEMMA StartsToWait ==
  ASSUME TypeOK, LockDiscipline, NEW t \in Tasks,
         NEW x \in {"record", "closest", "ping", "lookup", "join", "store"},
         stage[t] \in {"idle", "await", "rounds", "handle", "sending"},
         stage' = [stage EXCEPT ![t] = x], lockq' = Append(lockq, t),
         UNCHANGED <<writer, evicting>>
  PROVE  LockDiscipline'
  <1> USE Distinct
  <1>1. stage \in [Tasks -> Stages] /\ lockq \in Seq(Tasks)
    BY DEF TypeOK
  <1>2. t \notin ToSet(lockq) /\ NoRepeats(lockq) /\ writer # t
    BY Discipline DEF Waits
  <1>3. NoRepeats(lockq') /\ ToSet(lockq') = ToSet(lockq) \cup {t}
    BY <1>1, <1>2, Enqueue
  <1>4. \A u \in Tasks : u \in ToSet(lockq') <=> Waits(u)'
    BY <1>1, <1>2, <1>3, Discipline DEF Waits
  <1>5. /\ writer' # NoTask => stage'[writer'] \in {"evict", "store"}
        /\ \A u \in Tasks : stage'[u] = "evict" => writer' = u
        /\ evicting' # NoKey <=> \E u \in Tasks : stage'[u] = "evict"
    BY <1>1, Discipline
  <1> QED BY <1>3, <1>4, <1>5, DisciplineAfter

\* A task is granted the lock for one section and gives it back.
LEMMA HasBeenGranted ==
  ASSUME TypeOK, LockDiscipline, NEW t \in Tasks, Granted(t),
         NEW x \in {"idle", "await", "rounds", "handle", "sending"},
         stage' = [stage EXCEPT ![t] = x], lockq' = Tail(lockq),
         UNCHANGED writer, evicting' = NoKey
  PROVE  LockDiscipline'
  <1> USE Distinct
  <1>1. stage \in [Tasks -> Stages]
    BY DEF TypeOK
  <1>2. /\ NoRepeats(lockq') /\ ToSet(lockq') = ToSet(lockq) \ {t}
        /\ writer = NoTask /\ \A u \in Tasks : stage[u] # "evict"
    BY WhenGranted
  <1>3. \A u \in Tasks : u \in ToSet(lockq') <=> Waits(u)'
    BY <1>1, <1>2, Discipline DEF Waits
  <1>4. /\ writer' = NoTask
        /\ \A u \in Tasks : stage'[u] # "evict"
    BY <1>1, <1>2
  <1> QED BY <1>2, <1>3, <1>4, DisciplineAfter

\* A task is granted the lock and, having used it, queues for it again: to ping the
\* head of a full bucket, with the write guard in its hand, or to ping its beacon.
LEMMA WaitsAgain ==
  ASSUME TypeOK, LockDiscipline, NEW t \in Tasks, Granted(t),
         lockq' = Append(Tail(lockq), t),
         \/ /\ stage' = [stage EXCEPT ![t] = "evict"]
            /\ writer' = t
            /\ evicting' # NoKey
         \/ /\ stage' = [stage EXCEPT ![t] = "ping"]
            /\ writer' = writer
            /\ evicting' = NoKey
  PROVE  LockDiscipline'
  <1> USE Distinct
  <1>1. stage \in [Tasks -> Stages]
    BY DEF TypeOK
  <1>2. /\ Tail(lockq) \in Seq(Tasks) /\ NoRepeats(Tail(lockq)) /\ t \in ToSet(lockq)
        /\ ToSet(Tail(lockq)) = ToSet(lockq) \ {t}
        /\ writer = NoTask /\ \A u \in Tasks : stage[u] # "evict"
    BY WhenGranted
  <1>3. NoRepeats(lockq') /\ ToSet(lockq') = ToSet(Tail(lockq)) \cup {t}
    <2>1. t \notin ToSet(Tail(lockq))
      BY <1>2
    <2> QED BY <1>2, <2>1, Enqueue
  <1>4. \A u \in Tasks : u \in ToSet(lockq') <=> Waits(u)'
    BY <1>1, <1>2, <1>3, Discipline DEF Waits
  <1>5. /\ writer' # NoTask => stage'[writer'] \in {"evict", "store"}
        /\ \A u \in Tasks : stage'[u] = "evict" => writer' = u
        /\ evicting' # NoKey <=> \E u \in Tasks : stage'[u] = "evict"
    BY <1>1, <1>2
  <1> QED BY <1>3, <1>4, <1>5, DisciplineAfter

\* The loop that records the nodes of a lookup, under one write guard.
LEMMA StoreFoundKeepsDiscipline ==
  ASSUME TypeOK, LockDiscipline, StoreFound
  PROVE  LockDiscipline'
  <1> USE Distinct
  <1> DEFINE rest == IF writer = User THEN lockq ELSE Tail(lockq)
  <1>1. stage \in [Tasks -> Stages] /\ lockq \in Seq(Tasks) /\ stage[User] = "store"
    BY DEF TypeOK, StoreFound
  <1>2. /\ rest \in Seq(Tasks) /\ NoRepeats(rest) /\ ToSet(rest) = ToSet(lockq) \ {User}
        /\ writer \in {User, NoTask}
        /\ \A u \in Tasks : stage[u] # "evict"
    <2>1. CASE writer = User
      BY <1>1, <2>1, Discipline DEF Waits
    <2>2. CASE writer # User
      BY <2>2, WhenGranted DEF StoreFound
    <2> QED BY <2>1, <2>2
  <1>3. evicting = NoKey
    BY <1>2, Discipline
  <1>4. CASE found = <<>>
    <2>1. /\ lockq' = rest /\ writer' = NoTask /\ evicting' = evicting
          /\ stage' = [stage EXCEPT ![User] = "idle"]
      BY <1>4 DEF StoreFound, tableVars
    <2> HIDE DEF rest
    <2>2. \A u \in Tasks : u \in ToSet(lockq') <=> Waits(u)'
      BY <1>1, <1>2, <2>1, Discipline DEF Waits
    <2>3. \A u \in Tasks : stage'[u] # "evict"
      BY <1>1, <1>2, <2>1
    <2> QED BY <1>2, <1>3, <2>1, <2>2, <2>3, DisciplineAfter
  <1>5. CASE found # <<>> /\ evicting' # NoKey
    <2>1. /\ lockq' = Append(rest, User) /\ writer' = User
          /\ stage' = [stage EXCEPT ![User] = "evict"]
      BY <1>5 DEF StoreFound
    <2> HIDE DEF rest
    <2>2. NoRepeats(lockq') /\ ToSet(lockq') = ToSet(lockq) \cup {User}
      BY <1>2, <2>1, Enqueue
    <2>3. \A u \in Tasks : u \in ToSet(lockq') <=> Waits(u)'
      BY <1>1, <1>2, <2>1, <2>2, Discipline DEF Waits
    <2>4. \A u \in Tasks : stage'[u] = "evict" <=> u = User
      BY <1>1, <1>2, <2>1
    <2> QED BY <1>5, <2>1, <2>2, <2>3, <2>4, DisciplineAfter
  <1>6. CASE found # <<>> /\ evicting' = NoKey
    <2>1. lockq' = rest /\ writer' = User /\ stage' = stage
      BY <1>6 DEF StoreFound
    <2> HIDE DEF rest
    <2>2. \A u \in Tasks : u \in ToSet(lockq') <=> Waits(u)'
      BY <1>1, <1>2, <2>1, Discipline DEF Waits
    <2>3. stage'[User] = "store" /\ \A u \in Tasks : stage'[u] # "evict"
      BY <1>1, <1>2, <2>1
    <2> QED BY <1>2, <1>6, <2>1, <2>2, <2>3, DisciplineAfter
  <1> QED BY <1>4, <1>5, <1>6

\* Every step keeps the discipline of the lock.
LEMMA NextDiscipline ==
  ASSUME TypeOK, LockDiscipline, WorkersKnowSenders, [Next]_vars
  PROVE  LockDiscipline'
  <1> USE Distinct
  <1>1. ASSUME UNCHANGED <<stage, lockq, writer, evicting>> PROVE LockDiscipline'
    BY <1>1 DEF LockDiscipline
  <1>2. ASSUME NEW m, Receive(m) \/ Lose(m) PROVE LockDiscipline'
    BY <1>1, <1>2 DEF Receive, Lose, tableVars
  <1>3. ASSUME NEW w \in Workers, TakeMessage(w) PROVE LockDiscipline'
    <2>1. UNCHANGED <<writer, evicting>> /\ stage[w] = "idle"
      BY <1>3 DEF TakeMessage, tableVars
    <2>2. CASE /\ stage[User] = "await" /\ lockq' = lockq
               /\ stage' = [stage EXCEPT ![User] = IF op = "join" THEN "rounds" ELSE "idle"]
      BY <2>1, <2>2, MovesFreely
    <2>3. CASE stage' = stage /\ lockq' = lockq
      BY <1>1, <2>1, <2>3
    <2>4. CASE stage' = [stage EXCEPT ![w] = "record"] /\ lockq' = Append(lockq, w)
      BY <2>1, <2>4, StartsToWait
    <2> QED BY <1>3, <2>2, <2>3, <2>4 DEF TakeMessage
  <1>4. ASSUME NEW w \in Workers, RecordSender(w) PROVE LockDiscipline'
    <2>1. CASE evicting' # NoKey
      BY <1>4, <2>1, WaitsAgain DEF RecordSender
    <2>2. CASE evicting' = NoKey
      BY <1>4, <2>2, HasBeenGranted DEF RecordSender
    <2> QED BY <2>1, <2>2
  <1>5. ASSUME NEW w \in Workers, HandleRequest(w) PROVE LockDiscipline'
    <2>1. CASE stage'[w] # "closest" /\ lockq' = lockq
      <3>1. PICK x \in {"idle", "sending"} : stage' = [stage EXCEPT ![w] = x]
        BY <1>5, <2>1 DEF HandleRequest, Done, TypeOK
      <3> QED BY <1>5, <2>1, <3>1, MovesFreely DEF HandleRequest, tableVars
    <2>2. CASE stage' = [stage EXCEPT ![w] = "closest"] /\ lockq' = Append(lockq, w)
      BY <1>5, <2>2, StartsToWait DEF HandleRequest, tableVars
    <2> QED BY <1>5, <2>1, <2>2 DEF HandleRequest, Done, TypeOK
  <1>6. ASSUME NEW w \in Workers, AnswerFindNode(w) PROVE LockDiscipline'
    BY <1>6, WhenGranted, HasBeenGranted DEF AnswerFindNode, Done, tableVars
  <1>7. ASSUME NEW t \in Tasks, PingLookup(t) PROVE LockDiscipline'
    <2>1. Granted(t) /\ evicting = NoKey
      BY <1>7, WhenGranted DEF PingLookup
    <2> QED BY <1>7, <2>1, PingOfHeadNeverReturns, HasBeenGranted DEF tableVars
  <1>8. ASSUME NEW k, PingCommand(k) \/ FindNodeCommand(k) \/ JoinCommand(k)
        PROVE  LockDiscipline'
    <2>1. PICK o \in {"ping", "find_node", "join"}, first \in {"ping", "lookup", "join"} :
            Command(o, k, first)
      BY <1>8 DEF PingCommand, FindNodeCommand, JoinCommand
    <2> QED BY <2>1, StartsToWait DEF Command, tableVars
  <1>9. CASE PeerAnswers
    BY <1>1, <1>9 DEF PeerAnswers, tableVars
  <1>10. CASE AwaitTimesOut \/ BeaconRefuses
    BY <1>10, MovesFreely DEF AwaitTimesOut, BeaconRefuses, tableVars
  <1>11. CASE RecordBeacon
    <2>1. CASE evicting' # NoKey
      BY <1>11, <2>1, WaitsAgain DEF RecordBeacon
    <2>2. CASE evicting' = NoKey /\ BucketIndex(Self, peer) = NoBucket
      BY <1>11, <2>2, HasBeenGranted DEF RecordBeacon
    <2>3. CASE evicting' = NoKey /\ BucketIndex(Self, peer) # NoBucket
      BY <1>11, <2>3, WaitsAgain DEF RecordBeacon
    <2> QED BY <2>1, <2>2, <2>3
  <1>12. CASE LookupStarts
    BY <1>12, WhenGranted, HasBeenGranted DEF LookupStarts, tableVars
  <1>13. ASSUME NEW nodes, RoundsEnd(nodes) PROVE LockDiscipline'
    BY <1>13, StartsToWait DEF RoundsEnd, tableVars
  <1>14. CASE StoreFound
    BY <1>14, StoreFoundKeepsDiscipline
  <1>15. CASE UNCHANGED vars
    BY <1>1, <1>15 DEF vars, tableVars, taskVars
  <1>16. ASSUME NEW w \in Workers, SendEnds(w) PROVE LockDiscipline'
    BY <1>16, MovesFreely DEF SendEnds, Done, tableVars
  <1> QED BY <1>2, <1>3, <1>4, <1>5, <1>6, <1>7, <1>8, <1>9, <1>10, <1>11, <1>12,
             <1>13, <1>14, <1>15, <1>16 DEF Next, WorkerStep, UserStep

\* The workers know the senders of the requests they handle.
LEMMA NextSenders ==
  ASSUME IInv, [Next]_vars
  PROVE  WorkersKnowSenders'
  <1> USE Distinct
  <1> DEFINE Knows(r) == r.from \in AllNodeinfos \cup {evicting, Self}
  <1>1. stage \in [Tasks -> Stages] /\ msg \in [Workers -> Messages \cup {NoKey}]
    BY DEF IInv, TypeOK
  <1>2. \A r \in Requests : Knows(r) => Knows(r)'
    BY TableStep, TableStays DEF IInv
  <1> DEFINE Good(w) == /\ stage[w] \in {"idle", "record", "evict", "handle", "closest",
                                          "sending"}
                        /\ stage[w] # "idle" => msg[w] \in Requests
                        /\ stage[w] \in {"handle", "closest"} => Knows(msg[w])
  <1>3. \A w \in Workers : Good(w)
    BY DEF IInv, WorkersKnowSenders
  <1>4. ASSUME NEW w \in Workers, stage'[w] = stage[w], msg'[w] = msg[w] PROVE Good(w)'
    BY <1>2, <1>3, <1>4
  <1> HIDE DEF Knows
  <1>5. SUFFICES \A w \in Workers : Good(w)'
    BY DEF WorkersKnowSenders, Knows
  <1>6. ASSUME NEW w \in Workers, TakeMessage(w) PROVE \A v \in Workers : Good(v)'
    <2>1. Head(inbox) \in Messages
      BY <1>6 DEF IInv, TypeOK, TakeMessage
    <2>2. CASE msg' = msg /\ (stage' = stage \/ \E x : stage' = [stage EXCEPT ![User] = x])
      BY <1>1, <1>4, <2>2
    <2>3. CASE /\ Head(inbox) # AnswerToUser
               /\ stage' = [stage EXCEPT ![w] = "record"]
               /\ msg' = [msg EXCEPT ![w] = Head(inbox)]
      <3>1. Head(inbox) \in Requests
        BY <2>1, <2>3 DEF Messages
      <3>2. Good(w)'
        BY <1>1, <2>3, <3>1
      <3>3. \A v \in Workers \ {w} : stage'[v] = stage[v] /\ msg'[v] = msg[v]
        BY <1>1, <2>3
      <3> QED BY <1>4, <3>2, <3>3
    <2> QED BY <1>6, <2>2, <2>3 DEF TakeMessage
  <1>7. ASSUME NEW w \in Workers, RecordSender(w) PROVE \A v \in Workers : Good(v)'
    <2>1. msg' = msg /\ msg[w] \in Requests /\ StoreNodeinfo(msg[w].from)
      BY <1>3, <1>7 DEF RecordSender
    <2>2. evicting' = NoKey => Knows(msg[w])'
      BY <2>1, StoreForgetsNobody DEF IInv, Knows
    <2>3. Good(w)'
      <3>1. CASE evicting' # NoKey
        BY <1>1, <1>7, <2>1, <3>1 DEF RecordSender
      <3>2. CASE evicting' = NoKey
        <4>1. stage'[w] = "handle" /\ msg'[w] = msg[w] /\ Knows(msg[w])'
          BY <1>1, <1>7, <2>1, <2>2, <3>2 DEF RecordSender
        <4> QED BY <2>1, <4>1 DEF Knows
      <3> QED BY <3>1, <3>2
    <2>4. \A v \in Workers \ {w} : stage'[v] = stage[v] /\ msg'[v] = msg[v]
      BY <1>1, <1>7, <2>1 DEF RecordSender
    <2> QED BY <1>4, <2>3, <2>4
  <1>8. ASSUME NEW w \in Workers, HandleRequest(w) PROVE \A v \in Workers : Good(v)'
    <2>1. \A v \in Workers \ {w} : stage'[v] = stage[v] /\ msg'[v] = msg[v]
      BY <1>1, <1>8 DEF HandleRequest, Done
    <2>2. stage[w] = "handle" /\ msg[w] \in Requests /\ Knows(msg[w])
      BY <1>3, <1>8 DEF HandleRequest
    <2>3. stage'[w] = "idle" \/ (stage'[w] \in {"closest", "sending"} /\ msg'[w] = msg[w])
      BY <1>1, <1>8 DEF HandleRequest, Done
    <2>4. Good(w)'
      BY <1>2, <2>2, <2>3 DEF Knows
    <2> QED BY <1>4, <2>1, <2>4
  <1>9. ASSUME NEW w \in Workers, AnswerFindNode(w) \/ SendEnds(w)
        PROVE  \A v \in Workers : Good(v)'
    <2>1. \A v \in Workers \ {w} : stage'[v] = stage[v] /\ msg'[v] = msg[v]
      BY <1>1, <1>9 DEF AnswerFindNode, SendEnds, Done
    <2>2. stage'[w] = "idle"
      BY <1>1, <1>9 DEF AnswerFindNode, SendEnds, Done
    <2> QED BY <1>4, <2>1, <2>2
  <1>10. ASSUME NEW t \in Tasks, PingLookup(t) PROVE \A v \in Workers : Good(v)'
    <2>1. /\ stage[t] = "ping" /\ msg' = msg
          /\ \E x : stage' = [stage EXCEPT ![t] = x]
      BY <1>10, PingOfHeadNeverReturns DEF IInv
    <2>2. t = User
      BY <1>3, <2>1
    <2> QED BY <1>1, <1>4, <2>1, <2>2
  <1>11. ASSUME msg' = msg, stage' = stage \/ \E x : stage' = [stage EXCEPT ![User] = x]
         PROVE  \A v \in Workers : Good(v)'
    BY <1>1, <1>4, <1>11
  <1>12. ASSUME NEW m, Receive(m) \/ Lose(m) PROVE \A v \in Workers : Good(v)'
    BY <1>11, <1>12 DEF Receive, Lose
  <1>13. ASSUME NEW k, PingCommand(k) \/ FindNodeCommand(k) \/ JoinCommand(k)
         PROVE  \A v \in Workers : Good(v)'
    BY <1>11, <1>13 DEF PingCommand, FindNodeCommand, JoinCommand, Command
  <1>14. CASE PeerAnswers \/ AwaitTimesOut \/ RecordBeacon \/ LookupStarts \/ BeaconRefuses
    BY <1>11, <1>14 DEF PeerAnswers, AwaitTimesOut, RecordBeacon, LookupStarts,
       BeaconRefuses
  <1>15. ASSUME NEW nodes, RoundsEnd(nodes) PROVE \A v \in Workers : Good(v)'
    BY <1>11, <1>15 DEF RoundsEnd
  <1>16. CASE StoreFound
    BY <1>11, <1>16 DEF StoreFound
  <1>17. CASE UNCHANGED vars
    BY <1>11, <1>17 DEF vars, taskVars
  <1> QED BY <1>6, <1>7, <1>8, <1>9, <1>10, <1>12, <1>13, <1>14, <1>15, <1>16, <1>17
          DEF Next, WorkerStep, UserStep

\* A response is sent only to a sender that was recorded before.
LEMMA NextAnswered ==
  ASSUME IInv, [Next]_vars
  PROVE  AnsweredAreKnown'
  <1> USE Distinct
  <1>1. ASSUME NEW r \in answered', r \notin answered
        PROVE  r \in Requests /\ r.from \in AllNodeinfos \cup {evicting, Self}
    <2>1. PICK w \in Workers : HandleRequest(w) \/ AnswerFindNode(w)
      <3>1. ASSUME NEW t \in Tasks, PingLookup(t) PROVE answered' = answered
        BY <3>1, PingOfHeadNeverReturns DEF IInv
      <3> QED BY <1>1, <3>1 DEF Next, vars, taskVars, WorkerStep, UserStep, Receive, Lose,
              TakeMessage, RecordSender, PingCommand, FindNodeCommand, JoinCommand, Command,
              PeerAnswers, AwaitTimesOut, RecordBeacon, LookupStarts, BeaconRefuses,
              RoundsEnd, StoreFound, SendEnds
    <2>2. r = msg[w] /\ stage[w] \in {"handle", "closest"}
      BY <1>1, <2>1 DEF HandleRequest, AnswerFindNode
    <2> QED BY <2>2 DEF IInv, WorkersKnowSenders
  <1>2. ASSUME NEW r \in answered
        PROVE  r \in Requests /\ r.from \in AllNodeinfos \cup {evicting, Self}
    BY <1>2 DEF IInv, TypeOK, AnsweredAreKnown
  <1>3. \A x \in Key : x \in AllNodeinfos \cup {evicting} => x \in AllNodeinfos' \cup {evicting'}
    BY TableStep, TableStays DEF IInv
  <1>4. ASSUME NEW r \in answered', r.from # Self
        PROVE  r.from \in AllNodeinfos' \cup {evicting'}
    <2>1. r \in Requests /\ r.from \in AllNodeinfos \cup {evicting}
      BY <1>1, <1>2, <1>4
    <2> QED BY <1>3, <2>1
  <1> QED BY <1>4 DEF AnsweredAreKnown

\* The inductive invariant holds at the start and is kept by every step.
LEMMA InitIInv == Init => IInv
  <1> SUFFICES ASSUME Init PROVE IInv
    OBVIOUS
  <1> USE Distinct DEF Init
  <1>1. BucketsWellFormed
    BY TableInitWellFormed
  <1>2. TypeOK
    BY <1>1 DEF TypeOK, BucketsWellFormed, Stages, Messages
  <1>3. LockDiscipline
    BY DEF LockDiscipline, ToSet, TableInit
  <1>4. WorkersKnowSenders /\ AnsweredAreKnown /\ stage[User] = "idle"
    BY DEF WorkersKnowSenders, AnsweredAreKnown
  <1> QED BY <1>1, <1>2, <1>3, <1>4 DEF IInv

LEMMA NextIInv == IInv /\ [Next]_vars => IInv'
  <1> SUFFICES ASSUME IInv, [Next]_vars PROVE IInv'
    OBVIOUS
  <1> USE Distinct
  <1>1. BucketsWellFormed'
    BY TableStep, TableStays DEF IInv
  <1>2. TypeOK'
    BY <1>1, NextTypeOK DEF IInv
  <1>3. LockDiscipline'
    BY NextDiscipline DEF IInv
  <1>4. stage'[User] # "idle" => peer' \in Peers
    <2>1. stage \in [Tasks -> Stages]
      BY DEF IInv, TypeOK
    <2>2. ASSUME NEW k \in Peers, PingCommand(k) \/ FindNodeCommand(k) \/ JoinCommand(k)
          PROVE  peer' \in Peers
      BY <2>2 DEF PingCommand, FindNodeCommand, JoinCommand, Command
    <2>3. ASSUME peer' = peer, stage'[User] = stage[User] \/ stage[User] # "idle"
          PROVE  stage'[User] # "idle" => peer' \in Peers
      BY <2>3 DEF IInv
    <2>4. ASSUME NEW w \in Workers, WorkerStep(w) \/ SendEnds(w)
          PROVE  peer' = peer /\ (stage'[User] = stage[User] \/ stage[User] # "idle")
      BY <2>1, <2>4 DEF WorkerStep, TakeMessage, RecordSender, HandleRequest,
         AnswerFindNode,
         SendEnds, Done
    <2>5. ASSUME NEW t \in Tasks, PingLookup(t)
          PROVE  peer' = peer /\ (stage'[User] = stage[User] \/ stage[User] # "idle")
      BY <2>1, <2>5, PingOfHeadNeverReturns DEF IInv
    <2>6. ASSUME UserStep \/ PeerAnswers
          PROVE  peer' = peer /\ (stage'[User] = stage[User] \/ stage[User] # "idle")
      BY <2>1, <2>6 DEF UserStep, PeerAnswers, AwaitTimesOut, RecordBeacon, LookupStarts,
                        BeaconRefuses, RoundsEnd, StoreFound
    <2>7. ASSUME NEW m, Receive(m) \/ Lose(m) PROVE peer' = peer /\ stage' = stage
      BY <2>7 DEF Receive, Lose
    <2>8. CASE UNCHANGED vars
      BY <2>3, <2>8 DEF vars, taskVars
    <2> QED BY <2>2, <2>3, <2>4, <2>5, <2>6, <2>7, <2>8 DEF Next
  <1> QED BY <1>1, <1>2, <1>3, <1>4, NextSenders, NextAnswered DEF IInv

\* The inductive invariant holds under every interleaving of the receive loop, the
\* workers and the user's commands (node.rs start_listening, request_handler.rs).
THEOREM Invariance == Spec => []IInv
  BY InitIInv, NextIInv, PTL DEF Spec

\* Nobody queues twice for the lock of the routing table, exactly those queue who need
\* it, and whoever keeps the write guard over an await pings a head or stores the nodes
\* of a lookup.
THEOREM LockRespected == Spec => []LockDiscipline
  <1>1. IInv => LockDiscipline
    BY DEF IInv
  <1> QED BY <1>1, Invariance, PTL

\* Whoever was sent a response is in the routing table, or is the head being evicted
\* from it: the router records the sender first (request_handler.rs), and no store of
\* another task forgets it.
THEOREM AnsweredStayKnown == Spec => []AnsweredAreKnown
  <1>1. IInv => AnsweredAreKnown
    BY DEF IInv
  <1> QED BY <1>1, Invariance, PTL

\* The tasks together do to the table what the table by itself allows: the composed
\* specification implements that of module RoutingTable.
THEOREM TableRefinement == Spec => TableRespected
  <1>1. Init => TableInit
    BY DEF Init
  <1>2. IInv /\ [Next]_vars => [TableNext]_tableVars
    BY TableStep DEF IInv, TableNext
  <1> QED BY <1>1, <1>2, Invariance, PTL DEF Spec, TableRespected, TableSpec

\* Once a task pings the head of a full bucket (kbucket.rs add_nodeinfo, under the write
\* guard of its caller; Node::ping reads the table first) no step ever again changes the
\* table, hands on the write guard or moves a task that waits for the lock, and no
\* FIND_NODE is answered.
THEOREM WedgeStays == Spec => WedgeIsPermanent
  <1>1. ASSUME IInv, [Next]_vars, evicting # NoKey
        PROVE  /\ UNCHANGED <<tableVars, writer>>
               /\ \A t \in ToSet(lockq) : stage'[t] = stage[t]
               /\ \A r \in answered' \ answered : r.kind # "find_node"
    <2> USE Distinct
    <2>1. \A t : ~Granted(t)
      BY <1>1, WhenGranted DEF IInv
    <2>2. PICK e \in Tasks : stage[e] = "evict" /\ writer = e
      BY <1>1, Discipline DEF IInv
    <2>3. ~StoreFound
      BY <2>1, <2>2 DEF StoreFound
    <2>4. stage \in [Tasks -> Stages]
      BY <1>1 DEF IInv, TypeOK
    <2>5. \A t \in ToSet(lockq) : t \in Tasks /\ stage[t] \notin {"idle", "await", "rounds", "handle", "sending"}
      <3>1. lockq \in Seq(Tasks)
        BY <1>1 DEF IInv, TypeOK
      <3>2. \A t \in ToSet(lockq) : t \in Tasks
        BY <3>1 DEF ToSet
      <3> QED BY <1>1, <3>2, Discipline DEF IInv, Waits
    <2> DEFINE Frozen == /\ UNCHANGED <<tableVars, writer>>
                         /\ \A t \in ToSet(lockq) : stage'[t] = stage[t]
                         /\ \A r \in answered' \ answered : r.kind # "find_node"
    <2>6. ASSUME UNCHANGED <<tableVars, writer>>, answered' = answered,
                 NEW t \in Tasks,
                 \/ stage' = stage
                 \/ /\ stage[t] \in {"idle", "await", "rounds", "handle", "sending"}
                    /\ \E x : stage' = [stage EXCEPT ![t] = x]
          PROVE  Frozen
      BY <2>4, <2>5, <2>6
    <2>7. ASSUME NEW w \in Workers, HandleRequest(w) PROVE Frozen
      <3>1. \A t \in ToSet(lockq) : stage'[t] = stage[t]
        BY <2>4, <2>5, <2>7 DEF HandleRequest, Done
      <3>2. \A r \in answered' \ answered : r.kind # "find_node"
        BY <2>7 DEF HandleRequest
      <3> QED BY <2>7, <3>1, <3>2 DEF HandleRequest
    <2> HIDE DEF Frozen
    <2>8. ASSUME NEW w \in Workers, TakeMessage(w) PROVE Frozen
      <3>1. /\ stage[w] = "idle" /\ UNCHANGED <<tableVars, writer>> /\ answered' = answered
            /\ \/ stage' = stage
               \/ stage[User] = "await" /\ \E x : stage' = [stage EXCEPT ![User] = x]
               \/ stage' = [stage EXCEPT ![w] = "record"]
        BY <2>8 DEF TakeMessage
      <3> QED BY <2>6, <3>1
    <2>9. ASSUME NEW m, Receive(m) \/ Lose(m) PROVE Frozen
      BY <2>6, <2>9 DEF Receive, Lose
    <2>10. ASSUME NEW k, PingCommand(k) \/ FindNodeCommand(k) \/ JoinCommand(k) PROVE Frozen
      <3>1. /\ UNCHANGED <<tableVars, writer>> /\ answered' = answered
            /\ stage[User] = "idle" /\ \E x : stage' = [stage EXCEPT ![User] = x]
        BY <2>10 DEF PingCommand, FindNodeCommand, JoinCommand, Command
      <3> QED BY <2>6, <3>1
    <2>11. ASSUME PeerAnswers \/ AwaitTimesOut \/ BeaconRefuses PROVE Frozen
      BY <2>6, <2>11 DEF PeerAnswers, AwaitTimesOut, BeaconRefuses
    <2>12. ASSUME NEW nodes, RoundsEnd(nodes) PROVE Frozen
      <3>1. /\ UNCHANGED <<tableVars, writer>> /\ answered' = answered
            /\ stage[User] = "rounds" /\ \E x : stage' = [stage EXCEPT ![User] = x]
        BY <2>12 DEF RoundsEnd
      <3> QED BY <2>6, <3>1
    <2>13. ASSUME UNCHANGED vars PROVE Frozen
      BY <2>6, <2>13 DEF vars, taskVars
    <2>14. \A w : ~RecordSender(w) /\ ~AnswerFindNode(w) /\ ~PingLookup(w)
      BY <2>1 DEF RecordSender, AnswerFindNode, PingLookup
    <2>15. ~RecordBeacon /\ ~LookupStarts
      BY <2>1 DEF RecordBeacon, LookupStarts
    <2>16. ASSUME NEW w \in Workers, WorkerStep(w) \/ SendEnds(w) PROVE Frozen
      <3>1. CASE SendEnds(w)
        BY <2>6, <3>1 DEF SendEnds, Done
      <3> QED BY <2>7, <2>8, <2>14, <2>16, <3>1 DEF WorkerStep
    <2>17. ASSUME UserStep PROVE Frozen
      BY <2>3, <2>11, <2>12, <2>15, <2>17 DEF UserStep
    <2>18. ASSUME Next PROVE Frozen
      BY <2>9, <2>10, <2>11, <2>14, <2>16, <2>17, <2>18 DEF Next
    <2>19. Frozen
      BY <1>1, <2>13, <2>18
    <2> QED BY <2>19 DEF Frozen
  <1> QED BY <1>1, Invariance, PTL DEF Spec, WedgeIsPermanent
=============================================================================
