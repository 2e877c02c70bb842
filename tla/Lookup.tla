------------------------------- MODULE Lookup -------------------------------
(***************************************************************************)
(* The iterative lookup: the buffer of known nodes (src/src/core/lookup.rs)*)
(* and the three procedures driven by it (src/src/core/node.rs             *)
(* join_network, find_node, find_storer).                                  *)
(*                                                                         *)
(* A node is known as a contact, an id at an address (NodeInfo).  Rank     *)
(* orders the contacts by the XOR distance of their id to the target of    *)
(* the lookup; two contacts have the same rank exactly if they have the    *)
(* same id, for distances to one target are all different.  The code       *)
(* compares contacts where it looks for known nodes and for itself, and    *)
(* ids where it marks entries.  What a queried node answers is not         *)
(* restricted: it fails (timeout, refusal, any unexpected response), or it *)
(* names contacts, in any order and any of them repeatedly, or, asked for  *)
(* a value, it says it has the value.  The α requests of a round run in    *)
(* parallel but are collected in the order of the resolvers (join_all), so *)
(* a round is one step.                                                    *)
(***************************************************************************)
EXTENDS Naturals, Sequences, SequencesExt

CONSTANTS Nodes,    \* the contacts of the other nodes of the network
          Self,     \* the contact of the node that performs the lookup
          Rank,     \* the rank of the distance of a contact's id to the target
          Answers,  \* the lists of contacts an answer may carry
          K,        \* nodes in a result
          Alpha     \* nodes asked in one round

ASSUME LookupAssumption ==
    /\ IsFiniteSet(Nodes) /\ Self \notin Nodes
    /\ Rank \in [Nodes -> Nat]
    /\ \A s \in Answers : s \in Seq(Nodes \cup {Self})
    /\ K \in Nat \ {0}
    /\ Alpha \in Nat \ {0}

VARIABLES
    mode,      \* "join", "find_node" or "find_value"
    phase,     \* "rounds", "last" (the round outside the loop) or "done"
    buffer,    \* LookupBuffer.nodes
    current,   \* current_responses: who said what in the latest round
    result,    \* the nodes returned, or <<storer>>, or <<>> for an error
    stored,    \* the nodes recorded in the routing table at the end
    start,     \* history: the contacts LookupBuffer::new was given
    asked,     \* history: how often each contact was sent a request
    answered,  \* history: the contacts that answered
    failed,    \* history: the contacts that failed to answer a request
    storers,   \* history: the contacts that answered that they have the value
    learned    \* history: the contacts named to this lookup

vars == <<mode, phase, buffer, current, result, stored, start, asked, answered, failed,
          storers, learned>>

Entry == [node : Nodes, queried : BOOLEAN, responded : BOOLEAN]
Reply == [kind : {"fail", "value"}, nodes : {<<>>}] \cup [kind : {"nodes"}, nodes : Answers]

NewEntry(node) == [node |-> node, queried |-> FALSE, responded |-> FALSE]
NodesOf(buf) == [i \in DOMAIN buf |-> buf[i].node]
Contacts(buf) == ToSet(NodesOf(buf))
Take(s, n) == SubSeq(s, 1, Min({n, Len(s)}))

\* Contact c has the id of one of the contacts in S.
SameId(c, S) == \E d \in S : Rank[d] = Rank[c]

\* Where contact c is in a list of contacts.
Places(s, c) == {i \in DOMAIN s : s[i] = c}

\* The elements of a finite set as a sequence, in the order of the pairs in R: the
\* one with j - 1 elements before it comes j-th.
Ordered(S, R) ==
    [j \in 1 .. Cardinality(S) |->
        CHOOSE x \in S : Cardinality({y \in S : <<y, x>> \in R}) = j - 1]
Ascending(S) == Ordered(S, {p \in S \X S : p[1] < p[2]})

\* The elements of s at the positions I: what a filter keeps.
Pick(s, I) == LET at == Ascending(I) IN [j \in DOMAIN at |-> s[at[j]]]
Unqueried(buf) == {i \in DOMAIN buf : ~ buf[i].queried}

------------------------------------------------------------------------------
(* LookupBuffer *)

\* LookupNodeInfo::new for each of a list of contacts.
NewEntries(nodes) == [i \in DOMAIN nodes |-> NewEntry(nodes[i])]

HasFailedToRespond(e) == e.queried /\ ~e.responded

\* Mutant: nodes that failed to respond are kept in the result.
ResultingVectorUnfiltered(buf) == NodesOf(Take(buf, K))

GetResultingVector(buf) ==
    NodesOf(Take(Pick(buf, {i \in DOMAIN buf : ~ HasFailedToRespond(buf[i])}), K))

\* Mutant: only the first Alpha nodes are considered.
UnqueriedOfFirstAlpha(buf) ==
    NodesOf(Pick(buf, {i \in Unqueried(buf) : i <= Alpha}))

GetUnqueriedResultingNodes(buf) ==
    NodesOf(Pick(buf, {i \in Unqueried(buf) : i <= K}))

\* Mutant: every queried node counts as responsive.
QueriedNodes(buf) == NodesOf(Pick(buf, DOMAIN buf \ Unqueried(buf)))

GetResponsiveNodes(buf) ==
    NodesOf(Pick(buf, {i \in DOMAIN buf : buf[i].queried /\ buf[i].responded}))

\* The selection of get_alpha_unqueried_nodes ...
AlphaUnqueriedNodes(buf) ==
    NodesOf(Take(Pick(buf, Unqueried(buf)), Alpha))

\* Mutant: the nodes handed out are not marked.
LeaveUnmarked(buf, nodes) == buf

\* ... and its side effect: entries are marked by id.
MarkQueried(buf, nodes) ==
    [i \in DOMAIN buf |-> IF SameId(buf[i].node, nodes)
                          THEN [buf[i] EXCEPT !.queried = TRUE] ELSE buf[i]]

MarkResponded(buf, nodes) ==
    [i \in DOMAIN buf |-> IF SameId(buf[i].node, nodes)
                          THEN [buf[i] EXCEPT !.responded = TRUE] ELSE buf[i]]

\* Mutant: contacts already in the buffer are entered again.
EveryMention(buf, nodes) == {i \in DOMAIN nodes : nodes[i] # Self}

\* The positions of an answer whose contact is entered: contacts that are not in the
\* buffer yet, neither before the answer nor by an earlier position of it, nor this node.
FirstMentions(buf, nodes) ==
    {i \in DOMAIN nodes : /\ nodes[i] \notin Contacts(buf) \cup {Self}
                          /\ \A j \in 1 .. i - 1 : nodes[j] # nodes[i]}

\* Mutant: a resolver that failed is taken for one that answered.
RecordFailureAsAnswer(buf, response) ==
    LET new == Pick(response.nodes, FirstMentions(buf, response.nodes))
    IN  MarkResponded(buf \o NewEntries(new), {response.from})

\* One turn of the loop of record_lookup_round_responses.
RecordResponse(buf, response) ==
    IF response.kind = "fail"
    THEN MarkQueried(buf, {response.from})
    ELSE LET new == Pick(response.nodes, FirstMentions(buf, response.nodes))
         IN  MarkResponded(buf \o NewEntries(new), {response.from})

\* The buffer after each turn.
Turns(buf, responses) ==
    LET after[i \in 0 .. Len(responses)] ==
            IF i = 0 THEN buf ELSE RecordResponse(after[i - 1], responses[i])
    IN  after

\* LookupBuffer::sort, a stable sort by distance.
Sort(buf) ==
    LET before == {p \in (DOMAIN buf) \X (DOMAIN buf) :
                     \/ Rank[buf[p[1]].node] < Rank[buf[p[2]].node]
                     \/ Rank[buf[p[1]].node] = Rank[buf[p[2]].node] /\ p[1] < p[2]}
        at == Ordered(DOMAIN buf, before)
    IN  [j \in DOMAIN at |-> buf[at[j]]]

ValuesIn(responses) == {i \in DOMAIN responses : responses[i].kind = "value"}

\* record_lookup_round_responses: the new buffer, and the Boolean returned.  A
\* response with the value ends it at once, before the buffer is sorted.
Record(buf, responses) ==
    LET values == ValuesIn(responses)
        turns == Turns(buf, responses)
        sorted == Sort(turns[Len(responses)])
    IN  IF values = {}
        THEN [buffer |-> sorted,
              goOn |-> GetResultingVector(buf) # GetResultingVector(sorted)]
        ELSE [buffer |-> turns[Min(values) - 1], goOn |-> TRUE]

\* The responses of a round, in the order of the resolvers.
Responses(resolvers, reply) ==
    [i \in DOMAIN resolvers |-> [from |-> resolvers[i],
                                 kind |-> reply[i].kind,
                                 nodes |-> reply[i].nodes]]

\* The answers resolvers may give; only a lookup of a value is told of one.
Replies(resolvers) ==
    [DOMAIN resolvers -> {r \in Reply : r.kind = "value" => mode = "find_value"}]

\* What is read of a round's responses after the round: their kind.
Kinds(responses) ==
    [i \in DOMAIN responses |-> [from |-> responses[i].from, kind |-> responses[i].kind]]

\* The first of them that has the value.
FirstStorer(responses) == responses[Min(ValuesIn(responses))].from

------------------------------------------------------------------------------
\* join_network starts from what the beacon answers, which names somebody, without
\* this node's own contact.
BeaconAnswer(answer) ==
    /\ answer \in Answers /\ answer # <<>>
    /\ start = Pick(answer, {i \in DOMAIN answer : answer[i] # Self})

\* find_node and find_storer start from at most α contacts of the routing table, which
\* has each id once, and fail before any round if there are none.
TableContacts(nodes) ==
    /\ nodes # {} /\ Cardinality(nodes) <= Alpha
    /\ \A c, d \in nodes : Rank[c] = Rank[d] => c = d
    /\ start = Ordered(nodes, {p \in nodes \X nodes : Rank[p[1]] < Rank[p[2]]})

\* LookupBuffer::new takes the initial contacts as they are and sorts them.
Init ==
    /\ \/ mode = "join" /\ \E answer \in Answers : BeaconAnswer(answer)
       \/ mode \in {"find_node", "find_value"} /\ \E nodes \in SUBSET Nodes : TableContacts(nodes)
    /\ buffer = Sort(NewEntries(start))
    /\ learned = ToSet(start)
    /\ phase = "rounds"
    /\ current = <<>>
    /\ result = <<>>
    /\ stored = <<>>
    /\ asked = [n \in Nodes |-> 0]
    /\ answered = {}
    /\ failed = {}
    /\ storers = {}

\* What a round adds to the histories.
Remember(responses) ==
    LET from(kinds) == {r.from : r \in {s \in ToSet(responses) : s.kind \in kinds}}
        asks(n) == Cardinality({i \in DOMAIN responses : responses[i].from = n})
    IN  /\ asked' = [n \in Nodes |-> asked[n] + asks(n)]
        /\ answered' = answered \cup from({"nodes", "value"})
        /\ failed' = failed \cup from({"fail"})
        /\ storers' = storers \cup from({"value"})
        /\ learned' = learned \cup
                        ((UNION {ToSet(r.nodes) : r \in ToSet(responses)}) \ {Self})

\* One turn of the loop over the rounds, common to the three procedures.
Round ==
    /\ phase = "rounds"
    /\ AlphaUnqueriedNodes(buffer) # <<>>
    /\ LET resolvers == AlphaUnqueriedNodes(buffer)
           marked == MarkQueried(buffer, ToSet(resolvers))
       IN  \E reply \in Replies(resolvers) :
             LET responses == Responses(resolvers, reply)
                 record == Record(marked, responses)
             IN  /\ buffer' = record.buffer
                 /\ phase' = IF record.goOn THEN "rounds" ELSE "last"
                 /\ current' = Kinds(responses)
                 /\ Remember(responses)
    /\ UNCHANGED <<mode, result, stored, start>>

\* No unqueried node is left: the loop is over.
NoResolversLeft ==
    /\ phase = "rounds"
    /\ AlphaUnqueriedNodes(buffer) = <<>>
    /\ phase' = "last"
    /\ UNCHANGED <<mode, buffer, current, result, stored, start, asked, answered, failed,
                   storers, learned>>

\* find_node and join_network: every node of the first K not queried so far is
\* asked, then the responsive nodes go to the routing table.
LastRound ==
    /\ phase = "last"
    /\ mode \in {"join", "find_node"}
    /\ LET resolvers == GetUnqueriedResultingNodes(buffer)
       IN  \E reply \in Replies(resolvers) :
             LET responses == Responses(resolvers, reply)
             IN  /\ buffer' = Record(buffer, responses).buffer
                 /\ Remember(responses)
    /\ phase' = "done"
    /\ result' = GetResultingVector(buffer')
    /\ stored' = GetResponsiveNodes(buffer')
    /\ UNCHANGED <<mode, current, start>>

\* find_storer: a storer among the latest responses ends it, ...
StorerFound ==
    /\ phase = "last"
    /\ mode = "find_value"
    /\ ValuesIn(current) # {}
    /\ result' = <<FirstStorer(current)>>
    /\ phase' = "done"
    /\ UNCHANGED <<mode, buffer, current, stored, start, asked, answered, failed, storers,
                   learned>>

\* ... otherwise the rest of the first K is asked, if there is any.
AskRemaining ==
    /\ phase = "last"
    /\ mode = "find_value"
    /\ ValuesIn(current) = {}
    /\ LET resolvers == GetUnqueriedResultingNodes(buffer)
       IN  \E reply \in Replies(resolvers) :
             LET responses == Responses(resolvers, reply)
             IN  /\ result' = IF ValuesIn(responses) = {} THEN <<>>
                              ELSE <<FirstStorer(responses)>>
                 /\ Remember(responses)
    /\ phase' = "done"
    /\ UNCHANGED <<mode, buffer, current, stored, start>>

\* The lookup has returned.
Terminated == phase = "done" /\ UNCHANGED vars

Next == Round \/ NoResolversLeft \/ LastRound \/ StorerFound \/ AskRemaining \/ Terminated

Spec == Init /\ [][Next]_vars

------------------------------------------------------------------------------
(* Properties. *)

TypeOK ==
    /\ mode \in {"join", "find_node", "find_value"}
    /\ phase \in {"rounds", "last", "done"}
    /\ buffer \in Seq(Entry)
    /\ current \in Seq([from : Nodes, kind : {"fail", "value", "nodes"}])
    /\ result \in Seq(Nodes)
    /\ stored \in Seq(Nodes)
    /\ start \in Seq(Nodes)
    /\ asked \in [Nodes -> Nat]
    /\ answered \subseteq Nodes
    /\ failed \subseteq Nodes
    /\ storers \subseteq answered
    /\ learned \subseteq Nodes

\* How often the lookup may hold and ask a contact: as often as it was given at the
\* start, and a contact learned later once.
Copies(c) == IF c \in ToSet(start) THEN Cardinality(Places(start, c)) ELSE 1

\* lookup.rs:178 "keeps the nodes sorted", for any answers: the buffer has every
\* learned contact, nearest first, and no rounds add a contact to it that it has.
\* (A lookup of a value whose value was found leaves its buffer unsorted.)
BufferSortedAndComplete ==
    /\ storers = {} => \A i, j \in DOMAIN buffer :
                         i < j => Rank[buffer[i].node] <= Rank[buffer[j].node]
    /\ Contacts(buffer) \subseteq learned
    /\ storers = {} /\ (mode = "find_value" => phase # "done") => Contacts(buffer) = learned
    /\ \A c \in Contacts(buffer) : Cardinality(Places(NodesOf(buffer), c)) = Copies(c)

\* A contact is sent at most one request by one lookup, in the rounds and the last
\* round together, although the last round marks nobody: only a contact that the
\* beacon itself named several times may get as many requests, ...
NoContactAskedTwice == \A c \in Nodes : asked[c] <= Copies(c)

\* ... all of them in one round.
NeverAskedAgain == [][\A c \in Nodes : asked[c] > 0 => asked'[c] = asked[c]]_vars

\* What find_node and join_network return is the first K of what they learned without
\* what failed: a contact they leave out is no nearer than the K they return, or a
\* contact of its id failed; one they return has not failed, or a contact of its id
\* has answered.  (Where no id was learned under two addresses and the beacon named
\* nobody twice, these are exactly the K nearest of the nodes that did not fail.)
ResultIsNearest ==
    phase = "done" /\ mode # "find_value" =>
        /\ Len(result) <= K
        /\ \A i, j \in DOMAIN result : i < j => Rank[result[i]] <= Rank[result[j]]
        /\ \A c \in ToSet(result) :
             /\ c \in learned
             /\ c \in failed => SameId(c, answered)
             /\ Cardinality(Places(result, c)) <= Copies(c)
        /\ \A c \in learned \ ToSet(result) :
             \/ SameId(c, failed)
             \/ Len(result) = K /\ \A i \in DOMAIN result : Rank[result[i]] <= Rank[c]

\* The contact that find_storer returns has said that it has the value, and a node
\* that is put into the routing table after a lookup has answered, at this address or
\* at another one.
OnlyWitnesses ==
    /\ mode = "find_value" => ToSet(result) \subseteq storers
    /\ \A c \in ToSet(stored) : SameId(c, answered)

\* Every lookup comes to an end, whatever is answered: each step asks nodes that
\* were never asked or moves on from the rounds to the last round to the end, so
\* what is left only shrinks.  (Every round ends by Rpc!EveryCallReturns, and no
\* state but the last is stuck, which the run checks as the absence of deadlock.)
Left == Cardinality({n \in Nodes : asked[n] = 0})
        + (IF phase = "rounds" THEN 2 ELSE IF phase = "last" THEN 1 ELSE 0)
LookupProgresses == [][Left' < Left]_vars

\* node.rs:929 "exhausted all the K closest nodes": a lookup that was told of no
\* storer gives up only after it has asked each of the K nearest nodes it knew, at one
\* address at least.
Asked == {c \in Nodes : asked[c] > 0}
KNearestAsked ==
    phase = "done" /\ mode = "find_value" /\ storers = {} =>
        \A i \in DOMAIN buffer : i <= K => SameId(buffer[i].node, Asked)

------------------------------------------------------------------------------
(* The inductive invariant. *)

\* What the flags of an entry say is what has happened to contacts of its id: one was
\* asked, one answered, and an entry that counts as failed has a contact of its id that
\* did fail, as long as no round was broken off by a value.
FlagsTrue ==
    \A i \in DOMAIN buffer :
        /\ buffer[i].queried => SameId(buffer[i].node, Asked)
        /\ buffer[i].responded => SameId(buffer[i].node, answered)
        /\ storers = {} /\ HasFailedToRespond(buffer[i]) => SameId(buffer[i].node, failed)

\* No entry is left unqueried whose contact was asked, until the last round, which
\* marks only those that fail.
AskedAreMarked ==
    /\ \A i \in DOMAIN buffer :
         /\ phase # "done" /\ buffer[i].node \in Asked => buffer[i].queried
         /\ mode # "find_value" /\ buffer[i].node \in failed => buffer[i].queried
    /\ ToSet(start) \cup Asked \subseteq Contacts(buffer)
    /\ failed \subseteq Asked
    /\ mode # "find_value" => storers = {}

\* A lookup has no result before its end, and a value in the latest round is a
\* storer's.
NothingYet ==
    /\ phase # "done" => result = <<>> /\ stored = <<>>
    /\ \A i \in ValuesIn(current) : current[i].from \in storers

IInv ==
    /\ TypeOK
    /\ BufferSortedAndComplete
    /\ FlagsTrue
    /\ AskedAreMarked
    /\ NothingYet
    /\ NoContactAskedTwice
    /\ OnlyWitnesses
    /\ ResultIsNearest
    /\ KNearestAsked

------------------------------------------------------------------------------
(* What comments in the code say of the lookup. *)

\* "If we didn't get any closer results OR we found the value, quit this loop":
\* a lookup that was told of a storer returns a storer.
FoundValueIsReturned ==
    phase = "done" /\ mode = "find_value" /\ storers # {} => result # <<>>
=============================================================================
