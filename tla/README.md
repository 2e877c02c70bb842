# A verification project for the Rust P2P file system

The program is one peer of a Kademlia network that stores encrypted file chunks
(`src/README.md`). A node has a 160-bit key, a routing table of k-buckets, a UDP
request/response protocol, an iterative lookup, a chunk store filled over TCP,
and a command line. This directory holds TLA+ models of it, the TLC
configurations that check them and TLAPS proofs about eight of them. Paths below
are relative to `src/src/`.

## 1. Inventory

| part | code | state | operations | model |
|---|---|---|---|---|
| request/response layer | `core/node.rs` 505-544, `networking/request_map.rs`, `message_dispatcher.rs`, `request_handler.rs` `handle_response` | map of request id to oneshot sender | `send_request_and_wait`, `add_request`, `handle_response`, `remove_request` | `Rpc`, `RpcContract` |
| keys and metric | `core/key.rs`, index functions of `routing/routing_table.rs` | none | `distance`, order, `leading_zeros_in_distance`, `make_exactly_n_same_leading_bits_as`, `get_bucket_index` | `Keyspace` |
| routing table | `routing/kbucket.rs`, `routing/routing_table.rs` | the buckets | `store_nodeinfo`, `add_nodeinfo`, `remove_nodeinfo`, `get_n_closest`, `get_nodeinfo` | `RoutingTable` |
| tasks and lock | `core/node.rs` 100-330, `core/request_handler.rs` | the RwLock of the table, the bounded channel, the workers | receive loop, `handle_received_request` with its six branches, `ping`, `join_network`, `find_node` | `NodeTasks` |
| iterative lookup | `core/lookup.rs`, `core/node.rs` 215-400 and 871-957 | `LookupBuffer` | `record_lookup_round_responses`, `get_alpha_unqueried_nodes`, the rounds of three callers | `Lookup` |
| chunk storage | `storage/shard_storage_manager.rs`, `data_transfers_table.rs`, `networking/tcp_listener.rs`, STORE / GET_PORT / FIND_VALUE / GET_VALUE of `request_handler.rs` | owned chunks, announced transfers, files | announce, receive, store, update, read, expire, restart | `ShardStorage` |
| upload | `core/node.rs` 403-449 and 552-753, `sharding/uploader.rs`, `encryption.rs`, `storage/file_manager.rs` | the chunk metadata of one file, the storers and ports of the current chunk, the files entered | `upload_file`, `resolve_alpha_closest_nodes_to_key`, `get_ports_for_nodes`, `store_chunk`, `add_file_uploaded_entry` | `FileSharing` |
| download | `core/node.rs` 460-497, 843-869, 959-1004, `sharding/downloader.rs` | the storers found, the output file | `download_file`, `find_storers_parallel`, `download_chunk_from_storer`, `store_next_chunk_decrypt` | `FileSharing` |
| life cycle | `main.rs` 34-171, `cache.rs`, `config.rs`, `cli/args.rs` | the cache in memory and its file, the two tasks that save it | launch, relaunch, join, periodic save, shutdown | `Lifecycle` |
| logging, test helpers | `utils/` | | | not modelled (section 8) |

How they interact. The receive loop puts datagrams into a bounded channel; the
workers take them out. A request makes its worker record the sender in the
routing table and run a handler; a response goes through the request map to the
task that waits. Lookups call the request/response layer, `join_network` and
`find_node` write their results into the table, and adding to a full bucket calls
back into `ping`, that is, into the request/response layer and the lock of the
table. The storage handlers share one RwLock over the manager and leave a task
that listens on a TCP port. An upload calls the lookup and then STORE, GET_PORT and a
TCP connection of each storer; a download calls the lookup and then GET_VALUE, which
its storer answers by connecting back. `main` starts all this from a configuration or a
cache file, and two of its tasks write that file.

What is hard here: a response racing its caller's timeout; duplicate responses at
two workers; an await under a write guard; a lookup judged by its last round; a
transfer table cleaned up on one path of several; files that outlive the map of
owned chunks; writes that are announced before they happen; a chunk written to a peer
without a timeout by one of few workers; nodes compared by id here and by id and address
there; hashes taken before
encryption, so that equal blocks with different ciphertexts meet; a listener that takes
whoever connects; two tasks over one cache file that is not replaced atomically, and a
process that may end at any moment. `PROJECT.json` lists
these hazards at their lines, with the properties that cover each.

What makes each part correct:

* request layer: at most one result per call, an answer only to the call's own
  request, no entry left behind, every call returns;
* keys and table: one bucket per key, buckets within capacity, without duplicates,
  ordered by last sighting, the nearest nodes found;
* tasks: nobody waits for ever, an answered sender is a known sender, the table
  changes only as its own specification allows;
* lookup: it ends, asks nobody in two rounds, asks the nearest nodes it learned of,
  returns nothing that failed;
* storage: the limit is kept, data is kept under its own hash, files are never
  overwritten, what was offered stays available, handlers end;
* sharing: a download writes the file that was uploaded or fails, success means that
  the chunks are in the network, uploads do not harm each other, commands end;
* life cycle: the configuration is complete whenever it is used, the cache file is
  whole and up to date, a shutdown ends.

## 2. Plan

Done, from the inside out: `RpcContract`, `Rpc` and its proofs; `Keyspace` and its
proofs; `RoutingTable` and its proofs; `NodeTasks` (composes `RoutingTable` with lock,
workers and user); `Lookup`; `ChunkStore` and `ShardStorage`, which implements it;
`FileSharing` (composes the stores of several nodes, as `ChunkStore` promises them);
`Lifecycle`.

Theorems, also from the inside out: `Rpc`, `Keyspace`, `RoutingTable`, `Lifecycle`,
`ShardStorage` (which implements `ChunkStore` when nobody sweeps), `NodeTasks` (which
implements `TableSpec`), `FileSharing` and `Lookup` (section 7).

Every safety property that a passing run checks is also a theorem. What is left to TLC is
liveness and the absence of deadlock (section 8).

## 3. Modules

Every definition that models code is listed with its lines under `map` in
`PROJECT.json`. Operators whose comment begins with "Mutant:" are wrong on
purpose: each is a variant of the definition after it that a plausible mistake
would produce, and the `mutants` list says which property refutes it. No
specification uses them.

**Rpc.** One call of `send_request_and_wait` is its request id (`Uuid::new_v4`,
taken to be unique). Steps of a call: register the sender, send, wait, and on
timeout remove the entry and return; steps of a worker: `contains_request` (read
lock), take the entry (write lock), send into the channel. Between these steps any
other call, worker or timeout may run. The network loses, duplicates and reorders
responses, and peers answer with any body.

**RpcContract.** What callers may rely on: at most one outcome; a returned body was
sent for this request; the only errors are UnableToSend and ResponseTimeout. `Rpc`
implements it (`ContractSpec`).

**Keyspace.** A key is the sequence of its bits, most significant first, which is
the order in which byte arrays are compared. `Bits` is 160 in the code.

**RoutingTable.** The buckets as sequences, head least recently seen.
`StoreNodeinfo` is the whole of `store_nodeinfo` up to its only await;
`PingOfHeadReturns` is the rest, for any result of the ping. `GetNClosest` follows
the walk of `get_n_closest` over buckets, including the last insertion that may
overshoot, and the sort and truncation at the end. `Entries` counts the positions of the
buckets the walk has taken.

**TableHistory.** Extends `RoutingTable` by a history variable that no guard reads: `older`,
the pairs of nodes of which the second was seen after the first was last seen. It is what
the comment on the order of a bucket (`routing/kbucket.rs` 23) speaks of and the program does
not store.

**NodeTasks.** Extends `RoutingTable`. The lock is a first-come-first-served queue;
code between two awaits is one step. `ping` needs the read lock before it sends, so
a full bucket makes the holder of the write guard queue for its own lock: the
second half of `add_nodeinfo` (`routing/kbucket.rs` 67-77) is therefore unreachable
in this composition, and `WedgeIsPermanent` states what follows. `RoutingTable`
keeps it, as the code would behave with a ping that returns. FIND_NODE is answered
only when between one and `FitNodes` nodes are found: none is an error of
`get_n_closest`, and too many make a message that `send_response` refuses. Of the other
handlers the module has what holds a worker and whether there is an answer, with the
outcome left open (what they do to the chunk store is in `ShardStorage`): STORE is
answered, GET_PORT perhaps, FIND_VALUE too or it continues as a FIND_NODE, and GET_VALUE
never is: the worker itself connects and writes (stage `sending`), and when that ends is
up to the peer.

**Lookup.** A node is known as a contact, an id with an address (`NodeInfo`). `Rank` gives
the distance of a contact's id to the target, so that two contacts of one rank are one id
under two addresses. The code compares contacts where it looks a node up in the buffer or
leaves itself out (`lookup.rs` 315, `node.rs` 285), and ids where it sets marks (341-356);
the model does both. An answer is any sequence of contacts out of `Answers`, with
repetitions, ids under two addresses and the asking node, or a failure, or "I have the
value". `join_network` starts from the beacon's answer as it is, the other two from at most
`ALPHA` nodes of the routing table. A round is one step, because
`join_all` returns the results in the order of the resolvers. Filters and sorts are
given by positions: `Ordered` puts the element with j - 1 others before it at place j,
`Pick` lists the entries at a set of positions, so that what they compute can be proved.

**ShardStorage.** Files have a content (`empty`, `truncated`, `whole`) that changes
when the background thread of `tokio::fs` flushes, possibly after the manager has
announced the chunk, possibly with an error nobody sees. A restart keeps the files
and loses the rest. GET_VALUE reads any file there is, of an owned chunk or not and written
or not, under the read lock, and then connects and writes with no lock and no timeout. `Sweeps` says whether anybody calls `remove_dead_chunks`: in the
program nobody does, so `storage` sets it to FALSE; `storage_live` sets it to TRUE and
shows that the function ends and releases its lock. With sweeps `PromisesKept` would
not hold: one that fails half way leaves chunks in the map whose files are gone. The
memory limit is not modelled: `total_stored_kb` is never changed.

**ChunkStore.** What the store of a node promises to the network: a chunk is put once and
within the limit; it settles, possibly cut short by a failing disk or a restart, and stays;
what is there can be read, and a read returns what was put under the hash, or a shorter part
of it while it has not settled. `ShardStorage` implements it (`StoreContract`): `kept` is what is
still to be flushed or else the file, `offered` the map of owned chunks.

**FileSharing.** The users' uploads and downloads over several nodes. A file is a sequence
of blocks. A full block's hash is the block; a short one is padded with random bytes, so its
hash is its own. A chunk is a ciphertext with key, nonce and plaintext, or a cut one, and
opens only whole, with its key and nonce. Each step of a command is what `node.rs` does
between two awaits that matter: next block, STORE to the nodes of the lookup, GET_PORT to
the `ALPHA` nearest that answered STORE_OK, the transfers, and so on for the download. A
listener is a socket that keeps the bytes of the first connection; its port may be used
again while a peer still holds the number. A port whose transfer was not completed keeps its
entry (`left`) and is useless for further GET_PORTs. A storer offers a chunk from the moment
its file is created; the file is written in the background (`pending`, `Flush`). A read
before that gets a part (`ReadChunk`), and a write error or a restart before that leaves the
file short, for good and unnoticed. What the lookup does is abstracted
to its result: in a perfect network all other nodes, otherwise any of them, and a search for
a storer returns any node that offers the hash or fails. Simplifications: nodes have one
common rank of distance for all chunks; the STOREs of a chunk are one step (a chunk owned by
then is owned until a restart); a peer that connects and stalls is left out, as
`ShardStorage` has it. `UnwantedChunk` and `ChunkHashMismatch` of the downloader cannot
occur, because the pairs keep the order of the metadata. Every loss, broken connection,
disk error and restart is a fault, and `MaxFaults` bounds their number.

**Lifecycle.** One process after the other over one cache file. `LaunchFromConfig` and
`LaunchFromCache` are the two ways to start; then the node is created, joins, and two tasks
run: the saver (fetch the table, lock the cache, truncate the file, write it, sleep) and
the one that waits for Ctrl-C (lock, truncate, write, exit). Between any two of these steps
the process may be killed, and its standard input may end. The table is a version number,
and its lock may get stuck, as `NodeTasks` shows it does.

## 4. Runs that pass

| run | bounds | shows |
|---|---|---|
| `rpc` | 2 calls, 2 workers, 2 bodies | no leaked entry, no lost and no shared sender under every race; the inductive invariant of the proofs; `Rpc` implements `RpcContract`; every call returns |
| `table` | 3 bits, 7 keys, capacity 2 | buckets stay well formed and sorted by last sighting; how many nodes `get_n_closest` returns, and that they are exactly the nearest when the own bucket has enough or the walk leaves no lower bucket out |
| `tasks` | 3 peers, 2 workers, two GET_VALUEs and a FIND_VALUE, channel of 1, buckets of 1 | a recorded sender before every answer; the table evolves as `TableSpec`; a full bucket wedges the node for good; until then commands end, the channel stays full only while every worker writes a chunk to a peer, and no worker is held for ever by anything else; the inductive invariant of the proofs, with the lock discipline |
| `lookup` | 5 contacts of 4 ids, K = 3, two requests per round, answers of up to three contacts | no contact is asked in two rounds, nor more often than the beacon named it; the result is the nearest not failed; the K nearest were asked before giving up; the buffer is sorted, complete and no fuller than it was made; results rest on answers; every step brings the end nearer; the inductive invariant of the proofs |
| `storage` | 2 chunks, ports and tasks, limit 1, faults, a restart | the hash data is kept under; a chunk once offered stays on disk; an abandoned transfer blocks its port; `ShardStorage` implements `ChunkStore`: nothing is overwritten, the limit is kept, reads return what was stored |
| `storage_live` | 1 chunk, 1 port, 2 tasks, faults, sweeps, a restart | uploads, GET_VALUE handlers and sweeps end and release the lock, unless a connected peer stalls; the inductive invariant of the proofs, with sweeps too |
| `sharing` | 3 nodes with room for 3 chunks, 2 users, 1 port each, 2 uploads at the same time of a file of two blocks, one fault | what a download writes is the file or a beginning of it, and all of it on success; of every block of a successful upload somebody keeps a chunk; a block nobody else uploads is with `ALPHA` nodes and only in the right form; a copy is lost only by a fault before its file is written, never by another upload; the inductive invariant of the proofs |
| `uploads` | 3 nodes with room for 3 chunks, 1 user, 2 replicas, 2 uploads one after the other of files of one and two blocks, one fault | the same of the second replica, and of the blocks of a second upload; every command ends |
| `lifecycle` | 2 launches of 4 configurations, 2 changes of the table, one fault | port and beacon are known when they are needed, also in a relaunch; the file is what the latest save left; a shutdown ends even when the table is stuck; the file catches up with the table in spite of a failed save; the inductive invariant of the proofs |

Why these bounds are enough to be interesting. Races here are between pairs: two
workers over one entry, a worker and a timeout, two tasks over one lock. A bucket
needs one node more than its capacity to be full, and a key needs three bits for a
bucket with buckets on both sides. A lookup needs more nodes than K, so that the
result can change, and K above Alpha, so that nodes remain for the last round; one of its
ids has two addresses, and answers name a contact twice, an id twice, three ids at once.
Storage needs one chunk more than the limit and a port used twice. `tasks` has
buckets of one place, so that a full bucket is met after two messages or one message
and a lookup of the user. Sharing needs two uploads with a common block and one port, so that
it is used for different things; its second file is too big and is refused. Whether the copies
of a chunk are as many as promised needs more other nodes than replicas and uploads
that interleave (`sharing`), a second replica (`uploads`), and room for all blocks but the last,
because the promise ends where a node is full. With this room no data is refused by a full
node; that is in `storage`, whose limit is 1. Two workers in a write need two GET_VALUEs, and a
third message to wait. A relaunch needs two lives. Bounds that are not constants of the code: `MaxFound` (nodes one lookup of the
user stores), `MaxRestarts`, `MaxUploads`, `MaxFaults`, `MaxTable` and `MaxLaunches`.
`QueueCapacity`, `Capacity`, `K`, `Alpha`, `MaxShards` and `MaxBlocks` are the code's
constants made small, `FitNodes` is what `MAX_MESSAGE_SIZE` amounts to.

Deadlock is checked in `table` and `lookup`. In the others the system may stop: all
calls returned, no more messages or a wedged node, a store with every port blocked, no
upload left to begin, the last process down.

## 5. Runs that find a disagreement

Each states what a comment or test of the repository says and finds a behaviour of
the code that contradicts it; `findings` in `PROJECT.json` quotes the line.

| run | disagreement |
|---|---|
| `full_bucket_comment` | storing into a full bucket waits for a lock its own task holds |
| `lookup_value_comment` | a storer already found may be forgotten by a further round |
| `entered_comment` | a file with two equal blocks is entered as uploaded although its second chunk was refused: the storer had got the first one meanwhile |

`full_bucket_comment` is a temporal property and runs under the fairness of section 6, so a
behaviour that merely stops does not refute it.

Further disagreements met while modelling. The models behave as the code does in each
of them; no run is spent on them:

* `routing/kbucket.rs` 19 numbers buckets by leading zeroes; `get_bucket_index` uses
  159 minus them (`BucketIndex` of `Keyspace`).
* `core/request_handler.rs` 121 promises the K closest nodes; for the receiver's own
  id or an empty table there is no answer (`AnswerFindNode`).
* `core/lookup.rs` 266 speaks of all responsive nodes; those that answer in the last
  round only are not among them (`GetResponsiveNodes`).
* `core/lookup.rs` 215 says the result is responsive; it may hold nodes named in the
  last round that nobody asked (`GetResultingVector`).
* `core/lookup.rs` 15 says a lookup stops without closer nodes; a round that only
  lost a node also counts as a change (`Record`).
* `core/request_handler.rs` 297: a port whose transfer was abandoned never gets its
  GET_PORT answered again (`PortStaysDead` shows it).
* `networking/tcp_listener.rs` 50: reading from an accepted connection is under no
  timeout (`TasksEnd` excepts it), and that of accept is 5000 s: a constant in
  milliseconds is passed to `from_secs`.
* `storage/shard_storage_manager.rs` 128: nobody calls `remove_dead_chunks` (`Sweeps`).
* `core/node.rs` 933: after a restart, chunks on disk are not offered (`Restart`).
* `routing/routing_table.rs` 133 says of a bucket that has enough nodes "Faster but not all of
  them are closest"; the code sorts by distance there too, and the nodes of the key's bucket are
  nearer than all others (`OwnBucketIsNearest`), so they are the closest
  (`ExactUnlessLowerLeft`). The comment has the two cases the wrong way round: line 130 says
  the closest are guaranteed where the bucket has too few and its neighbours are walked, but the
  walk may leave out a node of a lower bucket that is nearer than the one it takes from above,
  whence the premise of the property (`UpperBucketsInOrder` is the fact).
* `core/lookup.rs` 178 says the buffer keeps the nodes deduplicated; `new` does not
  (199-211), and a known node at another address is a new one (315), so that the "unique
  nodes" of 267 may name a node twice. `BufferSortedAndComplete`, a part of the invariant, says
  how often each contact may be there.
* `core/request_handler.rs` 19 speaks of a task for each request; the router runs in one of
  a fixed number of workers, and peers that take no bytes of a GET_VALUE (240) hold them all.
  `MessagesHandled` excepts exactly this.
* `main.rs` 161 saves the cache "one final time" and exits (168); in between the saver may get
  the mutex and truncate the file, which the exit leaves torn (`BeginSave`, `Exit`: the reason why
  `FileIsCache` is about a process that is up).
* `networking/messages.rs` 18 computes the size of a response with K nodes; 1168 bytes is
  below the JSON of 20 nodes, so from about a dozen nodes on FIND_NODE gets no answer
  (twelve with addresses such as `127.0.0.1:8080` make 1189 bytes; `FitNodes`).
* `core/node.rs` 697 says STORE_OK means ready; a full node, or after a restart one with the
  file on disk, then refuses the data (`StoreRequest`, `Storable`).
* `storage/shard_storage_manager.rs` 342, a test, reads a chunk right after storing it; the
  file may still be empty, and a write error is lost (`CreateFile`, `Flush`).
* `core/node.rs` 442 enters the file before `get_metadata` can fail (`FinishUpload`).
* `cache.rs` 13 wants a restart "with the same identity"; a relaunch draws a new key
  (`main.rs` 71) and does not use the cached nodes, so a first node, whose cache says
  `skip_join`, comes back alone (`SkipJoin`).

## 6. Fairness

* `Rpc`: weak fairness of each call and each worker: tokio runs a ready task, and a
  timer fires. Nothing is assumed of peers or network: the timeout alone ends a call.
* `NodeTasks`: weak fairness of workers and of the user's command once begun. The
  lock is an explicit queue, so no strong fairness is needed. The arrival of messages
  is not fair, and neither is the end of a write to a peer (`SendEnds`).
* `Lookup` needs none: `LookupProgresses` is an action property, every step decreases
  a natural number, and the run checks that only a finished lookup has no other step. That
  a round ends at all is `EveryCallReturns` of `Rpc`.
* `ShardStorage`: strong fairness of the steps of a task. The lock is not an explicit
  queue here, and tokio's RwLock is first come first served, so a task that waits
  is not overtaken for ever. The peer's own steps (connecting, sending, taking, closing) are
  not fair: that is why `TasksEnd` excepts the task a peer stalls. A connection that this
  node makes ends by itself, one way or the other.
* `FileSharing`: strong fairness of a user's command, because the model has so few ports:
  a command that needs one waits there until it is free, while a real system has far more
  ports than listeners. Weak fairness of the storers' handlers and of the accept timeout; the
  background writes need none.
  Nothing is assumed of the users, and lost messages are faults, not delays.
* `Lifecycle`: strong fairness of a save, which waits for tokio's Mutex, a queue first come
  first served; weak fairness of the other steps of the two tasks. Nothing is assumed of the
  table, the user or the moment the process is killed.

## 7. Proofs

All proofs hold for every value of the constants that satisfies the named
assumptions of the modules; none of them bounds a set or a number.

**RpcProofs** (`RpcAssumption`: None is not a body).
`NoLeakedEntry` is not inductive: that a returned call has no entry depends on the
caller removing it on timeout and on the worker removing it before it sends. `IInv`
adds the type invariant; `SenderNotLost` and `SenderUnique` (the sender is in the map
or with one worker, never both); `CallInv` (a call is in the map from registration
until it is sent, a filled channel carries an answer to this call and no sender of it
is left); and `MessageInv` (datagrams in flight and at workers answer requests that
were sent). `Invariance` proves `Spec => []IInv` with one step per action;
`EntriesNeverLeak` and `SenderSafe` follow; `Refinement` proves that every step of
`Rpc` is a step or a stutter of `RpcContract`.

**FiniteOrders** (no assumption) is what the later modules share. `Upto` is induction as a
fact about a set of numbers, from the well-foundedness of `<`; the least and the greatest of a
set of numbers; a finite, strictly ordered set is numbered by the ranks of its elements
(`RankProperty`); those with fewer than n before them are n, or all (`FirstNCardinality`).

**RoutingTableProofs** (`BitsAssumption`, `TableAssumption`). First the metric of `Keyspace`.
Two keys that differ have a first position where they differ. From it: `BucketIndexSound` (the
`CHOOSE` of the leading zeros is well defined and the own key alone has no bucket),
`RandomIdIsInBucket`, and the two facts behind the search, `OwnBucketIsNearest` and
`UpperBucketsInOrder`.

Then the table. `TableInvariance`: `BucketsWellFormed`
is inductive because `WithinCapacity` also says what is true between the two halves of
`add_nodeinfo`: the removed head and the node to be added are distinct, belong to the
same bucket, neither is in it, and it has a free place. Without that, either result of
the ping could duplicate a node or overflow the bucket. `ClosestExact`: when the bucket of the key
has at least n nodes, or the walk leaves no node in a lower bucket, `get_n_closest` returns
the n nearest of the whole table; it rests on these two facts and the invariant.

`EnoughReturned`, for every key and every n up to one more than K: the walk of `get_n_closest` widens a range of
buckets, and `Upto` over its passes gives what it stops with, either n nodes or the whole
table (`RangesExist`, `WidenedEnough`). Buckets in a well formed table share no node, so that
`Entries`, which the walk compares with n, is the number of nodes in the range
(`EntriesAreNodes`); the distances to a key order them (`NearerTotal`, `NearerTransitive`), so
that the truncation leaves exactly n (`FirstNCardinality`).

`SightingsInOrder`: `SortedByLastSeen` is inductive beside `BucketsWellFormed`. Whoever goes in
last was just seen, taking a node out keeps the order of the others, and the head that was
pinged goes back in only after its answer, as a new sighting.

`StoreForgetsNobody`, a lemma for `NodeTasksProofs`, says that a store puts the node into
the table or hands the head of a full bucket to the ping, and loses nobody else.

**LifecycleProofs** (`LifecycleAssumption`). `ConfigComplete` says nothing of the file, from
which the next life gets its configuration unchecked, so `IInv` adds that every cache, in
memory and on disk, is complete unless the file is torn, and that a process that is not up
has not saved. `FileIsCache` is inductive beside it, because whoever saves holds the mutex.
`ConfigAlwaysComplete` and `FileFollowsCache` follow.

**ShardStorageProofs** (`StorageAssumption`). `IInv` adds that a task between the check of
a chunk and the creation of its file holds the write guard and that the chunk has no file
yet, that a port has one listener, that only files that are there are being flushed, and,
without sweeps, that every owned chunk has its file. With it: `DataIsNotMisplaced`; `PortsStayDead`; and, when nobody
sweeps, `PromisedStays` and `Refinement` (every step of `ShardStorage` is a step or a stutter
of `ChunkStore`). The hypothesis `~Sweeps` is needed: a sweep that fails half way leaves chunks
in the map whose files are gone (section 3), and it is true of the program.

**NodeTasksProofs** (the assumptions of `NodeTasks` and `RoutingTable`). `LockDiscipline`
is inductive with the type invariant; its lemmas are the ways a task can deal with the lock
(it queues, is granted it, keeps it, releases it). `AnsweredStayKnown` needs
`WorkersKnowSenders`: a worker that handles a request has a sender that is in the table, is
the head taken out to be pinged, or is this node, and no step forgets anybody
(`StoreForgetsNobody`). `TableRefinement`: every step is a step of `RoutingTable` or leaves
its variables alone. `WedgeStays`: a task that holds the write guard and waits for the read
lock blocks the queue, and nobody but itself could release the guard.

**FileSharingProofs** (`SharingAssumption`, `ValuesAssumption`). The properties are about
what is written at one node after steps of many, so `IInv` says of every place where data can
be what it is:

* `KeysInOrder`: keys are drawn once each;
* `MetadataTrue`: the metadata of an upload lists hash and nonce of its blocks in their order;
* `UploadersApart`: two uploads under way have different keys;
* `ContentsAuthentic`: every ciphertext in a store or a socket is some begun upload's, of the
  block at its nonce. This is what a port that is used again, a cut chunk or a foreign copy
  cannot break, and it makes `Opens` imply the right plaintext;
* `DownloadsTrue`: the output is a beginning of the source, as long as the command says;
* `PendingKept`: a chunk that is still being written is there and on offer;
* `PortsOwned`, while nothing has failed: a port a command holds is its own, its listener is
  there, and a GET_VALUE under way is for a download that waits for it;
* `SentArePresent`, while nothing has failed and nobody is full: a block that was sent is in
  a store or on its way into one;
* `Filed` and `NothingSentAhead`, while nothing has failed: what is in a store, or on its way
  to one, is a whole ciphertext under its own hash (what is on its way to a download may be a
  part of one), what is offered is in the store, and of an upload under way nothing is anywhere
  that it has not sent;
* `TargetsChosen` and `TargetsHold`, in a calm network (nothing has failed, nobody is full, no
  port is useless): a block nobody else uploads goes to the `ALPHA` nearest other nodes, and
  those, and no others, keep it or are about to.

The proof goes by what a step can do at all. `Effect`: a step leaves the commands alone or
changes one of them in one of nine ways (it begins, reads, moves on, finishes, looks, finds,
writes, waits or stops); `SocketEffect` is the same for the listeners; uploads only grow, and
so do stores, but for a chunk that a fault shortens while it is being written (`KeptGrows`). Then there is one lemma per part of the invariant. Results: `OutputAlwaysFaithful`
under all faults, `SuccessMeansPresent` for a network without faults and with room,
`CopiesStay`, an action property, under all faults (what `KeptGrows` says of a copy), and
`UnsharedRetrievable`.

The last one is about a number of copies. STORE leaves out a node that offers the hash, so
that the targets are the nearest only if nobody offers it yet: by `Filed` an offer is a
ciphertext under its hash, by `Unshared` it is this upload's, and by `NothingSentAhead` this
upload has not sent it. From then on `HoldersStay`: the set of nodes that keep the chunk or have
it at a listener does not change while chunks move from listeners to stores, and nobody
else gets it, because GET_VALUE brings data to downloads only (`PortsOwned`). Once nothing is
arriving the holders are the copies, and `FirstNCardinality` counts them. This is the one place
where the network is assumed to be finite.

**LookupProofs** (`LookupAssumption`). Nothing is assumed of the answers, nor of the size of
the network, K or Alpha. The first half of the module says what the operators of the buffer
compute. `RankProperty` and `OrderedProperty` show that `Ordered` lists a finite set once and in
order; then filters (`PickProperty`), prefixes, marks, the turns of the loop over the
responses (`TurnsProperty`, by `Upto`) and the sort each get one lemma. They describe a
buffer by its contacts, how often each is in it (`Places`), its marks and its order.

`IInv` adds to the properties what ties these to the histories: `FlagsTrue` (a mark as queried
or responded is a request to, or an answer of, a contact of this id, and a node that counts as
failed has a contact that failed), `AskedAreMarked` (a contact that was asked has no unmarked
entry, until the last round, which marks only the nodes that fail) and `NothingYet` (no result
before the end; a value in the latest round is a storer's). `NoContactAskedTwice` and
`NeverAskedAgain` follow because only entries without the mark are handed out, marks cover all
entries of an id, and the last round comes once. `ResultIsNearest` follows from the order of
the buffer (`ResultProperty`). `AskingNew` and `Recorded` are common to all rounds. Results:
`BufferStaysSorted`, `RequestsBounded`, `NobodyAskedAgain`, `NearestReturned`,
`WitnessesReturned`, `NearestAsked`, and `Progress` for `LookupProgresses`.

## 8. What is only model-checked, and what is not modelled

Only by TLC: liveness, which needs fairness and ENABLED and is beyond the prover
(`EveryCallReturns`, `MessagesHandled`, `TasksEnd`, `ShutdownEnds`, `CacheCatchesUp` and
`CommandsEnd` of `NodeTasks` and of `FileSharing`), and, for the same reason, the absence of
deadlock in `table` and `lookup`. The installed provers cannot use an induction theorem with an
operator as its parameter; `Upto` does instead, with one set of numbers per recursion.

Not modelled: the inside of AES-GCM and SHA-1 and the serialisation of handles and
messages (library calls without state; what they guarantee is in `Seal`, `Opens` and
`Hash`); the YAML syntax, the choice of the IP address, the printing of tables, logging
and test helpers; `last_lookup_at` and `get_node_ids_for_refresh`, `get_chunks_for_reupload`,
`get_chunks_closer_to_node_than_to_me` and `get_files_for_reupload` (reads nothing in
the program calls); the key in the cache file and the storage directory of
`--automatic-storage` (nothing reads them back); wall-clock durations, so not the factor
of 1000 in `networking/tcp_listener.rs` 56.
