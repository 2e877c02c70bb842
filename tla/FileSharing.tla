---------------------------- MODULE FileSharing ----------------------------
(***************************************************************************)
(* Uploading and downloading files over a network of nodes                 *)
(* (src/src/core/node.rs upload_file and download_file with their helpers, *)
(* src/src/sharding/, src/src/storage/file_manager.rs, and the commands    *)
(* upload and download of src/src/main.rs).                                *)
(*                                                                         *)
(* The file is read block by block.  A block becomes a chunk: it is padded *)
(* with random bytes if it is short, its hash is taken BEFORE encryption,  *)
(* and it is encrypted with the key of this upload and a nonce of its own. *)
(* So two uploads of the same full block have the same hash and different  *)
(* ciphertexts.  The storing nodes know the hash only.                     *)
(*                                                                         *)
(* A node stores chunks as module ChunkStore says.  A lookup names any     *)
(* nodes (module Lookup says which ones) and a call may go unanswered      *)
(* (module Rpc).  A TCP port is a socket that takes the bytes of whoever   *)
(* connects first: it may be used again, for a chunk to be stored or for   *)
(* one to be downloaded, while a peer still holds its number.              *)
(*                                                                         *)
(* Every loss, delay beyond a timeout, broken connection, failing disk and *)
(* restart is a fault; their number is bounded, and without any the        *)
(* network is perfect.                                                     *)
(***************************************************************************)
EXTENDS Naturals, Sequences, FiniteSets

CONSTANTS Nodes,      \* a node is a number: its rank by distance to the chunks
          Users,      \* the nodes whose user uploads and downloads
          Ports,      \* TCP ports of each node
          Full,       \* the blocks of CHUNK_DATA_SIZE_KB; other blocks are shorter
          Files,      \* the files users upload: sequences of blocks
          Alpha,      \* ALPHA: replicas of a chunk, and searches in parallel
          MaxShards,  \* MAX_SHARDS_STORED
          MaxBlocks,  \* MAX_FILE_SIZE_MB in blocks
          MaxUploads, \* bound: uploads begun
          MaxFaults,  \* bound: faults
          None        \* no content, no file, no socket

ASSUME SharingAssumption ==
    /\ Nodes \subseteq Nat /\ IsFiniteSet(Nodes)
    /\ Users \subseteq Nodes
    /\ Alpha \in Nat \ {0}
    /\ {MaxShards, MaxBlocks, MaxUploads, MaxFaults} \subseteq Nat

VARIABLES
    source,   \* source[k]: the file of upload k; k is also its encryption key
    meta,     \* meta[k]: FileMetadata.chunks_metadata of upload k
    handles,  \* the uploads whose handle was printed for the user
    uploaded, \* uploaded[n]: the file manager's uploaded_files at node n
    cmd,      \* cmd[n]: the command the user of node n has given
    socket,   \* socket[n][p]: a listener on port p of node n
    asked,    \* GET_VALUE requests on their way
    kept,     \* kept[n][h]: the content of the file of chunk h at node n
    offered,  \* offered[n]: owned_chunks of node n
    pending,  \* pending[n]: the chunks of node n whose file is still being written
    left,     \* left[n]: ports with an entry in data_transfers_table and no listener
    faults

vars == <<source, meta, handles, uploaded, cmd, socket, asked, kept, offered, pending,
          left, faults>>
uploads == <<source, meta, handles, uploaded>>
stores == <<kept, offered, pending, left>>

Uploads == 1 .. MaxUploads
Indices == 1 .. MaxBlocks

\* Hash::from_input of the padded block: a short block has random padding.
Hash(k, i) == IF source[k][i] \in Full THEN source[k][i] ELSE <<k, i>>
Hashes == Full \cup (Uploads \X Indices)

\* encrypt_payload: the ciphertext of block i with the key of upload k and the
\* nonce of the chunk; and what is left of it when a transfer or a write breaks.
Seal(k, i) == [key |-> k, nonce |-> i, plain |-> source[k][i], whole |-> TRUE]
Cut(c) == [c EXCEPT !.whole = FALSE]

\* Mutant: the ciphertext is not authenticated.
OpensAnything(c, k, nonce) == c.whole

\* decrypt_payload succeeds: AES-GCM authenticates the whole ciphertext under its
\* key and nonce.
Opens(c, k, nonce) == c.whole /\ c.key = k /\ c.nonce = nonce

Blocks == UNION {{f[i] : i \in DOMAIN f} : f \in Files}
Contents == [key : Uploads, nonce : Indices, plain : Blocks, whole : BOOLEAN]
ChunkMetadata == [hash : Hashes, nonce : Indices]

\* The store of node n, as it is promised by ChunkStore.
Shorter(c) == {Cut(c)}
Store(n) == INSTANCE ChunkStore WITH
    Chunks <- Hashes, Limit <- MaxShards,
    kept <- kept[n], settled <- Hashes \ pending[n], offered <- offered[n],
    read <- <<None, None>>

\* What a listening socket is for: a chunk to be stored, or a download.
Listener(use) == [use |-> use, data |-> None]
Download == <<0, 0>>
Listeners == [use : Hashes \cup {Download}, data : Contents \cup {None}]

\* A file is a sequence of blocks; None and Download are not mistaken for a value.
ASSUME ValuesAssumption ==
    /\ Files \subseteq Seq(Blocks)
    /\ None \notin Files /\ None \notin Contents /\ None \notin Listeners
    /\ Download \notin Hashes

\* A command: what it is at, the upload it is about, how many chunks it has taken
\* up, the nodes and ports of the current chunk, the storers that were found and
\* the blocks that are written to the output file.
Command(stage, k) == [stage |-> stage, key |-> k, at |-> 0, nodes |-> {}, ports |-> {},
                      storers |-> <<>>, output |-> <<>>]
Idle == Command("idle", 0)
Stages == {"idle", "read", "store", "port", "send", "find", "fetch", "receive",
           "downloaded"}
Commands == [stage : Stages, key : Uploads \cup {0}, at : 0 .. MaxBlocks,
             nodes : SUBSET Nodes, ports : SUBSET (Nodes \X Ports),
             storers : Seq(Nodes), output : Seq(Blocks)]

TypeOK ==
    /\ source \in [Uploads -> {f \in Files : Len(f) <= MaxBlocks} \cup {None}]
    /\ meta \in [Uploads -> Seq(ChunkMetadata)]
    /\ handles \subseteq Uploads
    /\ uploaded \in [Users -> SUBSET Files]
    /\ cmd \in [Users -> Commands]
    /\ socket \in [Nodes -> [Ports -> Listeners \cup {None}]]
    /\ asked \subseteq [to : Nodes, from : Users, port : Ports, hash : Hashes]
    /\ kept \in [Nodes -> [Hashes -> Contents \cup {None}]]
    /\ offered \in [Nodes -> SUBSET Hashes]
    /\ pending \in [Nodes -> SUBSET Hashes]
    /\ left \in [Nodes -> SUBSET Ports]
    /\ faults \in 0 .. MaxFaults

Init ==
    /\ source = [k \in Uploads |-> None]
    /\ meta = [k \in Uploads |-> <<>>]
    /\ handles = {}
    /\ uploaded = [n \in Users |-> {}]
    /\ cmd = [n \in Users |-> Idle]
    /\ socket = [n \in Nodes |-> [p \in Ports |-> None]]
    /\ asked = {}
    /\ kept = [n \in Nodes |-> [h \in Hashes |-> None]]
    /\ offered = [n \in Nodes |-> {}]
    /\ pending = [n \in Nodes |-> {}]
    /\ left = [n \in Nodes |-> {}]
    /\ faults = 0

\* The fault a step may need, or none.
Fault(needed) ==
    /\ needed => faults < MaxFaults
    /\ faults' = IF needed THEN faults + 1 ELSE faults

\* The command of node n ends with an error.
Fail(n) == cmd' = [cmd EXCEPT ![n] = Idle]

------------------------------------------------------------------------------
(* upload_file *)

\* The command line takes one command after the other.
Free(n) == cmd[n].stage \in {"idle", "downloaded"}

\* Mutant: the size of the file is not checked.
StartUploadOfAnySize(n, f) ==
    /\ Free(n)
    /\ LET k == Cardinality({j \in Uploads : source[j] # None}) + 1 IN
       /\ k \in Uploads
       /\ source' = [source EXCEPT ![k] = f]
       /\ cmd' = [cmd EXCEPT ![n] = Command("read", k)]
    /\ UNCHANGED <<meta, handles, uploaded, socket, asked, stores, faults>>

\* The command upload, and FileUploader::new: a fresh encryption key, unless the
\* file is too big.
StartUpload(n, f) ==
    /\ Free(n)
    /\ IF Len(f) > MaxBlocks
       THEN Fail(n) /\ UNCHANGED source
       ELSE LET k == Cardinality({j \in Uploads : source[j] # None}) + 1 IN
            /\ k \in Uploads
            /\ source' = [source EXCEPT ![k] = f]
            /\ cmd' = [cmd EXCEPT ![n] = Command("read", k)]
    /\ UNCHANGED <<meta, handles, uploaded, socket, asked, stores, faults>>

\* get_next_chunk_encrypt: a block is read, hashed and encrypted, and its metadata
\* noted; where reading or encrypting fails, the upload ends.
GetNextChunkEncrypt(n, fails) ==
    LET k == cmd[n].key
        i == cmd[n].at + 1 IN
    /\ cmd[n].stage = "read"
    /\ i <= Len(source[k])
    /\ Fault(fails)
    /\ IF fails THEN Fail(n) /\ UNCHANGED meta
       ELSE /\ meta' = [meta EXCEPT ![k] = Append(@, [hash |-> Hash(k, i), nonce |-> i])]
            /\ cmd' = [cmd EXCEPT ![n] = [@ EXCEPT !.stage = "store", !.at = i]]
    /\ UNCHANGED <<source, handles, uploaded, socket, asked, stores>>

\* Mutant: all responsive nodes are taken.
AllOf(S) == S

\* Mutant: one node too few is taken.
NearestButOne(S) == {m \in S : Cardinality({x \in S : x < m}) + 1 < Alpha}

\* The ALPHA nearest nodes of S.
Nearest(S) == {m \in S : Cardinality({x \in S : x < m}) < Alpha}

\* resolve_alpha_closest_nodes_to_key: find_node names nodes, and STORE is sent to
\* all of them at once; those that answer STORE_OK do not own the chunk.  An owner
\* answers STORE_CHUNK_UPDATED and is left out like one that does not answer.
ResolveAlphaClosestNodes(n, answering) ==
    LET h == Hash(cmd[n].key, cmd[n].at)
        ready == {m \in answering : h \notin offered[m]} IN
    /\ cmd[n].stage = "store"
    /\ answering \subseteq Nodes \ {n}
    /\ Fault(answering # Nodes \ {n})
    /\ IF ready = {} THEN Fail(n)
       ELSE cmd' = [cmd EXCEPT ![n] = [@ EXCEPT !.stage = "port", !.nodes = Nearest(ready)]]
    /\ UNCHANGED <<uploads, socket, asked, stores>>

\* get_ports_for_nodes: the nodes GET_PORT reaches open a listener, node m on p[m].
\* One whose port has an entry from an earlier transfer drops it again and does not
\* answer; an answer may also be lost.
GetPortsForNodes(n, reached, answered, p) ==
    LET h == Hash(cmd[n].key, cmd[n].at)
        opened == {m \in reached : p[m] \notin left[m]} IN
    /\ cmd[n].stage = "port"
    /\ answered \subseteq opened /\ reached \subseteq cmd[n].nodes
    /\ \A m \in reached : socket[m][p[m]] = None
    /\ Fault(reached # cmd[n].nodes \/ answered # opened)
    /\ socket' = [m \in Nodes |->
                    IF m \in opened THEN [socket[m] EXCEPT ![p[m]] = Listener(h)]
                    ELSE socket[m]]
    /\ IF answered = {} THEN Fail(n)
       ELSE cmd' = [cmd EXCEPT ![n] = [@ EXCEPT !.stage = "send", !.nodes = {},
                                            !.ports = {<<m, p[m]>> : m \in answered}]]
    /\ UNCHANGED <<uploads, asked, stores>>

\* Connections are made to the addresses in DOMAIN f, and f[a] is written to a.  A
\* listener takes the bytes of the first connection only.
Connect(f) ==
    socket' = [m \in Nodes |-> [p \in Ports |->
                 IF /\ <<m, p>> \in DOMAIN f
                    /\ socket[m][p] # None
                    /\ socket[m][p].data = None
                 THEN [socket[m][p] EXCEPT !.data = f[<<m, p>>]]
                 ELSE socket[m][p]]]

\* store_chunk sends to all ports at once.  A write succeeds when the bytes are in
\* the socket, and one success is enough.  A connection that breaks may leave a
\* part of the bytes with the listener.
StoreChunk(n, sent, cut) ==
    LET live == {a \in cmd[n].ports : socket[a[1]][a[2]] # None}
        chunk == Seal(cmd[n].key, cmd[n].at) IN
    /\ cmd[n].stage = "send"
    /\ sent \subseteq live /\ cut \subseteq live \ sent
    /\ Fault(sent # live)
    /\ Connect([a \in sent \cup cut |-> IF a \in sent THEN chunk ELSE Cut(chunk)])
    /\ IF sent = {} THEN Fail(n)
       ELSE cmd' = [cmd EXCEPT ![n] = [@ EXCEPT !.stage = "read", !.ports = {}]]
    /\ UNCHANGED <<uploads, asked, stores>>

\* Mutant: a short block is taken for the end of the file.
FinishAtShortBlock(n, grown) ==
    LET k == cmd[n].key
        i == cmd[n].at + 1 IN
    /\ cmd[n].stage = "read"
    /\ i \in DOMAIN source[k] => source[k][i] \notin Full
    /\ Fault(grown)
    /\ uploaded' = [uploaded EXCEPT ![n] = @ \cup {source[k]}]
    /\ IF grown THEN Fail(n) /\ UNCHANGED handles
       ELSE handles' = handles \cup {k} /\ cmd' = [cmd EXCEPT ![n] = Idle]
    /\ UNCHANGED <<source, meta, socket, asked, stores>>

\* The file is at its end: it is entered with the file manager, and the handle is
\* returned, unless the file has grown meanwhile (MetadataNotFilled).
FinishUpload(n, grown) ==
    LET k == cmd[n].key IN
    /\ cmd[n].stage = "read"
    /\ cmd[n].at = Len(source[k])
    /\ Fault(grown)
    /\ uploaded' = [uploaded EXCEPT ![n] = @ \cup {source[k]}]
    /\ IF grown THEN Fail(n) /\ UNCHANGED handles
       ELSE handles' = handles \cup {k} /\ cmd' = [cmd EXCEPT ![n] = Idle]
    /\ UNCHANGED <<source, meta, socket, asked, stores>>

------------------------------------------------------------------------------
(* The storing node *)

Close(n, p) == socket' = [socket EXCEPT ![n][p] = None]

\* Mutant: an existing file is not looked for.
KeepOverOlder(n, p, lost) ==
    LET s == socket[n][p] IN
    /\ s # None
    /\ s.use # Download
    /\ s.data # None
    /\ Fault(lost)
    /\ IF ~ lost /\ Cardinality(offered[n]) < MaxShards
       THEN /\ kept' = [kept EXCEPT ![n][s.use] = s.data]
            /\ offered' = [offered EXCEPT ![n] = @ \cup {s.use}]
            /\ pending' = [pending EXCEPT ![n] = @ \cup {s.use}]
            /\ UNCHANGED left
       ELSE left' = [left EXCEPT ![n] = @ \cup {p}] /\ UNCHANGED <<kept, offered, pending>>
    /\ Close(n, p)
    /\ UNCHANGED <<uploads, cmd, asked>>

\* handle_tcp_upload: what was received is stored under the announced hash if the
\* store takes it; nobody is told when it does not, or when no file can be created, and
\* the entry of the transfer is removed only when the file was created.  The chunk is on
\* offer at once; its file is written in the background.
HandleTcpUpload(n, p, lost) ==
    LET s == socket[n][p] IN
    /\ s # None
    /\ s.use # Download
    /\ s.data # None
    /\ Fault(lost)
    /\ IF ~ lost /\ Store(n)!MayPut(kept[n], offered[n], s.use)
       THEN /\ kept' = [kept EXCEPT ![n][s.use] = s.data]
            /\ offered' = [offered EXCEPT ![n] = @ \cup {s.use}]
            /\ pending' = [pending EXCEPT ![n] = @ \cup {s.use}]
            /\ UNCHANGED left
       ELSE left' = [left EXCEPT ![n] = @ \cup {p}] /\ UNCHANGED <<kept, offered, pending>>
    /\ Close(n, p)
    /\ UNCHANGED <<uploads, cmd, asked>>

\* The background write of a file ends.  An error in it is reported to nobody: the chunk
\* stays on offer and its file short.
Flush(n, h, fails) ==
    /\ h \in pending[n]
    /\ Fault(fails)
    /\ kept' = IF fails THEN [kept EXCEPT ![n][h] = Cut(@)] ELSE kept
    /\ pending' = [pending EXCEPT ![n] = @ \ {h}]
    /\ UNCHANGED <<uploads, cmd, socket, asked, offered, left>>

\* What read_chunk reads: a part of a file that is still being written.
ReadChunk(n, h) == IF h \in pending[n] THEN Cut(kept[n][h]) ELSE kept[n][h]

\* Nobody connects in time to a listener for a chunk.
AcceptTimesOut(n, p) ==
    /\ socket[n][p] # None
    /\ socket[n][p].use # Download
    /\ socket[n][p].data = None
    /\ Fault(\E u \in Users : <<n, p>> \in cmd[u].ports)
    /\ Close(n, p)
    /\ left' = [left EXCEPT ![n] = @ \cup {p}]
    /\ UNCHANGED <<uploads, cmd, asked, kept, offered, pending>>

\* handle_get_value: the file is read and sent to the port in the request; the
\* request may be delivered again, and the transfer may break.
HandleGetValue(r, again, broken) ==
    LET content == ReadChunk(r.to, r.hash) IN
    /\ r \in asked
    /\ Fault(again \/ broken)
    /\ asked' = IF again THEN asked ELSE asked \ {r}
    /\ IF kept[r.to][r.hash] = None THEN UNCHANGED socket
       ELSE Connect([a \in {<<r.from, r.port>>} |->
                    IF broken THEN Cut(content) ELSE content])
    /\ UNCHANGED <<uploads, cmd, stores>>

LoseGetValue(r) ==
    /\ r \in asked
    /\ Fault(TRUE)
    /\ asked' = asked \ {r}
    /\ UNCHANGED <<uploads, cmd, socket, stores>>

\* The node is restarted on the same directory: its files remain, those that were
\* written; one whose write is lost stays short.
Restart(n, lost) ==
    /\ Fault(TRUE)
    /\ lost \subseteq pending[n]
    /\ kept' = [kept EXCEPT ![n] = [h \in Hashes |-> IF h \in lost THEN Cut(@[h]) ELSE @[h]]]
    /\ offered' = [offered EXCEPT ![n] = {}]
    /\ pending' = [pending EXCEPT ![n] = {}]
    /\ left' = [left EXCEPT ![n] = {}]
    /\ socket' = [socket EXCEPT ![n] = [p \in Ports |-> None]]
    /\ IF n \in Users
       THEN /\ cmd' = [cmd EXCEPT ![n] = Idle]
            /\ uploaded' = [uploaded EXCEPT ![n] = {}]
       ELSE UNCHANGED <<cmd, uploaded>>
    /\ UNCHANGED <<source, meta, handles, asked>>

------------------------------------------------------------------------------
(* download_file *)

\* The command download, with a handle somebody was given.
StartDownload(n, k) ==
    /\ Free(n)
    /\ k \in handles
    /\ cmd' = [cmd EXCEPT ![n] = Command("find", k)]
    /\ UNCHANGED <<uploads, socket, asked, stores, faults>>

\* The nodes find_storer may return for hash h: the node itself if it has the
\* file, else a node that answers HAS_VALUE.
Storers(n, h) ==
    IF kept[n][h] # None THEN {n} ELSE {m \in Nodes \ {n} : h \in offered[m]}

\* The indices of the next batch of at most ALPHA chunks.
Batch(n) ==
    LET found == Len(cmd[n].storers) IN
    {i \in Indices : /\ cmd[n].stage = "find"
                     /\ found < i /\ i <= found + Alpha /\ i <= Len(meta[cmd[n].key])}

\* One turn of the loop of find_storers_parallel; the results of join_all are in
\* the order of the batch.
FindStorers(n, storers) ==
    LET c == cmd[n] IN
    /\ c.stage = "find"
    /\ Batch(n) # {}
    /\ Len(storers) = Cardinality(Batch(n))
    /\ \A i \in Batch(n) :
         storers[i - Len(c.storers)] \in Storers(n, meta[c.key][i].hash)
    /\ cmd' = [cmd EXCEPT ![n] = [c EXCEPT !.storers = c.storers \o storers]]
    /\ UNCHANGED <<uploads, socket, asked, stores, faults>>

\* One chunk without a storer ends the download, and so does a lookup that gives up
\* although there is one (module Lookup, FoundValueIsReturned).
FindStorersFails(n) ==
    /\ cmd[n].stage = "find"
    /\ Batch(n) # {}
    /\ Fail(n)
    /\ UNCHANGED <<uploads, socket, asked, stores, faults>>

\* The download goes on after these blocks, or has ended.
Proceed(n, blocks) ==
    LET c == cmd[n] IN
    cmd' = [cmd EXCEPT ![n] =
              IF Len(blocks) = Len(meta[c.key])
              THEN [Command("downloaded", c.key) EXCEPT !.output = blocks]
              ELSE [c EXCEPT !.stage = "fetch", !.at = Len(blocks), !.ports = {},
                             !.output = blocks]]

\* FileDownloader::new creates the file, over an older one, once all chunks have
\* a storer.
CreateOutput(n) ==
    /\ cmd[n].stage = "find"
    /\ Batch(n) = {}
    /\ Proceed(n, <<>>)
    /\ UNCHANGED <<uploads, socket, asked, stores, faults>>

\* store_next_chunk_decrypt: what does not decrypt ends the download and leaves
\* the file as it is; the disk may also fail.
StoreNextChunkDecrypt(n, content, full) ==
    LET i == cmd[n].at + 1
        k == cmd[n].key IN
    /\ Fault(full)
    /\ IF ~ full /\ Opens(content, k, meta[k][i].nonce)
       THEN Proceed(n, Append(cmd[n].output, content.plain))
       ELSE Fail(n)

NextStorer(n) == cmd[n].storers[cmd[n].at + 1]
NextHash(n) == meta[cmd[n].key][cmd[n].at + 1].hash

\* download_chunk_from_storer reads the node's own chunk itself ...
ReadOwnChunk(n, full) ==
    /\ cmd[n].stage = "fetch"
    /\ NextStorer(n) = n
    /\ StoreNextChunkDecrypt(n, ReadChunk(n, NextHash(n)), full)
    /\ UNCHANGED <<uploads, socket, asked, stores>>

\* ... and for another one opens a listener and sends GET_VALUE, which is not
\* answered but by a connection.
SendGetValue(n, p) ==
    /\ cmd[n].stage = "fetch"
    /\ NextStorer(n) # n
    /\ socket[n][p] = None
    /\ socket' = [socket EXCEPT ![n][p] = Listener(Download)]
    /\ asked' = asked \cup {[to |-> NextStorer(n), from |-> n, port |-> p,
                             hash |-> NextHash(n)]}
    /\ cmd' = [cmd EXCEPT ![n] = [@ EXCEPT !.stage = "receive", !.ports = {<<n, p>>}]]
    /\ UNCHANGED <<uploads, stores, faults>>

ReceiveData(n, p, full) ==
    /\ cmd[n].stage = "receive"
    /\ <<n, p>> \in cmd[n].ports
    /\ socket[n][p].data # None
    /\ Close(n, p)
    /\ StoreNextChunkDecrypt(n, socket[n][p].data, full)
    /\ UNCHANGED <<uploads, asked, stores>>

\* Mutant: only a connection that was made can be given up.
ReceiveWithoutTimeout(n, p) ==
    /\ cmd[n].stage = "receive"
    /\ <<n, p>> \in cmd[n].ports
    /\ socket[n][p].data # None
    /\ Fault(TRUE)
    /\ Close(n, p)
    /\ Fail(n)
    /\ UNCHANGED <<uploads, asked, stores>>

\* Nobody connects in time.
ReceiveTimesOut(n, p) ==
    /\ cmd[n].stage = "receive"
    /\ <<n, p>> \in cmd[n].ports
    /\ socket[n][p].data = None
    /\ Fault(\E r \in asked : r.from = n /\ r.port = p)
    /\ Close(n, p)
    /\ Fail(n)
    /\ UNCHANGED <<uploads, asked, stores>>

------------------------------------------------------------------------------
\* The steps of the command of node n.
CommandStep(n) ==
    \/ \E answering \in SUBSET (Nodes \ {n}) : ResolveAlphaClosestNodes(n, answering)
    \/ \E reached \in SUBSET cmd[n].nodes : \E answered \in SUBSET reached :
         \E p \in [reached -> Ports] : GetPortsForNodes(n, reached, answered, p)
    \/ \E sent \in SUBSET cmd[n].ports : \E cut \in SUBSET (cmd[n].ports \ sent) :
         StoreChunk(n, sent, cut)
    \/ \E b \in BOOLEAN : GetNextChunkEncrypt(n, b) \/ FinishUpload(n, b) \/ ReadOwnChunk(n, b)
    \/ \E storers \in [1 .. Cardinality(Batch(n)) -> Nodes] : FindStorers(n, storers)
    \/ FindStorersFails(n)
    \/ CreateOutput(n)
    \/ \E p \in Ports : SendGetValue(n, p) \/ ReceiveTimesOut(n, p)
    \/ \E p \in Ports, b \in BOOLEAN : ReceiveData(n, p, b)

\* What a storing node does by itself: with what came to port p, and
\* with the requests of node u.
StoreStep(n, p) == \E b \in BOOLEAN : HandleTcpUpload(n, p, b)
ValueStep(n, u) == \E r \in asked, again, broken \in BOOLEAN :
                       r.to = n /\ r.from = u /\ HandleGetValue(r, again, broken)

Next ==
    \/ \E n \in Users, f \in Files : StartUpload(n, f)
    \/ \E n \in Users, k \in Uploads : StartDownload(n, k)
    \/ \E n \in Users : CommandStep(n)
    \/ \E n \in Nodes, p \in Ports : StoreStep(n, p) \/ AcceptTimesOut(n, p)
    \/ \E n \in Nodes, u \in Users : ValueStep(n, u)
    \/ \E r \in asked : LoseGetValue(r)
    \/ \E n \in Nodes : \E h \in pending[n], b \in BOOLEAN : Flush(n, h, b)
    \/ \E n \in Nodes : \E lost \in SUBSET pending[n] : Restart(n, lost)

Spec == Init /\ [][Next]_vars

\* Commands and handlers run on, and a listener nobody connects to times out.
\* Fairness of commands is strong because the model's ports are few: a system has
\* far more ports than listeners, so one that needs a port gets it.
Fairness ==
    /\ \A n \in Users : SF_vars(CommandStep(n))
    /\ \A u \in Users : WF_vars(\E n \in Nodes : ValueStep(n, u))
    /\ \A n \in Nodes, p \in Ports : WF_vars(StoreStep(n, p) \/ AcceptTimesOut(n, p))

FairSpec == Spec /\ Fairness

------------------------------------------------------------------------------
(* Properties. *)

\* Whatever arrives at a download, from a copy made by another upload of the same
\* data, from a connection meant for an older listener on the port, or cut short:
\* the file written is a beginning of the file uploaded, and all of it when the
\* user is told of success.
OutputFaithful ==
    \A n \in Users :
        LET c == cmd[n] IN
        /\ c.output # <<>> => c.output = SubSeq(source[c.key], 1, Len(c.output))
        /\ c.stage = "downloaded" => c.output = source[c.key]

\* The bytes of chunk i of upload k are still with a listener.
Arriving(k, i) ==
    \E n \in Nodes, p \in Ports : socket[n][p] # None /\ socket[n][p].data = Seal(k, i)

\* The nodes that keep chunk i of upload k, or are writing it, and those that keep
\* something under its hash.
Copies(k, i) == {n \in Nodes : kept[n][Hash(k, i)] = Seal(k, i)}
Somebody(k, i) == {n \in Nodes : kept[n][Hash(k, i)] # None}
SomebodyFull == \E n \in Nodes : Cardinality(offered[n]) >= MaxShards

\* What a reported success means in a perfect network: of every block somebody
\* keeps a chunk under its hash, not necessarily this upload's, unless a node was
\* full.
SuccessLeavesChunks ==
    faults = 0 /\ ~ SomebodyFull =>
        \A k \in handles : \A i \in DOMAIN source[k] :
            Arriving(k, i) \/ Somebody(k, i) # {}

\* Nobody else uploads the block: its hash belongs to chunk i of upload k only.
Unshared(k, i) ==
    \A j \in Uploads : source[j] # None =>
        \A x \in DOMAIN source[j] : Hash(j, x) = Hash(k, i) => j = k /\ x = i

\* A chunk nobody else uploads is, in a perfect network with room and no port that
\* an earlier transfer has made useless, kept by ALPHA nodes (or all others, if
\* they are fewer), and every node that offers it has this upload's ciphertext: a
\* storer that find_storer returns is a right one, once it has written its file.
UnsharedIsRetrievable ==
    faults = 0 /\ ~ SomebodyFull /\ (\A n \in Nodes : left[n] = {}) =>
        \A k \in handles : \A i \in DOMAIN source[k] :
            Unshared(k, i) /\ ~ Arriving(k, i) =>
                /\ Cardinality(Copies(k, i)) \in {Alpha, Cardinality(Nodes) - 1}
                /\ Cardinality(Copies(k, i)) <= Alpha
                /\ \A n \in Nodes : Hash(k, i) \in offered[n] => n \in Copies(k, i)

\* What may cost an upload a copy of one of its chunks: a fault at the storing node
\* between the offer of the chunk and the end of the write of its file, and nothing
\* else.  A copy that was written outlives later uploads of the same data and every
\* fault; the one a write error has cut short is not repaired by them either.
CopiesSurvive ==
    [][/\ \A k \in Uploads : source[k] # None =>
            \A i \in DOMAIN source[k] : \A n \in Copies(k, i) \ Copies(k, i)' :
                faults' = faults + 1 /\ Hash(k, i) \in pending[n] \ pending'[n]
       /\ \A n \in Nodes, h \in Hashes :
            kept[n][h] # None /\ h \notin pending[n] => kept'[n][h] = kept[n][h]]_vars

\* Every upload and download comes to an end, whatever is lost: GET_VALUE is not
\* answered, so only the wait for a connection ends a download whose request or
\* storer is gone.  (A peer that connects and then stalls is not in this model: it
\* holds the reader for ever, see TasksEnd of ShardStorage.)
CommandsEnd == \A n \in Users : ~ Free(n) ~> Free(n)

------------------------------------------------------------------------------
(* The inductive invariant. *)

\* Keys are drawn one after the other, so that none is drawn twice.
Begun == {k \in Uploads : source[k] # None}
KeysInOrder == \E last \in 0 .. MaxUploads : Begun = 1 .. last

\* The metadata of an upload names the blocks of its file from the first on, all of
\* them when its handle is out.
MetadataTrue ==
    /\ \A k \in Uploads \ Begun : meta[k] = <<>>
    /\ \A k \in Begun : Len(meta[k]) <= Len(source[k])
    /\ \A k \in Begun : \A i \in DOMAIN meta[k] :
         meta[k][i] = [hash |-> Hash(k, i), nonce |-> i]
    /\ \A k \in handles : k \in Begun /\ Len(meta[k]) = Len(source[k])

\* No two commands upload with the same key, and none under a handle that is out.
IsUploading(n) == cmd[n].stage \in {"read", "store", "port", "send"}
UploadersApart ==
    \A n \in Users : IsUploading(n) =>
        /\ cmd[n].key \in Begun \ handles
        /\ cmd[n].at = Len(meta[cmd[n].key])
        /\ cmd[n].stage # "read" => cmd[n].at # 0
        /\ \A u \in Users \ {n} : IsUploading(u) => cmd[u].key # cmd[n].key

\* Every ciphertext there is, in a store or in a socket, is that of a block under
\* its key and nonce.
Authentic(c) ==
    /\ c.key \in Begun
    /\ c.nonce \in DOMAIN source[c.key]
    /\ c.plain = source[c.key][c.nonce]

ContentsAuthentic ==
    /\ \A n \in Nodes, h \in Hashes : kept[n][h] # None => Authentic(kept[n][h])
    /\ \A n \in Nodes, p \in Ports :
         socket[n][p] # None /\ socket[n][p].data # None => Authentic(socket[n][p].data)

\* A download has written the blocks before the one it is at; it reads a chunk of
\* its own node only if the chunk is there, and it waits at a listener of its own.
DownloadTrue(n) ==
    LET c == cmd[n]
        inFile == c.stage \in {"fetch", "receive"} IN
    /\ inFile \/ c.stage \in {"find", "downloaded"} => c.key \in handles
    /\ inFile \/ c.stage = "downloaded" \/ c.output = <<>>
    /\ \A i \in DOMAIN c.output :
         i \in DOMAIN source[c.key] /\ c.output[i] = source[c.key][i]
    /\ c.stage = "downloaded" => Len(c.output) = Len(source[c.key])
    /\ inFile => /\ c.at = Len(c.output)
                 /\ c.at < Len(meta[c.key])
                 /\ Len(meta[c.key]) <= Len(c.storers)
    /\ inFile \/ c.stage = "find" =>
         \A i \in DOMAIN c.storers \cap DOMAIN meta[c.key] :
            c.storers[i] = n => kept[n][meta[c.key][i].hash] # None
    /\ c.stage = "receive" =>
         \E p \in Ports : /\ c.ports = {<<n, p>>}
                          /\ socket[n][p] # None /\ socket[n][p].use = Download
DownloadsTrue == \A n \in Users : DownloadTrue(n)

\* As long as nothing has failed, the ports a command holds are its own: an upload's
\* are there for its chunk and nobody has connected yet, and the one GET_VALUE of a
\* download is on its way only while the download waits for it.
PortsOwned ==
    /\ \A n \in Users : \A a \in cmd[n].ports :
         /\ socket[a[1]][a[2]] # None
         /\ cmd[n].stage \in {"send", "receive"}
         /\ cmd[n].stage = "send" =>
              socket[a[1]][a[2]] = Listener(Hash(cmd[n].key, cmd[n].at))
         /\ \A u \in Users \ {n} : a \notin cmd[u].ports
    /\ \A n \in Users : cmd[n].stage = "send" => cmd[n].ports # {}
    /\ \A r \in asked :
         /\ cmd[r.from].stage = "receive"
         /\ <<r.from, r.port>> \in cmd[r.from].ports
         /\ socket[r.from][r.port].data = None
         /\ \A q \in asked : q.from = r.from => q = r

\* A chunk whose file is being written has one, and is on offer.
PendingKept == \A n \in Nodes : \A h \in pending[n] : kept[n][h] # None /\ h \in offered[n]

\* ... and of every block that was sent somebody keeps a chunk or is about to.
Present(k, i) ==
    \/ Somebody(k, i) # {}
    \/ \E n \in Nodes, p \in Ports :
         socket[n][p] = [use |-> Hash(k, i), data |-> Seal(k, i)]

SentArePresent ==
    /\ \A k \in handles : \A i \in DOMAIN source[k] : Present(k, i)
    /\ \A n \in Users : IsUploading(n) =>
         \A i \in 1 .. cmd[n].at :
            i # cmd[n].at \/ cmd[n].stage = "read" => Present(cmd[n].key, i)

\* As long as nothing has failed, what is in a store or on its way to one is a whole
\* ciphertext under its own hash, and what a node offers is in its store.  (What is on
\* its way to a download may be a part of one.)
Sealed(c) == c = Seal(c.key, c.nonce)

Filed ==
    /\ \A n \in Nodes, h \in Hashes : kept[n][h] # None =>
         Sealed(kept[n][h]) /\ Hash(kept[n][h].key, kept[n][h].nonce) = h
    /\ \A n \in Nodes, p \in Ports :
         /\ socket[n][p] # None /\ socket[n][p].data # None
         /\ socket[n][p].use # Download
         => LET c == socket[n][p].data IN
            Sealed(c) /\ socket[n][p].use = Hash(c.key, c.nonce)
    /\ \A n \in Nodes : \A h \in offered[n] : kept[n][h] # None

\* ... a chunk, or a part of one, is nowhere before its upload has sent it,
IsPart(c, k, i) == c.key = k /\ c.nonce = i
There(k, i) ==
    \/ \E n \in Nodes, h \in Hashes : kept[n][h] # None /\ IsPart(kept[n][h], k, i)
    \/ \E n \in Nodes, p \in Ports :
         socket[n][p] # None /\ socket[n][p].data # None /\ IsPart(socket[n][p].data, k, i)

HasSent(n, i) == i < cmd[n].at \/ (i = cmd[n].at /\ cmd[n].stage = "read")

NothingSentAhead ==
    \A n \in Users : IsUploading(n) =>
        \A i \in Indices : There(cmd[n].key, i) => HasSent(n, i)

\* ... and, if also no node is full and no port is useless, a block that nobody else
\* uploads goes to the nearest nodes and to no others.
Calm == faults = 0 /\ ~ SomebodyFull /\ \A n \in Nodes : left[n] = {}

Targets(n) == Nearest(Nodes \ {n})

TargetsChosen ==
    \A n \in Users : cmd[n].stage \in {"port", "send"} /\ Unshared(cmd[n].key, cmd[n].at) =>
        Targets(n) = IF cmd[n].stage = "port" THEN cmd[n].nodes
                     ELSE {a[1] : a \in cmd[n].ports}

Sent(k, i) ==
    \/ k \in handles
    \/ \E n \in Users : IsUploading(n) /\ cmd[n].key = k /\ HasSent(n, i)

Holders(k, i) ==
    Copies(k, i) \cup
    {n \in Nodes : \E p \in Ports : socket[n][p] = [use |-> Hash(k, i), data |-> Seal(k, i)]}

TargetsHold ==
    \A k \in Begun : \A i \in DOMAIN source[k] :
        Sent(k, i) /\ Unshared(k, i) => \E n \in Users : Holders(k, i) = Targets(n)

IInv ==
    /\ TypeOK
    /\ KeysInOrder
    /\ MetadataTrue
    /\ UploadersApart
    /\ ContentsAuthentic
    /\ DownloadsTrue
    /\ PendingKept
    /\ \A n \in Nodes : IsFiniteSet(offered[n])
    /\ faults = 0 => PortsOwned
    /\ faults = 0 /\ ~ SomebodyFull => SentArePresent
    /\ faults = 0 => Filed /\ NothingSentAhead
    /\ Calm => TargetsChosen /\ TargetsHold

------------------------------------------------------------------------------
(* What the comments in the code say. *)

\* file_manager.rs:38 "This should be called when file is successfully uploaded to
\* the network": of a file that is entered every chunk is in the network.
EnteredIsStored ==
    faults = 0 =>
        \A n \in Users : \A f \in uploaded[n] :
            \E k \in Uploads :
                /\ source[k] = f
                /\ \A i \in DOMAIN f : Arriving(k, i) \/ Copies(k, i) # {}
=============================================================================
