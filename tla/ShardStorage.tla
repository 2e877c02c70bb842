---------------------------- MODULE ShardStorage ----------------------------
(***************************************************************************)
(* The chunk store of one node and the requests that use it                *)
(* (src/src/storage/shard_storage_manager.rs, data_transfers_table.rs,     *)
(* src/src/core/request_handler.rs STORE, GET_PORT, FIND_VALUE, GET_VALUE, *)
(* src/src/networking/tcp_listener.rs).                                    *)
(*                                                                         *)
(* The manager is behind one RwLock.  The map of owned chunks and the      *)
(* table of announced transfers live in memory, the chunks in files: a     *)
(* restart loses the former and keeps the latter.  A file is written by    *)
(* tokio::fs, whose write_all only hands the bytes to a background thread  *)
(* (a chunk is smaller than its buffer of 2 MiB) and whose errors are lost *)
(* when the file is dropped without a flush.                               *)
(*                                                                         *)
(* The data of a chunk is "whole", or "truncated" when its sender died     *)
(* (read_to_end ends at the close of the stream, and only an upper bound   *)
(* of the size is checked), or "empty".  The memory limit of 4 GiB is not  *)
(* modelled: total_stored_kb is never changed, so the check of lines 87-89 *)
(* compares a constant with a chunk and always passes.                     *)
(***************************************************************************)
EXTENDS Naturals, FiniteSets

CONSTANTS Chunks,      \* chunk hashes
          Ports,       \* the ports the system gives to listeners
          Tasks,       \* concurrent handlers of requests
          MaxShards,   \* MAX_SHARDS_STORED
          Sweeps,      \* does anybody call remove_dead_chunks?
          Faults,      \* may file operations fail?
          MaxRestarts, \* bound: restarts of the node
          None         \* no chunk, no port, no task, no data

ASSUME StorageAssumption ==
    /\ MaxShards \in Nat \ {0}
    /\ {Sweeps, Faults} \subseteq BOOLEAN
    /\ MaxRestarts \in Nat
    /\ None \notin Chunks \cup Ports \cup Tasks \cup {"empty", "truncated", "whole"}

Data == {"empty", "truncated", "whole"}

\* What writing or reading only a part of data d leaves.
Shorter(d) == IF d = "empty" THEN {"empty"} ELSE {"empty", "truncated"}

VARIABLES
    owned,     \* owned_chunks
    expired,   \* the owned chunks stored at least expire_time_s ago
    transfers, \* data_transfers_table: port to chunk
    disk,      \* disk[c]: the content of the file of chunk c
    flushing,  \* flushing[c]: data the background thread has yet to write
    writer,    \* the task that holds the write guard across an await
    stage,     \* stage[t]: what task t is doing
    chunk,     \* chunk[t]: the chunk it does it for
    port,      \* port[t]: the port of its listener
    data,      \* data[t]: what it received
    dead,      \* the chunks a sweep has yet to delete
    promised,  \* the chunks some downloader was told HAS_VALUE of
    served,    \* <<chunk, content>> read for the latest GET_VALUE
    restarts

memory == <<owned, expired, transfers>>
files == <<disk, flushing>>
tasks == <<writer, stage, chunk, port, data, dead>>
readers == <<promised, served>>
vars == <<memory, files, tasks, readers, restarts>>

Stages == {"idle", "update", "bound", "answer", "listening", "reading", "received",
           "create", "sweep", "connecting", "writing"}

TypeOK ==
    /\ owned \subseteq Chunks
    /\ expired \subseteq owned
    /\ transfers \in [Ports -> Chunks \cup {None}]
    /\ disk \in [Chunks -> Data \cup {None}]
    /\ flushing \in [Chunks -> Data \cup {None}]
    /\ writer \in Tasks \cup {None}
    /\ stage \in [Tasks -> Stages]
    /\ chunk \in [Tasks -> Chunks \cup {None}]
    /\ port \in [Tasks -> Ports \cup {None}]
    /\ data \in [Tasks -> Data \cup {None}]
    /\ dead \subseteq Chunks
    /\ promised \subseteq Chunks
    /\ served \in (Chunks \cup {None}) \X (Data \cup {None})
    /\ restarts \in 0 .. MaxRestarts

\* ShardStorageManager::new: nothing is read from the storage directory.
Init ==
    /\ owned = {}
    /\ expired = {}
    /\ transfers = [p \in Ports |-> None]
    /\ writer = None
    /\ stage = [t \in Tasks |-> "idle"]
    /\ chunk = [t \in Tasks |-> None]
    /\ port = [t \in Tasks |-> None]
    /\ data = [t \in Tasks |-> None]
    /\ dead = {}
    /\ disk = [c \in Chunks |-> None]
    /\ flushing = [c \in Chunks |-> None]
    /\ promised = {}
    /\ served = <<None, None>>
    /\ restarts = 0

\* Task t goes on to stage s; going idle drops its listener and its guard.
Goto(t, s) == stage' = [stage EXCEPT ![t] = s]
Finish(t) ==
    /\ Goto(t, "idle")
    /\ chunk' = [chunk EXCEPT ![t] = None]
    /\ port' = [port EXCEPT ![t] = None]
    /\ data' = [data EXCEPT ![t] = None]
    /\ writer' = IF writer = t THEN None ELSE writer
    /\ dead' = IF writer = t THEN {} ELSE dead

\* No task holds the write guard: a section of code without an await may run.
LockFree == writer = None

------------------------------------------------------------------------------
(* STORE *)

\* handle_store_message, under the read lock.  A chunk that is not owned is
\* answered STORE_OK, with nothing noted; for an owned one the task goes on to
\* ask for the write lock.
StoreRequest(t, c) ==
    /\ stage[t] = "idle"
    /\ LockFree
    /\ c \in owned
    /\ Goto(t, "update")
    /\ chunk' = [chunk EXCEPT ![t] = c]
    /\ UNCHANGED <<memory, files, writer, port, data, dead, readers, restarts>>

\* update_chunk_upload_time; the answer is STORE_CHUNK_UPDATED even if the chunk
\* is gone by now.
UpdateChunkUploadTime(t) ==
    /\ stage[t] = "update"
    /\ LockFree
    /\ expired' = expired \ {chunk[t]}
    /\ Finish(t)
    /\ UNCHANGED <<owned, transfers, files, readers, restarts>>

------------------------------------------------------------------------------
(* GET_PORT and the upload that follows it *)

\* TcpListenerService::new: the system picks a port nobody listens on.
GetPortRequest(t, c, p) ==
    /\ stage[t] = "idle"
    /\ p \notin {port[u] : u \in Tasks}
    /\ Goto(t, "bound")
    /\ chunk' = [chunk EXCEPT ![t] = c]
    /\ port' = [port EXCEPT ![t] = p]
    /\ UNCHANGED <<memory, files, writer, data, dead, readers, restarts>>

\* Mutant: an entry left on the port is kept, and the request answered.
AddUnlessPresent(t) ==
    /\ stage[t] = "bound"
    /\ LockFree
    /\ transfers' = [transfers EXCEPT ![port[t]] = IF @ = None THEN chunk[t] ELSE @]
    /\ Goto(t, "answer")
    /\ UNCHANGED <<owned, expired, files, writer, chunk, port, data, dead, readers,
                   restarts>>

\* Mutant: an entry left on the port is overwritten, and the request answered.
AddOverwriting(t) ==
    /\ stage[t] = "bound"
    /\ LockFree
    /\ transfers' = [transfers EXCEPT ![port[t]] = chunk[t]]
    /\ Goto(t, "answer")
    /\ UNCHANGED <<owned, expired, files, writer, chunk, port, data, dead, readers,
                   restarts>>

\* add_active_tcp_connection.  An entry left on the port is overwritten, and
\* then taken for an error: the request is not answered.
AddActiveTcpConnection(t) ==
    /\ stage[t] = "bound"
    /\ LockFree
    /\ transfers' = [transfers EXCEPT ![port[t]] = chunk[t]]
    /\ IF transfers[port[t]] = None
       THEN Goto(t, "answer") /\ UNCHANGED <<writer, chunk, port, data, dead>>
       ELSE Finish(t)
    /\ UNCHANGED <<owned, expired, files, readers, restarts>>

\* PORT_OK is sent and the receiving task spawned, or the send fails.
AnswerPort(t) ==
    /\ stage[t] = "answer"
    /\ Goto(t, "listening") /\ UNCHANGED <<writer, chunk, port, data, dead>>
    /\ UNCHANGED <<memory, files, readers, restarts>>

AnswerPortFails(t) ==
    /\ stage[t] = "answer"
    /\ Finish(t)
    /\ UNCHANGED <<memory, files, readers, restarts>>

\* receive_data: a connection is accepted, or none comes in time ...
Accept(t) ==
    /\ stage[t] = "listening"
    /\ Goto(t, "reading")
    /\ UNCHANGED <<memory, files, writer, chunk, port, data, dead, readers, restarts>>

AcceptTimesOut(t) ==
    /\ stage[t] = "listening"
    /\ Finish(t)
    /\ UNCHANGED <<memory, files, readers, restarts>>

\* ... and the sender's bytes are read to the end of its stream, or it breaks;
\* no timeout is set on this.
ReceiveData(t, d) ==
    /\ stage[t] = "reading"
    /\ Goto(t, "received")
    /\ data' = [data EXCEPT ![t] = d]
    /\ UNCHANGED <<memory, files, writer, chunk, port, dead, readers, restarts>>

ReceiveFails(t) ==
    /\ stage[t] = "reading"
    /\ Finish(t)
    /\ UNCHANGED <<memory, files, readers, restarts>>

\* Mutant: an existing file is not looked for.
StorableOverFile(t) ==
    /\ transfers[port[t]] # None
    /\ Cardinality(owned) < MaxShards

\* The checks of store_chunk_for_known_peer, up to its await of File::create.
Storable(t) ==
    /\ transfers[port[t]] # None
    /\ Cardinality(owned) < MaxShards
    /\ disk[transfers[port[t]]] = None

\* Mutant: the chunk is entered into the map before its file exists.
OwnBeforeCreate(t) ==
    /\ stage[t] = "received"
    /\ LockFree
    /\ Storable(t)
    /\ Goto(t, "create")
    /\ writer' = t
    /\ owned' = owned \cup {transfers[port[t]]}
    /\ UNCHANGED <<expired, transfers, files, chunk, port, data, dead, readers,
                   restarts>>

StoreChunkForKnownPeer(t) ==
    /\ stage[t] = "received"
    /\ LockFree
    /\ IF Storable(t)
       THEN /\ Goto(t, "create")
            /\ writer' = t
            /\ UNCHANGED <<chunk, port, data, dead>>
       ELSE Finish(t)
    /\ UNCHANGED <<memory, files, readers, restarts>>

\* File::create returns: the transfer is done with, the data is handed to the
\* background thread and the chunk is owned, in one go.
CreateFile(t) ==
    /\ stage[t] = "create"
    /\ LET c == transfers[port[t]] IN
         /\ disk' = [disk EXCEPT ![c] = "empty"]
         /\ flushing' = [flushing EXCEPT ![c] = data[t]]
         /\ owned' = owned \cup {c}
         /\ expired' = expired \ {c}
    /\ transfers' = [transfers EXCEPT ![port[t]] = None]
    /\ Finish(t)
    /\ UNCHANGED <<readers, restarts>>

\* Mutant: the write guard survives the error.
CreateFailsKeepingGuard(t) ==
    /\ Faults
    /\ stage[t] = "create"
    /\ Goto(t, "idle")
    /\ UNCHANGED <<memory, files, writer, chunk, port, data, dead, readers, restarts>>

CreateFileFails(t) ==
    /\ Faults
    /\ stage[t] = "create"
    /\ Finish(t)
    /\ UNCHANGED <<memory, files, readers, restarts>>

\* What the file of c may contain while, or after, its writing is interrupted.
Partial(c) == Shorter(flushing[c])

\* The background thread of tokio::fs ends, with all of the data in the file or,
\* on an error that nobody is told of, with less.
Flush(c, content) ==
    /\ flushing[c] # None
    /\ content = flushing[c] \/ (Faults /\ content \in Partial(c))
    /\ disk' = [disk EXCEPT ![c] = content]
    /\ flushing' = [flushing EXCEPT ![c] = None]
    /\ UNCHANGED <<memory, tasks, readers, restarts>>

------------------------------------------------------------------------------
(* FIND_VALUE and GET_VALUE *)

\* handle_find_value_message answers HAS_VALUE from the map of owned chunks.
FindValue(c) ==
    /\ LockFree
    /\ c \in owned
    /\ promised' = promised \cup {c}
    /\ UNCHANGED <<memory, files, tasks, served, restarts>>

\* handle_get_value reads the file of any chunk, owned or not, under the read lock;
\* the file may still be being written.  Without one the handler returns, and the
\* downloader is not told.
GetValue(t, c, content) ==
    /\ stage[t] = "idle"
    /\ LockFree
    /\ disk[c] # None
    /\ content \in IF flushing[c] = None THEN {disk[c]} ELSE Partial(c)
    /\ served' = <<c, content>>
    /\ Goto(t, "connecting")
    /\ UNCHANGED <<memory, files, writer, chunk, port, data, dead, promised, restarts>>

\* The handler itself then connects to the downloader, which the system ends one way
\* or the other ...
ConnectToPeer(t) ==
    /\ stage[t] = "connecting"
    /\ Goto(t, "writing")
    /\ UNCHANGED <<memory, files, writer, chunk, port, data, dead, readers, restarts>>

ConnectFails(t) ==
    /\ stage[t] = "connecting"
    /\ Finish(t)
    /\ UNCHANGED <<memory, files, readers, restarts>>

\* ... and writes until the peer has taken the bytes or the connection breaks; no
\* timeout is set on this.
WriteEnds(t) ==
    /\ stage[t] = "writing"
    /\ Finish(t)
    /\ UNCHANGED <<memory, files, readers, restarts>>

------------------------------------------------------------------------------
(* remove_dead_chunks *)

\* The expire time of a chunk passes (its file was written long ago).
Expire(c) ==
    /\ c \in owned
    /\ flushing[c] = None
    /\ expired' = expired \cup {c}
    /\ UNCHANGED <<owned, transfers, files, tasks, readers, restarts>>

RemoveDeadChunks(t) ==
    /\ Sweeps
    /\ stage[t] = "idle"
    /\ LockFree
    /\ expired # {}
    /\ writer' = t
    /\ Goto(t, "sweep")
    /\ dead' = expired
    /\ UNCHANGED <<memory, files, chunk, port, data, readers, restarts>>

\* One turn of its loop: the file of a dead chunk is deleted ...
DeleteFile(t, c) ==
    /\ stage[t] = "sweep"
    /\ c \in dead
    /\ disk[c] # None
    /\ disk' = [disk EXCEPT ![c] = None]
    /\ dead' = dead \ {c}
    /\ UNCHANGED <<memory, flushing, writer, stage, chunk, port, data, readers,
                   restarts>>

\* ... or cannot be, and the rest is left alone, the map as it was.
DeleteFileFails(t, c) ==
    /\ stage[t] = "sweep"
    /\ c \in dead
    /\ disk[c] = None \/ Faults
    /\ Finish(t)
    /\ UNCHANGED <<memory, files, readers, restarts>>

\* Mutant: the expiry of removed chunks is kept.
RetainExpiry(t) ==
    /\ stage[t] = "sweep"
    /\ dead = {}
    /\ owned' = owned \ expired
    /\ Finish(t)
    /\ UNCHANGED <<expired, transfers, files, readers, restarts>>

\* All files are gone: the dead chunks leave the map.
RetainLiving(t) ==
    /\ stage[t] = "sweep"
    /\ dead = {}
    /\ owned' = owned \ expired
    /\ expired' = {}
    /\ Finish(t)
    /\ UNCHANGED <<transfers, files, readers, restarts>>

------------------------------------------------------------------------------
\* The node is stopped, or crashes, and is started again on the same directory;
\* what was being written to a file may have got there or not.
Restart ==
    /\ restarts < MaxRestarts
    /\ restarts' = restarts + 1
    /\ owned' = {}
    /\ expired' = {}
    /\ transfers' = [p \in Ports |-> None]
    /\ writer' = None
    /\ stage' = [t \in Tasks |-> "idle"]
    /\ chunk' = [t \in Tasks |-> None]
    /\ port' = [t \in Tasks |-> None]
    /\ data' = [t \in Tasks |-> None]
    /\ dead' = {}
    /\ flushing' = [c \in Chunks |-> None]
    /\ disk' \in {f \in [Chunks -> Data \cup {None}] :
                    \A c \in Chunks : f[c] \in IF flushing[c] = None THEN {disk[c]}
                                              ELSE {flushing[c]} \cup Partial(c)}
    /\ UNCHANGED readers

\* What a task does by itself once a request has set it going.
TaskStep(t) ==
    \/ UpdateChunkUploadTime(t)
    \/ AddActiveTcpConnection(t)
    \/ AnswerPort(t)
    \/ AnswerPortFails(t)
    \/ AcceptTimesOut(t)
    \/ StoreChunkForKnownPeer(t)
    \/ CreateFile(t)
    \/ CreateFileFails(t)
    \/ \E c \in Chunks : DeleteFile(t, c) \/ DeleteFileFails(t, c)
    \/ RetainLiving(t)
    \/ ConnectToPeer(t)
    \/ ConnectFails(t)

Next ==
    \/ \E t \in Tasks, c \in Chunks : StoreRequest(t, c)
    \/ \E t \in Tasks, c \in Chunks, p \in Ports : GetPortRequest(t, c, p)
    \/ \E t \in Tasks : Accept(t) \/ ReceiveFails(t) \/ WriteEnds(t)
    \/ \E t \in Tasks, d \in Data : ReceiveData(t, d)
    \/ \E t \in Tasks : TaskStep(t)
    \/ \E t \in Tasks : RemoveDeadChunks(t)
    \/ \E c \in Chunks, d \in Data : Flush(c, d)
    \/ \E c \in Chunks : FindValue(c) \/ Expire(c)
    \/ \E t \in Tasks, c \in Chunks, d \in Data : GetValue(t, c, d)
    \/ Restart

Spec == Init /\ [][Next]_vars

\* Tasks run on, accept times out, and the background thread ends its writes.
\* Nothing is assumed of a peer, so nothing of Accept, the reading and the writing.
\* Fairness of tasks is strong because the lock is: tokio's RwLock serves its
\* waiters first come first served, so a task that needs it gets its turn.
Fairness ==
    /\ \A t \in Tasks : SF_vars(TaskStep(t))
    /\ \A c \in Chunks : WF_vars(\E d \in Data : Flush(c, d))
    /\ Sweeps => \A t \in Tasks : WF_vars(RemoveDeadChunks(t))

FairSpec == Spec /\ Fairness

------------------------------------------------------------------------------
(* Properties. *)

\* The bytes of an upload end up under the hash they were announced with, also
\* on a port that was used before: a listening task finds its own transfer.
DataGoesToItsChunk ==
    \A t \in Tasks :
        stage[t] \in {"answer", "listening", "reading", "received", "create"} =>
            transfers[port[t]] = chunk[t]

\* A transfer whose listener is gone is never removed while the node runs, so
\* every later GET_PORT that is given the port goes unanswered.
Abandoned(p) ==
    /\ transfers[p] # None
    /\ \A t \in Tasks :
         port[t] = p => stage[t] = "bound"

PortStaysDead ==
    [][restarts' = restarts => \A p \in Ports : Abandoned(p) => Abandoned(p)']_vars

\* A chunk that a downloader was told of (HAS_VALUE) has a file, and keeps it
\* through failing uploads and restarts.  This is about the node as it runs,
\* without sweeps: one that fails half way leaves chunks in the map whose files
\* are gone.
PromisesKept == \A c \in promised : disk[c] # None

\* The inductive invariant behind these properties and the contract below.  A port
\* has one listener.
Uploading == {"bound", "answer", "listening", "reading", "received", "create"}
Listeners ==
    /\ \A t, u \in Tasks : port[t] = port[u] /\ port[t] # None => t = u
    /\ \A t \in Tasks : stage[t] \in Uploading => port[t] # None /\ chunk[t] # None
    /\ \A t \in Tasks : stage[t] \in {"received", "create"} => data[t] # None

\* The write guard is held from the check of a store to the creation of its file, so
\* that what was checked still holds, and for the whole of a sweep, so that a chunk
\* to be deleted stays expired.
Guarded ==
    /\ \A t \in Tasks : writer = t <=> stage[t] \in {"create", "sweep"}
    /\ \A t \in Tasks : stage[t] = "create" => Storable(t)
    /\ writer = None => dead = {}
    /\ dead \subseteq expired

\* Only files that are there are being written, and not those of expired chunks.
Written ==
    /\ \A c \in Chunks : flushing[c] # None => disk[c] # None
    /\ \A c \in expired : flushing[c] = None

\* Without sweeps, a chunk of the map has its file.
OwnedHaveFiles ==
    /\ \A t \in Tasks : stage[t] # "sweep"
    /\ \A c \in owned : disk[c] # None

IInv ==
    /\ TypeOK
    /\ Listeners
    /\ DataGoesToItsChunk
    /\ Guarded
    /\ Written
    /\ ~ Sweeps => OwnedHaveFiles /\ PromisesKept

\* No handler is held up for ever and no guard kept: not by a peer that never
\* connects or cannot be reached, not by a failing disk.  Only a peer that connects
\* and sends nothing, or is connected to and takes nothing, can: neither wait has a
\* timeout.
AtPeer(t) == stage[t] \in {"reading", "writing"}
TasksEnd ==
    \A t \in Tasks : stage[t] # "idle" ~> stage[t] = "idle" \/ AtPeer(t)

\* The node keeps the contract of a chunk store (module ChunkStore): what a chunk
\* contains is what is still to be flushed or else the file, and the chunks in
\* the map are the ones on offer.  However many uploads end at the same time, and
\* after a restart that has forgotten the map: a chunk on disk is not overwritten,
\* the limit is kept, nobody deletes or recreates a file while its bytes are still
\* being written, and what GET_VALUE sends was stored under the hash it is asked for.
Content == [c \in Chunks |-> IF flushing[c] = None THEN disk[c] ELSE flushing[c]]
Settled == {c \in Chunks : flushing[c] = None}

Store == INSTANCE ChunkStore WITH
    Contents <- Data,
    Limit <- MaxShards,
    kept <- Content,
    settled <- Settled,
    offered <- owned,
    read <- served

StoreContract == Store!Spec
=============================================================================
