------------------------ MODULE ShardStorageProofs ------------------------
(***************************************************************************)
(* Proofs about module ShardStorage, for any number of chunks, ports,      *)
(* concurrent handlers and restarts: the inductive invariant, what it      *)
(* implies with and without sweeps, and, without sweeps, that the node     *)
(* implements the contract of module ChunkStore.                           *)
(***************************************************************************)
EXTENDS ShardStorage, TLAPS

USE DEF Data

\* What None is not.
LEMMA NoneIsNone ==
  /\ None \notin Chunks /\ None \notin Ports /\ None \notin Tasks
  /\ None # "empty" /\ None # "truncated" /\ None # "whole"
  BY StorageAssumption

\* What is left of data is data.
LEMMA ShorterIsData == \A d \in Data : Shorter(d) \subseteq Data
  BY DEF Shorter

\* A task that ends leaves its listener and its guard.
LEMMA FinishProperty ==
  ASSUME TypeOK, NEW t \in Tasks, Finish(t)
  PROVE  /\ stage' \in [Tasks -> Stages] /\ chunk' \in [Tasks -> Chunks \cup {None}]
         /\ port' \in [Tasks -> Ports \cup {None}] /\ data' \in [Tasks -> Data \cup {None}]
         /\ writer' \in Tasks \cup {None} /\ dead' \subseteq Chunks
         /\ writer' = IF writer = t THEN None ELSE writer
         /\ dead' = IF writer = t THEN {} ELSE dead
         /\ stage'[t] = "idle" /\ port'[t] = None
         /\ \A u \in Tasks \ {t} : /\ stage'[u] = stage[u] /\ chunk'[u] = chunk[u]
                                   /\ port'[u] = port[u] /\ data'[u] = data[u]
  BY DEF TypeOK, Finish, Goto, Stages

\* An empty store satisfies the invariant.
LEMMA InitIInv == Init => IInv
  <1> SUFFICES ASSUME Init PROVE IInv
    OBVIOUS
  <1> USE NoneIsNone
  <1>1. TypeOK
    BY StorageAssumption DEF Init, TypeOK, Stages
  <1>2. Listeners /\ DataGoesToItsChunk
    BY DEF Init, Listeners, DataGoesToItsChunk, Uploading
  <1>3. Guarded /\ Written
    BY DEF Init, Guarded, Written
  <1>4. OwnedHaveFiles /\ PromisesKept
    BY DEF Init, OwnedHaveFiles, PromisesKept
  <1> QED BY <1>1, <1>2, <1>3, <1>4 DEF IInv

\* A task about to create a file: the chunk is its own, and has no file yet.
LEMMA CreatedChunk ==
  ASSUME IInv, NEW t \in Tasks, stage[t] = "create"
  PROVE  /\ port[t] \in Ports /\ transfers[port[t]] \in Chunks /\ data[t] \in Data
         /\ writer = t /\ disk[transfers[port[t]]] = None
         /\ flushing[transfers[port[t]]] = None
         /\ Cardinality(owned) < MaxShards
  BY DEF IInv, TypeOK, Listeners, Guarded, Storable, Written, Uploading

\* Every step keeps the types.
LEMMA NextTypeOK == IInv /\ [Next]_vars => TypeOK'
  <1> SUFFICES ASSUME IInv, TypeOK, [Next]_vars PROVE TypeOK'
    BY DEF IInv
  <1> USE NoneIsNone DEF memory, files, tasks, readers
  <1>1. ASSUME NEW t \in Tasks, NEW c \in Chunks, StoreRequest(t, c) PROVE TypeOK'
    BY <1>1 DEF StoreRequest, Goto, TypeOK, Stages
  <1>2. ASSUME NEW t \in Tasks, UpdateChunkUploadTime(t) PROVE TypeOK'
    BY <1>2, FinishProperty DEF UpdateChunkUploadTime, TypeOK
  <1>3. ASSUME NEW t \in Tasks, NEW c \in Chunks, NEW p \in Ports, GetPortRequest(t, c, p)
        PROVE  TypeOK'
    BY <1>3 DEF GetPortRequest, Goto, TypeOK, Stages
  <1>4. ASSUME NEW t \in Tasks, AddActiveTcpConnection(t) PROVE TypeOK'
    <2>1. transfers' \in [Ports -> Chunks \cup {None}]
      BY <1>4 DEF AddActiveTcpConnection, TypeOK
    <2>2. CASE Finish(t)
      BY <1>4, <2>1, <2>2, FinishProperty DEF AddActiveTcpConnection, TypeOK
    <2>3. CASE Goto(t, "answer") /\ UNCHANGED <<writer, chunk, port, data, dead>>
      BY <1>4, <2>1, <2>3 DEF AddActiveTcpConnection, Goto, TypeOK, Stages
    <2> QED BY <1>4, <2>2, <2>3 DEF AddActiveTcpConnection
  <1>5. ASSUME NEW t \in Tasks, AnswerPort(t) \/ Accept(t) \/ ConnectToPeer(t) PROVE TypeOK'
    BY <1>5 DEF AnswerPort, Accept, ConnectToPeer, Goto, TypeOK, Stages
  <1>6. ASSUME NEW t \in Tasks,
               \/ AnswerPortFails(t) \/ AcceptTimesOut(t) \/ ReceiveFails(t)
               \/ CreateFileFails(t) \/ ConnectFails(t) \/ WriteEnds(t)
        PROVE  TypeOK'
    BY <1>6, FinishProperty DEF AnswerPortFails, AcceptTimesOut, ReceiveFails,
       CreateFileFails, ConnectFails, WriteEnds, TypeOK
  <1>7. ASSUME NEW t \in Tasks, NEW d \in Data, ReceiveData(t, d) PROVE TypeOK'
    BY <1>7 DEF ReceiveData, Goto, TypeOK, Stages
  <1>8. ASSUME NEW t \in Tasks, StoreChunkForKnownPeer(t) PROVE TypeOK'
    <2>1. CASE Finish(t)
      BY <1>8, <2>1, FinishProperty DEF StoreChunkForKnownPeer, TypeOK
    <2>2. CASE Goto(t, "create") /\ writer' = t /\ UNCHANGED <<chunk, port, data, dead>>
      BY <1>8, <2>2 DEF StoreChunkForKnownPeer, Goto, TypeOK, Stages
    <2> QED BY <1>8, <2>1, <2>2 DEF StoreChunkForKnownPeer
  <1>9. ASSUME NEW t \in Tasks, CreateFile(t) PROVE TypeOK'
    <2> DEFINE c == transfers[port[t]]
    <2>1. c \in Chunks /\ port[t] \in Ports /\ data[t] \in Data \cup {None}
      BY <1>9, CreatedChunk DEF CreateFile, TypeOK
    <2>2. /\ disk' = [disk EXCEPT ![c] = "empty"] /\ flushing' = [flushing EXCEPT ![c] = data[t]]
          /\ owned' = owned \cup {c} /\ expired' = expired \ {c}
          /\ transfers' = [transfers EXCEPT ![port[t]] = None]
          /\ Finish(t) /\ UNCHANGED <<readers, restarts>>
      BY <1>9 DEF CreateFile
    <2> HIDE DEF c
    <2>3. /\ disk' \in [Chunks -> Data \cup {None}] /\ flushing' \in [Chunks -> Data \cup {None}]
          /\ owned' \subseteq Chunks /\ expired' \subseteq owned'
          /\ transfers' \in [Ports -> Chunks \cup {None}]
      BY <2>1, <2>2 DEF TypeOK
    <2> QED BY <2>2, <2>3, FinishProperty DEF TypeOK
  <1>10. ASSUME NEW c \in Chunks, NEW d \in Data, Flush(c, d) PROVE TypeOK'
    BY <1>10 DEF Flush, TypeOK
  <1>11. ASSUME NEW c \in Chunks, FindValue(c) \/ Expire(c) PROVE TypeOK'
    BY <1>11 DEF FindValue, Expire, TypeOK
  <1>12. ASSUME NEW t \in Tasks, NEW c \in Chunks, NEW d \in Data, GetValue(t, c, d)
        PROVE  TypeOK'
    BY <1>12 DEF GetValue, Goto, TypeOK, Stages
  <1>13. ASSUME NEW t \in Tasks, RemoveDeadChunks(t) PROVE TypeOK'
    BY <1>13 DEF RemoveDeadChunks, Goto, TypeOK, Stages
  <1>14. ASSUME NEW t \in Tasks, NEW c \in Chunks, DeleteFile(t, c) PROVE TypeOK'
    BY <1>14 DEF DeleteFile, TypeOK
  <1>15. ASSUME NEW t \in Tasks, NEW c \in Chunks, DeleteFileFails(t, c) PROVE TypeOK'
    BY <1>15, FinishProperty DEF DeleteFileFails, TypeOK
  <1>16. ASSUME NEW t \in Tasks, RetainLiving(t) PROVE TypeOK'
    BY <1>16, FinishProperty DEF RetainLiving, TypeOK
  <1>17. CASE Restart
    BY <1>17, StorageAssumption DEF Restart, TypeOK, Stages
  <1>18. CASE UNCHANGED vars
    BY <1>18 DEF vars, TypeOK
  <1> QED BY <1>1, <1>2, <1>3, <1>4, <1>5, <1>6, <1>7, <1>8, <1>9, <1>10, <1>11, <1>12,
             <1>13, <1>14, <1>15, <1>16, <1>17, <1>18 DEF Next, TaskStep

\* A task that ends takes only its own listener with it, and nobody else's transfer
\* if it changes the entry of its own port at most.
LEMMA FinishListeners ==
  ASSUME IInv, NEW t \in Tasks, Finish(t),
         \A p \in Ports \ {port[t]} : transfers'[p] = transfers[p]
  PROVE  Listeners' /\ DataGoesToItsChunk'
  <1> USE NoneIsNone
  <1>1. Listeners'
    BY FinishProperty DEF IInv, TypeOK, Listeners, Uploading
  <1>2. ASSUME NEW u \in Tasks,
               stage'[u] \in {"answer", "listening", "reading", "received", "create"}
        PROVE  transfers'[port'[u]] = chunk'[u]
    <2>1. u # t
      BY <1>2, FinishProperty DEF IInv
    <2>2. stage'[u] = stage[u] /\ port'[u] = port[u] /\ chunk'[u] = chunk[u]
      BY <2>1, FinishProperty DEF IInv
    <2>3. port[u] \in Ports /\ port[u] # port[t]
      BY <1>2, <2>1, <2>2 DEF IInv, TypeOK, Listeners, Uploading
    <2> QED BY <1>2, <2>2, <2>3 DEF IInv, DataGoesToItsChunk
  <1> QED BY <1>1, <1>2 DEF DataGoesToItsChunk

\* Every port keeps its one listener, and every listener its transfer.
LEMMA NextListeners == IInv /\ [Next]_vars => Listeners' /\ DataGoesToItsChunk'
  <1> SUFFICES ASSUME IInv, [Next]_vars PROVE Listeners' /\ DataGoesToItsChunk'
    OBVIOUS
  <1> DEFINE Goal == Listeners' /\ DataGoesToItsChunk'
  <1> USE NoneIsNone DEF memory, files, tasks, readers
  <1>1. ASSUME NEW t \in Tasks, NEW c \in Chunks, StoreRequest(t, c) PROVE Goal
    BY <1>1 DEF StoreRequest, Goto, IInv, TypeOK, Listeners, DataGoesToItsChunk, Uploading
  <1>2. ASSUME NEW t \in Tasks, UpdateChunkUploadTime(t) PROVE Goal
    BY <1>2, FinishListeners DEF UpdateChunkUploadTime
  <1>3. ASSUME NEW t \in Tasks, NEW c \in Chunks, NEW p \in Ports, GetPortRequest(t, c, p)
        PROVE  Goal
    BY <1>3 DEF GetPortRequest, Goto, IInv, TypeOK, Listeners, DataGoesToItsChunk, Uploading
  <1>4. ASSUME NEW t \in Tasks, AddActiveTcpConnection(t) PROVE Goal
    <2>0. port[t] \in Ports /\ transfers' = [transfers EXCEPT ![port[t]] = chunk[t]]
      BY <1>4 DEF AddActiveTcpConnection, IInv, TypeOK, Listeners, Uploading
    <2>1. /\ \A p \in Ports \ {port[t]} : transfers'[p] = transfers[p]
          /\ transfers'[port[t]] = chunk[t]
      BY <2>0 DEF IInv, TypeOK
    <2>2. CASE Finish(t)
      BY <2>1, <2>2, FinishListeners
    <2>3. CASE Goto(t, "answer") /\ UNCHANGED <<writer, chunk, port, data, dead>>
      <3>1. Listeners'
        BY <1>4, <2>3 DEF AddActiveTcpConnection, Goto, IInv, TypeOK, Listeners, Uploading
      <3>2. ASSUME NEW u \in Tasks,
                   stage'[u] \in {"answer", "listening", "reading", "received", "create"}
            PROVE  transfers'[port'[u]] = chunk'[u]
        <4>1. CASE u = t
          BY <2>1, <2>3, <4>1
        <4>2. CASE u # t
          <5>1. stage[u] = stage'[u]
            BY <2>3, <4>2 DEF Goto, IInv, TypeOK
          <5>2. port[u] \in Ports /\ port[u] # port[t]
            BY <2>0, <3>2, <4>2, <5>1 DEF IInv, TypeOK, Listeners, Uploading
          <5> QED BY <2>1, <2>3, <3>2, <5>1, <5>2 DEF IInv, DataGoesToItsChunk
        <4> QED BY <4>1, <4>2
      <3> QED BY <3>1, <3>2 DEF DataGoesToItsChunk
    <2> QED BY <1>4, <2>2, <2>3 DEF AddActiveTcpConnection
  <1>5. ASSUME NEW t \in Tasks, AnswerPort(t) \/ Accept(t) \/ ConnectToPeer(t) PROVE Goal
    BY <1>5 DEF AnswerPort, Accept, ConnectToPeer, Goto, IInv, TypeOK, Listeners,
       DataGoesToItsChunk,
       Uploading
  <1>6. ASSUME NEW t \in Tasks,
               \/ AnswerPortFails(t) \/ AcceptTimesOut(t) \/ ReceiveFails(t)
               \/ CreateFileFails(t) \/ ConnectFails(t) \/ WriteEnds(t)
        PROVE  Goal
    BY <1>6, FinishListeners DEF AnswerPortFails, AcceptTimesOut, ReceiveFails,
       CreateFileFails, ConnectFails, WriteEnds
  <1>7. ASSUME NEW t \in Tasks, NEW d \in Data, ReceiveData(t, d) PROVE Goal
    BY <1>7 DEF ReceiveData, Goto, IInv, TypeOK, Listeners, DataGoesToItsChunk, Uploading
  <1>8. ASSUME NEW t \in Tasks, StoreChunkForKnownPeer(t) PROVE Goal
    <2>1. CASE Finish(t)
      BY <1>8, <2>1, FinishListeners DEF StoreChunkForKnownPeer
    <2>2. CASE Goto(t, "create") /\ writer' = t /\ UNCHANGED <<chunk, port, data, dead>>
      BY <1>8, <2>2 DEF StoreChunkForKnownPeer, Goto, IInv, TypeOK, Listeners,
         DataGoesToItsChunk, Uploading
    <2> QED BY <1>8, <2>1, <2>2 DEF StoreChunkForKnownPeer
  <1>9. ASSUME NEW t \in Tasks, CreateFile(t) PROVE Goal
    <2>1. /\ transfers' = [transfers EXCEPT ![port[t]] = None] /\ Finish(t)
      BY <1>9 DEF CreateFile
    <2>2. \A p \in Ports \ {port[t]} : transfers'[p] = transfers[p]
      BY <2>1 DEF IInv, TypeOK
    <2> QED BY <2>1, <2>2, FinishListeners
  <1>10. ASSUME NEW c \in Chunks, NEW d \in Data, Flush(c, d) PROVE Goal
    BY <1>10 DEF Flush, IInv, Listeners, DataGoesToItsChunk
  <1>11. ASSUME NEW c \in Chunks, FindValue(c) \/ Expire(c) PROVE Goal
    BY <1>11 DEF FindValue, Expire, IInv, Listeners, DataGoesToItsChunk
  <1>12. ASSUME NEW t \in Tasks, NEW c \in Chunks, NEW d \in Data, GetValue(t, c, d)
        PROVE  Goal
    BY <1>12 DEF GetValue, Goto, IInv, TypeOK, Listeners, DataGoesToItsChunk, Uploading
  <1>13. ASSUME NEW t \in Tasks, RemoveDeadChunks(t) PROVE Goal
    BY <1>13 DEF RemoveDeadChunks, Goto, IInv, TypeOK, Listeners, DataGoesToItsChunk,
       Uploading
  <1>14. ASSUME NEW t \in Tasks, NEW c \in Chunks, DeleteFile(t, c) PROVE Goal
    BY <1>14 DEF DeleteFile, IInv, Listeners, DataGoesToItsChunk
  <1>15. ASSUME NEW t \in Tasks, NEW c \in Chunks, DeleteFileFails(t, c) PROVE Goal
    BY <1>15, FinishListeners DEF DeleteFileFails
  <1>16. ASSUME NEW t \in Tasks, RetainLiving(t) PROVE Goal
    BY <1>16, FinishListeners DEF RetainLiving
  <1>17. CASE Restart
    BY <1>17 DEF Restart, Listeners, DataGoesToItsChunk, Uploading
  <1>18. CASE UNCHANGED vars
    BY <1>18 DEF vars, IInv, Listeners, DataGoesToItsChunk
  <1> QED BY <1>1, <1>2, <1>3, <1>4, <1>5, <1>6, <1>7, <1>8, <1>9, <1>10, <1>11, <1>12,
             <1>13, <1>14, <1>15, <1>16, <1>17, <1>18 DEF Next, TaskStep

\* A task that ends gives back the write guard if it has it, and touches nothing that
\* another holder of the guard relies on.
LEMMA FinishGuarded ==
  ASSUME IInv, NEW t \in Tasks, Finish(t),
         writer \in {None, t} \/ UNCHANGED <<memory, files>>,
         writer = None => expired' = expired
  PROVE  Guarded'
  <1> USE NoneIsNone DEF memory, files
  <1>1. \A u \in Tasks : writer' = u <=> stage'[u] \in {"create", "sweep"}
    BY FinishProperty DEF IInv, Guarded
  <1>2. ASSUME NEW u \in Tasks, stage'[u] = "create" PROVE Storable(u)'
    <2>1. writer' = u /\ u # t /\ writer = u
      BY <1>1, <1>2, FinishProperty DEF IInv
    <2>2. stage[u] = "create" /\ port'[u] = port[u] /\ UNCHANGED <<memory, files>>
      BY <1>2, <2>1, FinishProperty DEF IInv
    <2> QED BY <2>2 DEF IInv, Guarded, Storable
  <1>3. (writer' = None => dead' = {}) /\ dead' \subseteq expired'
    BY FinishProperty DEF IInv, Guarded, TypeOK
  <1> QED BY <1>1, <1>2, <1>3 DEF Guarded

\* The write guard protects what was checked under it.
LEMMA NextGuarded == IInv /\ [Next]_vars => Guarded'
  <1> SUFFICES ASSUME IInv, [Next]_vars PROVE Guarded'
    OBVIOUS
  <1> USE NoneIsNone DEF memory, files, tasks, readers
  <1>1. ASSUME NEW t \in Tasks, NEW c \in Chunks, StoreRequest(t, c) PROVE Guarded'
    BY <1>1 DEF StoreRequest, LockFree, Goto, IInv, TypeOK, Guarded, Storable
  <1>2. ASSUME NEW t \in Tasks, UpdateChunkUploadTime(t) PROVE Guarded'
    <2>1. Finish(t) /\ writer = None /\ dead = {}
      BY <1>2 DEF UpdateChunkUploadTime, LockFree, IInv, Guarded
    <2>2. \A u \in Tasks : stage'[u] \notin {"create", "sweep"}
      BY <2>1, FinishProperty DEF IInv, Guarded
    <2> QED BY <2>1, <2>2, FinishProperty DEF IInv, Guarded
  <1>3. ASSUME NEW t \in Tasks, NEW c \in Chunks, NEW p \in Ports, GetPortRequest(t, c, p)
        PROVE  Guarded'
    BY <1>3 DEF GetPortRequest, Goto, IInv, TypeOK, Guarded, Storable
  <1>4. ASSUME NEW t \in Tasks, AddActiveTcpConnection(t) PROVE Guarded'
    <2>1. /\ writer = None /\ UNCHANGED <<owned, expired, files, readers, restarts>>
      BY <1>4 DEF AddActiveTcpConnection, LockFree
    <2>2. CASE Finish(t)
      BY <2>1, <2>2, FinishGuarded
    <2>3. CASE Goto(t, "answer") /\ UNCHANGED <<writer, chunk, port, data, dead>>
      BY <2>1, <2>3 DEF Goto, IInv, TypeOK, Guarded
    <2> QED BY <1>4, <2>2, <2>3 DEF AddActiveTcpConnection
  <1>5. ASSUME NEW t \in Tasks, AnswerPort(t) \/ Accept(t) \/ ConnectToPeer(t) PROVE Guarded'
    BY <1>5 DEF AnswerPort, Accept, ConnectToPeer, Goto, IInv, TypeOK, Guarded, Storable
  <1>6. ASSUME NEW t \in Tasks,
               \/ AnswerPortFails(t) \/ AcceptTimesOut(t) \/ ReceiveFails(t)
               \/ CreateFileFails(t) \/ ConnectFails(t) \/ WriteEnds(t)
        PROVE  Guarded'
    BY <1>6, FinishGuarded DEF AnswerPortFails, AcceptTimesOut, ReceiveFails,
       CreateFileFails, ConnectFails, WriteEnds
  <1>7. ASSUME NEW t \in Tasks, NEW d \in Data, ReceiveData(t, d) PROVE Guarded'
    BY <1>7 DEF ReceiveData, Goto, IInv, TypeOK, Guarded, Storable
  <1>8. ASSUME NEW t \in Tasks, StoreChunkForKnownPeer(t) PROVE Guarded'
    <2>0. writer = None /\ UNCHANGED <<memory, files>>
      BY <1>8 DEF StoreChunkForKnownPeer, LockFree
    <2>1. CASE Finish(t)
      BY <2>0, <2>1, FinishGuarded
    <2>2. CASE /\ Storable(t)
               /\ Goto(t, "create") /\ writer' = t /\ UNCHANGED <<chunk, port, data, dead>>
      BY <2>0, <2>2 DEF Goto, IInv, TypeOK, Guarded, Storable
    <2> QED BY <1>8, <2>1, <2>2 DEF StoreChunkForKnownPeer
  <1>9. ASSUME NEW t \in Tasks, CreateFile(t) PROVE Guarded'
    <2>1. Finish(t) /\ writer = t
      BY <1>9, CreatedChunk DEF CreateFile
    <2> QED BY <2>1, FinishGuarded
  <1>10. ASSUME NEW c \in Chunks, NEW d \in Data, Flush(c, d) PROVE Guarded'
    <2>1. ASSUME NEW u \in Tasks, stage'[u] = "create" PROVE Storable(u)'
      <3>1. stage[u] = "create" /\ UNCHANGED <<owned, transfers, port>> /\ flushing[c] # None
        BY <1>10, <2>1 DEF Flush
      <3>2. transfers[port[u]] # c
        BY <3>1, CreatedChunk
      <3>3. disk'[transfers[port[u]]] = disk[transfers[port[u]]]
        BY <1>10, <3>1, <3>2, CreatedChunk DEF Flush, IInv, TypeOK
      <3> QED BY <3>1, <3>3 DEF IInv, Guarded, Storable
    <2> QED BY <1>10, <2>1 DEF Flush, IInv, Guarded
  <1>11. ASSUME NEW c \in Chunks, FindValue(c) \/ Expire(c) PROVE Guarded'
    BY <1>11 DEF FindValue, Expire, IInv, Guarded, Storable
  <1>12. ASSUME NEW t \in Tasks, NEW c \in Chunks, NEW d \in Data, GetValue(t, c, d)
        PROVE  Guarded'
    BY <1>12 DEF GetValue, LockFree, Goto, IInv, TypeOK, Guarded, Storable
  <1>13. ASSUME NEW t \in Tasks, RemoveDeadChunks(t) PROVE Guarded'
    BY <1>13 DEF RemoveDeadChunks, LockFree, Goto, IInv, TypeOK, Guarded
  <1>14. ASSUME NEW t \in Tasks, NEW c \in Chunks, DeleteFile(t, c) PROVE Guarded'
    <2>1. writer = t /\ UNCHANGED <<writer, stage, expired>> /\ dead' \subseteq dead
      BY <1>14 DEF DeleteFile, IInv, Guarded
    <2>2. \A u \in Tasks : stage'[u] # "create"
      BY <1>14, <2>1 DEF DeleteFile, IInv, Guarded
    <2> QED BY <2>1, <2>2 DEF IInv, Guarded
  <1>15. ASSUME NEW t \in Tasks, NEW c \in Chunks, DeleteFileFails(t, c) PROVE Guarded'
    BY <1>15, FinishGuarded DEF DeleteFileFails
  <1>16. ASSUME NEW t \in Tasks, RetainLiving(t) PROVE Guarded'
    <2>1. Finish(t) /\ writer = t
      BY <1>16 DEF RetainLiving, IInv, Guarded
    <2> QED BY <2>1, FinishGuarded
  <1>17. CASE Restart
    BY <1>17 DEF Restart, Guarded
  <1>18. CASE UNCHANGED vars
    BY <1>18 DEF vars, IInv, Guarded, Storable
  <1> QED BY <1>1, <1>2, <1>3, <1>4, <1>5, <1>6, <1>7, <1>8, <1>9, <1>10, <1>11, <1>12,
             <1>13, <1>14, <1>15, <1>16, <1>17, <1>18 DEF Next, TaskStep

\* What is being written is there, and only a chunk that is written out expires.
LEMMA NextWritten == IInv /\ [Next]_vars => Written'
  <1> SUFFICES ASSUME IInv, [Next]_vars PROVE Written'
    OBVIOUS
  <1> USE NoneIsNone DEF memory, files, tasks, readers
  <1>1. CASE UNCHANGED <<files, expired>>
    BY <1>1 DEF IInv, Written
  <1>2. ASSUME NEW t \in Tasks, UpdateChunkUploadTime(t) PROVE Written'
    BY <1>2 DEF UpdateChunkUploadTime, IInv, Written
  <1>3. ASSUME NEW t \in Tasks, CreateFile(t) PROVE Written'
    <2> DEFINE c == transfers[port[t]]
    <2>1. c \in Chunks /\ flushing[c] = None
      BY <1>3, CreatedChunk DEF CreateFile
    <2>2. /\ disk' = [disk EXCEPT ![c] = "empty"]
          /\ flushing' = [flushing EXCEPT ![c] = data[t]] /\ expired' = expired \ {c}
      BY <1>3 DEF CreateFile
    <2> HIDE DEF c
    <2> QED BY <2>1, <2>2 DEF IInv, TypeOK, Written
  <1>4. ASSUME NEW c \in Chunks, NEW d \in Data, Flush(c, d) PROVE Written'
    BY <1>4 DEF Flush, IInv, TypeOK, Written
  <1>5. ASSUME NEW c \in Chunks, Expire(c) PROVE Written'
    BY <1>5 DEF Expire, IInv, TypeOK, Written
  <1>6. ASSUME NEW t \in Tasks, NEW c \in Chunks, DeleteFile(t, c) PROVE Written'
    <2>1. flushing[c] = None
      BY <1>6 DEF DeleteFile, IInv, Guarded, Written
    <2> QED BY <1>6, <2>1 DEF DeleteFile, IInv, TypeOK, Written
  <1>7. ASSUME NEW t \in Tasks, RetainLiving(t) PROVE Written'
    BY <1>7 DEF RetainLiving, IInv, Written
  <1>8. CASE Restart
    BY <1>8 DEF Restart, Written
  <1> QED BY <1>1, <1>2, <1>3, <1>4, <1>5, <1>6, <1>7, <1>8
          DEF Next, TaskStep, vars, StoreRequest, GetPortRequest, AddActiveTcpConnection,
              AnswerPort, AnswerPortFails, Accept, AcceptTimesOut, ReceiveData,
              ReceiveFails,
              StoreChunkForKnownPeer, CreateFileFails, FindValue, GetValue,
              ConnectToPeer, ConnectFails, WriteEnds,
              RemoveDeadChunks, DeleteFileFails

\* Without sweeps no step takes a file away.
LEMMA FilesStay ==
  ASSUME IInv, ~ Sweeps, [Next]_vars, NEW c \in Chunks, disk[c] # None
  PROVE  disk'[c] # None
  <1> USE NoneIsNone DEF memory, files, tasks, readers
  <1>1. CASE UNCHANGED files
    BY <1>1
  <1>2. ASSUME NEW t \in Tasks, CreateFile(t) PROVE disk'[c] # None
    BY <1>2 DEF CreateFile, IInv, TypeOK
  <1>3. ASSUME NEW b \in Chunks, NEW d \in Data, Flush(b, d) PROVE disk'[c] # None
    BY <1>3 DEF Flush, IInv, TypeOK
  <1>4. ASSUME NEW t \in Tasks, NEW b \in Chunks, DeleteFile(t, b) PROVE FALSE
    BY <1>4 DEF DeleteFile, IInv, OwnedHaveFiles
  <1>5. CASE Restart
    <2>1. disk'[c] \in IF flushing[c] = None THEN {disk[c]}
                        ELSE {flushing[c]} \cup Partial(c)
      BY <1>5 DEF Restart
    <2>2. flushing[c] # None => Partial(c) \subseteq Data
      BY ShorterIsData DEF Partial, IInv, TypeOK
    <2> QED BY <2>1, <2>2
  <1> QED BY <1>1, <1>2, <1>3, <1>4, <1>5
          DEF Next, TaskStep, vars, StoreRequest, UpdateChunkUploadTime, GetPortRequest,
              AddActiveTcpConnection, AnswerPort, AnswerPortFails, Accept, AcceptTimesOut,
              ReceiveData, ReceiveFails, StoreChunkForKnownPeer, CreateFileFails,
              FindValue, GetValue, ConnectToPeer, ConnectFails, WriteEnds, Expire,
              RemoveDeadChunks, DeleteFileFails, RetainLiving

\* Without sweeps the chunks of the map, and those that were promised, have files.
LEMMA NextFiles ==
  ASSUME IInv, ~ Sweeps, [Next]_vars
  PROVE  OwnedHaveFiles' /\ PromisesKept'
  <1> USE NoneIsNone DEF memory, files, tasks, readers
  <1>1. ASSUME NEW t \in Tasks, stage'[t] = "sweep" PROVE FALSE
    <2>1. stage[t] # "sweep" /\ \A u \in Tasks : ~ RemoveDeadChunks(u)
      BY DEF IInv, OwnedHaveFiles, RemoveDeadChunks
    <2> QED BY <1>1, <2>1 DEF Next, TaskStep, vars, StoreRequest, UpdateChunkUploadTime,
              GetPortRequest, AddActiveTcpConnection, AnswerPort, AnswerPortFails, Accept,
              AcceptTimesOut, ReceiveData, ReceiveFails, StoreChunkForKnownPeer,
              CreateFile, CreateFileFails, Flush, FindValue, GetValue, ConnectToPeer,
              ConnectFails, WriteEnds, Expire, DeleteFile,
              DeleteFileFails, RetainLiving, Restart, Finish, Goto, IInv, TypeOK
  <1>2. ASSUME NEW c \in owned' PROVE disk'[c] # None
    <2>1. CASE c \in owned
      BY <2>1, FilesStay DEF IInv, TypeOK, OwnedHaveFiles
    <2>2. CASE c \notin owned
      <3>1. PICK t \in Tasks : CreateFile(t)
        BY <1>2, <2>2 DEF Next, TaskStep, vars, StoreRequest, UpdateChunkUploadTime,
              GetPortRequest, AddActiveTcpConnection, AnswerPort, AnswerPortFails, Accept,
              AcceptTimesOut, ReceiveData, ReceiveFails, StoreChunkForKnownPeer,
              CreateFileFails, Flush, FindValue, GetValue, ConnectToPeer, ConnectFails,
              WriteEnds, Expire, RemoveDeadChunks,
              DeleteFile, DeleteFileFails, RetainLiving, Restart
      <3>2. c = transfers[port[t]] /\ c \in Chunks /\ disk' = [disk EXCEPT ![c] = "empty"]
        BY <1>2, <2>2, <3>1, CreatedChunk DEF CreateFile
      <3> QED BY <3>2 DEF IInv, TypeOK
    <2> QED BY <2>1, <2>2
  <1>3. ASSUME NEW c \in promised' PROVE disk'[c] # None
    <2>1. c \in promised \cup owned
      BY <1>3 DEF Next, TaskStep, vars, StoreRequest, UpdateChunkUploadTime,
              GetPortRequest, AddActiveTcpConnection, AnswerPort, AnswerPortFails, Accept,
              AcceptTimesOut, ReceiveData, ReceiveFails, StoreChunkForKnownPeer,
              CreateFile, CreateFileFails, Flush, FindValue, GetValue, ConnectToPeer,
              ConnectFails, WriteEnds, Expire,
              RemoveDeadChunks, DeleteFile, DeleteFileFails, RetainLiving, Restart
    <2> QED BY <2>1, FilesStay DEF IInv, TypeOK, OwnedHaveFiles, PromisesKept
  <1> QED BY <1>1, <1>2, <1>3 DEF OwnedHaveFiles, PromisesKept

\* The inductive invariant holds in every behaviour, with and without sweeps.
THEOREM Invariance == Spec => []IInv
  <1>1. IInv /\ [Next]_vars => IInv'
    BY NextTypeOK, NextListeners, NextGuarded, NextWritten, NextFiles DEF IInv
  <1> QED BY <1>1, InitIInv, PTL DEF Spec

\* What an upload sends is stored under the hash it was announced with.
THEOREM DataIsNotMisplaced == Spec => []DataGoesToItsChunk
  <1>1. IInv => DataGoesToItsChunk
    BY DEF IInv
  <1> QED BY <1>1, Invariance, PTL

\* As long as nobody calls remove_dead_chunks, a chunk for which HAS_VALUE was ever
\* answered keeps its file, through failing disks and restarts.
THEOREM PromisedStays == ASSUME ~ Sweeps PROVE Spec => []PromisesKept
  <1>1. IInv => PromisesKept
    BY DEF IInv
  <1> QED BY <1>1, Invariance, PTL

\* A port on which a transfer was left behind is of no use until the next restart:
\* whoever is given it overwrites the entry, fails, and leaves it behind again.
THEOREM PortsStayDead == Spec => PortStaysDead
  <1> USE NoneIsNone DEF memory, files, tasks, readers
  <1>1. ASSUME IInv, [Next]_vars, restarts' = restarts, NEW p \in Ports, Abandoned(p)
        PROVE  Abandoned(p)'
    <2>1. transfers[p] # None /\ \A t \in Tasks : port[t] = p => stage[t] = "bound"
      BY <1>1 DEF Abandoned
    <2>2. ASSUME NEW t \in Tasks, Finish(t), transfers'[p] # None PROVE Abandoned(p)'
      BY <2>1, <2>2, <1>1, FinishProperty DEF Abandoned, IInv
    <2>3. ASSUME NEW t \in Tasks, AddActiveTcpConnection(t) PROVE Abandoned(p)'
      <3>1. /\ port[t] \in Ports /\ chunk[t] \in Chunks
            /\ transfers' = [transfers EXCEPT ![port[t]] = chunk[t]]
        BY <1>1, <2>3 DEF AddActiveTcpConnection, IInv, TypeOK, Listeners, Uploading
      <3>2. transfers'[p] # None
        BY <1>1, <2>1, <3>1 DEF IInv, TypeOK
      <3>3. CASE transfers[port[t]] # None
        BY <2>2, <2>3, <3>2, <3>3 DEF AddActiveTcpConnection
      <3>4. CASE transfers[port[t]] = None
        <4>1. port[t] # p /\ Goto(t, "answer") /\ UNCHANGED port
          BY <2>1, <2>3, <3>4 DEF AddActiveTcpConnection
        <4> QED BY <1>1, <2>1, <3>2, <4>1 DEF Goto, Abandoned, IInv, TypeOK
      <3> QED BY <3>3, <3>4
    <2>4. ASSUME NEW t \in Tasks, CreateFile(t) PROVE Abandoned(p)'
      <3>1. port[t] # p /\ transfers' = [transfers EXCEPT ![port[t]] = None] /\ Finish(t)
        BY <2>1, <2>4 DEF CreateFile
      <3>2. transfers'[p] # None
        BY <1>1, <2>1, <3>1 DEF IInv, TypeOK
      <3> QED BY <2>2, <3>1, <3>2
    <2>5. ASSUME NEW t \in Tasks, NEW c \in Chunks, NEW q \in Ports, GetPortRequest(t, c, q)
          PROVE  Abandoned(p)'
      BY <1>1, <2>1, <2>5 DEF GetPortRequest, Goto, Abandoned, IInv, TypeOK
    <2>6. ASSUME NEW t \in Tasks,
                 \/ AnswerPort(t) \/ Accept(t) \/ StoreChunkForKnownPeer(t)
                 \/ RemoveDeadChunks(t)
                 \/ \E c \in Chunks : StoreRequest(t, c)
                 \/ \E d \in Data : ReceiveData(t, d)
                 \/ ConnectToPeer(t)
                 \/ \E c \in Chunks, d \in Data : GetValue(t, c, d)
          PROVE  Abandoned(p)'
      <3>1. port[t] # p /\ transfers' = transfers
        BY <2>1, <2>6 DEF AnswerPort, Accept, StoreChunkForKnownPeer, RemoveDeadChunks,
           StoreRequest, ReceiveData, ConnectToPeer, GetValue
      <3>2. CASE Finish(t)
        BY <2>1, <2>2, <3>1, <3>2
      <3>3. CASE (\E s \in Stages : Goto(t, s)) /\ UNCHANGED port
        BY <1>1, <2>1, <3>1, <3>3 DEF Goto, Abandoned, IInv, TypeOK
      <3> QED BY <2>6, <3>2, <3>3 DEF AnswerPort, Accept, StoreChunkForKnownPeer,
           RemoveDeadChunks, StoreRequest, ReceiveData, ConnectToPeer, GetValue, Stages
    <2>7. ASSUME NEW t \in Tasks,
                 \/ UpdateChunkUploadTime(t) \/ AnswerPortFails(t) \/ AcceptTimesOut(t)
                 \/ ReceiveFails(t) \/ CreateFileFails(t) \/ RetainLiving(t)
                 \/ ConnectFails(t) \/ WriteEnds(t)
                 \/ \E c \in Chunks : DeleteFileFails(t, c)
          PROVE  Abandoned(p)'
      BY <2>1, <2>2, <2>7 DEF UpdateChunkUploadTime, AnswerPortFails, AcceptTimesOut,
         ReceiveFails, CreateFileFails, RetainLiving, ConnectFails, WriteEnds,
         DeleteFileFails
    <2>8. CASE UNCHANGED <<transfers, port, stage>>
      BY <2>1, <2>8 DEF Abandoned
    <2>9. ~ Restart
      BY <1>1 DEF Restart, IInv, TypeOK
    <2> QED BY <1>1, <2>3, <2>4, <2>5, <2>6, <2>7, <2>8, <2>9
            DEF Next, TaskStep, vars, Flush, FindValue, Expire, DeleteFile
  <1>2. IInv /\ [Next]_vars
        => [restarts' = restarts => \A p \in Ports : Abandoned(p) => Abandoned(p)']_vars
    BY <1>1
  <1> QED BY <1>2, Invariance, PTL DEF Spec, PortStaysDead

\* As long as nobody calls remove_dead_chunks, the node implements the contract of a
\* chunk store: the creation of a file is the put, the end of the background write
\* settles it, and every other step of the handlers changes nothing a peer can see.
THEOREM Refinement == ASSUME ~ Sweeps PROVE Spec => StoreContract
  <1> USE NoneIsNone DEF memory, files, tasks, readers
  <1>1. Init => Store!Init
    BY DEF Init, Store!Init, Content, Settled
  <1>2. IInv /\ [Next]_vars => [Store!Next]_Store!vars
    <2> SUFFICES ASSUME IInv, [Next]_vars PROVE [Store!Next]_Store!vars
      OBVIOUS
    <2>0. /\ disk \in [Chunks -> Data \cup {None}] /\ flushing \in [Chunks -> Data \cup {None}]
          /\ disk' \in [Chunks -> Data \cup {None}] /\ flushing' \in [Chunks -> Data \cup {None}]
      BY NextTypeOK DEF IInv, TypeOK
    <2>1. ASSUME NEW t \in Tasks, CreateFile(t) PROVE Store!Next
      <3> DEFINE c == transfers[port[t]]
      <3>1. /\ c \in Chunks /\ data[t] \in Data /\ disk[c] = None /\ flushing[c] = None
            /\ Cardinality(owned) < MaxShards
        BY <2>1, CreatedChunk DEF CreateFile
      <3>2. /\ disk' = [disk EXCEPT ![c] = "empty"]
            /\ flushing' = [flushing EXCEPT ![c] = data[t]]
            /\ owned' = owned \cup {c} /\ UNCHANGED <<promised, served>>
        BY <2>1 DEF CreateFile
      <3> HIDE DEF c
      <3>3. Content[c] = None /\ Content' = [Content EXCEPT ![c] = data[t]]
        BY <2>0, <3>1, <3>2 DEF Content
      <3>4. Settled' = Settled \ {c}
        BY <2>0, <3>1, <3>2 DEF Settled
      <3>5. Store!Put(c, data[t])
        <4>1. Store!Cardinality(owned) = Cardinality(owned)
          BY DEF Store!Cardinality, Cardinality
        <4> QED BY <3>1, <3>2, <3>3, <3>4, <4>1 DEF Store!Put, Store!MayPut
      <3> QED BY <3>1, <3>5 DEF Store!Next
    <2>2. ASSUME NEW c \in Chunks, NEW d \in Data, Flush(c, d) PROVE Store!Next
      <3>1. /\ flushing[c] # None
            /\ d \in {flushing[c]} \cup Shorter(flushing[c])
            /\ disk' = [disk EXCEPT ![c] = d] /\ flushing' = [flushing EXCEPT ![c] = None]
            /\ UNCHANGED <<owned, promised, served>>
        BY <2>2 DEF Flush, Partial
      <3>2. Content[c] = flushing[c] /\ Content' = [Content EXCEPT ![c] = d]
        BY <2>0, <3>1 DEF Content
      <3>3. c \notin Settled /\ Settled' = Settled \cup {c}
        BY <2>0, <3>1 DEF Settled
      <3>4. Store!Settle(c, d)
        BY <3>1, <3>2, <3>3 DEF Store!Settle
      <3> QED BY <3>4 DEF Store!Next
    <2>3. ASSUME NEW c \in Chunks, FindValue(c) PROVE UNCHANGED Store!vars
      BY <2>3 DEF FindValue, Store!vars, Content, Settled
    <2>4. ASSUME NEW t \in Tasks, NEW c \in Chunks, NEW d \in Data, GetValue(t, c, d)
          PROVE  Store!Next
      <3>1. Content' = Content /\ Settled' = Settled
        BY <2>4 DEF GetValue, Content, Settled
      <3>2. /\ Content[c] # None
            /\ d \in IF c \in Settled THEN {Content[c]} ELSE Shorter(Content[c])
        BY <2>0, <2>4 DEF GetValue, Partial, Content, Settled
      <3>3. Store!Read(c, d)
        BY <2>4, <3>1, <3>2 DEF GetValue, Store!Read
      <3> QED BY <3>3 DEF Store!Next
    <2>5. CASE Restart
      <3>1. /\ flushing' = [c \in Chunks |-> None] /\ owned' = {}
            /\ UNCHANGED <<promised, served>>
            /\ \A c \in Chunks : disk'[c] \in IF flushing[c] = None THEN {disk[c]}
                                              ELSE {flushing[c]} \cup Shorter(flushing[c])
        BY <2>5 DEF Restart, Partial
      <3>2. Settled' = Chunks /\ Content' \in [Chunks -> Data \cup {None}]
        BY <2>0, <3>1 DEF Settled, Content
      <3>3. \A c \in Chunks : Content'[c] \in IF c \in Settled THEN {Content[c]}
                                              ELSE {Content[c]} \cup Shorter(Content[c])
        BY <3>1 DEF Settled, Content
      <3>4. Store!Restart
        BY <3>1, <3>2, <3>3 DEF Store!Restart
      <3> QED BY <3>4 DEF Store!Next
    <2>6. CASE UNCHANGED <<files, owned, readers>>
      BY <2>6 DEF Store!vars, Content, Settled
    <2>7. ASSUME NEW t \in Tasks
          PROVE  /\ ~ RemoveDeadChunks(t) /\ ~ RetainLiving(t)
                 /\ \A c \in Chunks : ~ DeleteFile(t, c) /\ ~ DeleteFileFails(t, c)
      BY DEF IInv, OwnedHaveFiles, RemoveDeadChunks, RetainLiving, DeleteFile,
         DeleteFileFails
    <2> QED BY <2>1, <2>2, <2>3, <2>4, <2>5, <2>6, <2>7
            DEF Next, TaskStep, vars, StoreRequest, UpdateChunkUploadTime, GetPortRequest,
                AddActiveTcpConnection, AnswerPort, AnswerPortFails, Accept,
                AcceptTimesOut, ReceiveData, ReceiveFails, StoreChunkForKnownPeer,
                CreateFileFails, Expire, ConnectToPeer, ConnectFails, WriteEnds
  <1> QED BY <1>1, <1>2, Invariance, PTL DEF Spec, StoreContract, Store!Spec
=============================================================================
