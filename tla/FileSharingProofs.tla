------------------------- MODULE FileSharingProofs -------------------------
(***************************************************************************)
(* What a download writes is the file that was uploaded, a copy is lost    *)
(* only by a fault before its file is written, and as long as nothing      *)
(* fails a reported success means that every block is with somebody, and   *)
(* a block nobody else uploads with ALPHA nodes in the right form: for any *)
(* nodes, users, ports, files and number of uploads.                       *)
(***************************************************************************)
EXTENDS FileSharing, FiniteOrders

\* The assumptions on the constants, as the provers use them.
LEMMA Constants ==
  /\ Nodes \subseteq Nat /\ IsFiniteSet(Nodes) /\ Users \subseteq Nodes
  /\ Alpha \in Nat /\ Alpha # 0
  /\ MaxShards \in Nat /\ MaxBlocks \in Nat /\ MaxUploads \in Nat /\ MaxFaults \in Nat
  /\ Files \subseteq Seq(Blocks)
  /\ None \notin Files /\ None \notin Contents /\ None \notin Listeners
  /\ Download \notin Hashes
  BY SharingAssumption, ValuesAssumption

\* The elements of a sequence.
LEMMA SeqElement ==
  ASSUME NEW S, NEW s \in Seq(S)
  PROVE  Len(s) \in Nat /\ DOMAIN s = 1 .. Len(s) /\ \A i \in DOMAIN s : s[i] \in S
  OBVIOUS

\* What the types say of one command, one socket, one upload.
LEMMA Types ==
  ASSUME TypeOK
  PROVE  /\ \A n \in Users : /\ cmd[n] \in Commands /\ cmd[n].at \in 0 .. MaxBlocks
                             /\ cmd[n].at \in Nat
                             /\ cmd[n].storers \in Seq(Nodes)
                             /\ cmd[n].output \in Seq(Blocks)
                             /\ cmd[n].ports \subseteq Nodes \X Ports
                             /\ cmd[n].nodes \subseteq Nodes
         /\ \A n \in Nodes, p \in Ports : socket[n][p] \in Listeners \cup {None}
         /\ \A k \in Uploads : meta[k] \in Seq(ChunkMetadata)
  <1> USE Constants
  <1>1. \A n \in Users : cmd[n] \in Commands
    BY DEF TypeOK
  <1>2. \A c \in Commands : /\ c.at \in 0 .. MaxBlocks /\ c.at \in Nat
                            /\ c.storers \in Seq(Nodes) /\ c.output \in Seq(Blocks)
                            /\ c.ports \subseteq Nodes \X Ports /\ c.nodes \subseteq Nodes
    BY DEF Commands
  <1>3. \A n \in Nodes, p \in Ports : socket[n][p] \in Listeners \cup {None}
    BY DEF TypeOK
  <1>4. \A k \in Uploads : meta[k] \in Seq(ChunkMetadata)
    BY DEF TypeOK
  <1> QED BY <1>1, <1>2, <1>3, <1>4

\* What the store of a node promises about a put.
LEMMA MayPutMeans ==
  ASSUME NEW n \in Nodes, NEW h \in Hashes
  PROVE  Store(n)!MayPut(kept[n], offered[n], h) <=>
           kept[n][h] = None /\ Cardinality(offered[n]) < MaxShards
  BY DEF Store!MayPut, Store!Cardinality, Cardinality

\* A new command.
LEMMA NewCommand ==
  ASSUME NEW st \in Stages, NEW k \in Uploads \cup {0}
  PROVE  /\ Command(st, k) \in Commands
         /\ Command(st, k).stage = st /\ Command(st, k).key = k /\ Command(st, k).at = 0
         /\ Command(st, k).ports = {} /\ Command(st, k).storers = <<>>
         /\ Command(st, k).output = <<>>
  BY Constants DEF Command, Commands

LEMMA IdleCommand ==
  /\ Idle \in Commands
  /\ Idle.stage = "idle" /\ Idle.key = 0 /\ Idle.at = 0 /\ Idle.ports = {}
  /\ Idle.storers = <<>> /\ Idle.output = <<>>
  BY NewCommand DEF Idle, Stages

\* The file of an upload, the hashes of its blocks and their ciphertexts.
LEMMA SourceFacts ==
  ASSUME TypeOK, NEW k \in Begun
  PROVE  /\ k \in Uploads /\ source[k] \in Files /\ source[k] \in Seq(Blocks)
         /\ Len(source[k]) \in 0 .. MaxBlocks /\ DOMAIN source[k] = 1 .. Len(source[k])
         /\ \A i \in DOMAIN source[k] :
              /\ i \in Indices /\ source[k][i] \in Blocks
              /\ Hash(k, i) \in Hashes
              /\ Seal(k, i) \in Contents /\ Cut(Seal(k, i)) \in Contents
  <1> USE Constants
  <1>1. k \in Uploads /\ source[k] \in Files /\ Len(source[k]) <= MaxBlocks
    BY DEF TypeOK, Begun
  <1>2. /\ source[k] \in Seq(Blocks) /\ Len(source[k]) \in Nat
        /\ DOMAIN source[k] = 1 .. Len(source[k])
    BY <1>1
  <1>3. ASSUME NEW i \in DOMAIN source[k]
        PROVE  /\ i \in Indices /\ source[k][i] \in Blocks
               /\ Hash(k, i) \in Hashes
               /\ Seal(k, i) \in Contents /\ Cut(Seal(k, i)) \in Contents
    <2>1. i \in Indices /\ source[k][i] \in Blocks
      BY <1>1, <1>2 DEF Indices
    <2>2. Hash(k, i) \in Hashes
      BY <1>1, <2>1 DEF Hash, Hashes
    <2>3. Seal(k, i) \in Contents
      BY <1>1, <2>1 DEF Seal, Contents
    <2>4. Cut(Seal(k, i)) \in Contents
      BY <1>1, <2>1 DEF Seal, Cut, Contents
    <2> QED BY <2>1, <2>2, <2>3, <2>4
  <1> QED BY <1>1, <1>2, <1>3

\* A key that is drawn has not been drawn before.
LEMMA FreshKey ==
  ASSUME KeysInOrder, NEW k, k = Cardinality({j \in Uploads : source[j] # None}) + 1
  PROVE  k \in Nat /\ k \notin Begun /\ Begun \cup {k} = 1 .. k
  <1> USE Constants
  <1>1. PICK last \in 0 .. MaxUploads : Begun = 1 .. last
    BY DEF KeysInOrder
  <1>2. Cardinality(1 .. last) = last
    BY <1>1, FS_Interval
  <1>3. k = last + 1
    BY <1>1, <1>2 DEF Begun
  <1>4. last \in Nat /\ (1 .. last) \cup {last + 1} = 1 .. last + 1
    BY <1>1
  <1>5. last + 1 \notin 1 .. last /\ last + 1 \in Nat
    BY <1>4
  <1> QED BY <1>1, <1>3, <1>4, <1>5

\* The command of an uploading node is about one block of its file.
LEMMA UploadFacts ==
  ASSUME IInv, NEW n \in Users, IsUploading(n)
  PROVE  /\ cmd[n] \in Commands
         /\ cmd[n].key \in Begun /\ cmd[n].key \notin handles
         /\ cmd[n].at \in 0 .. Len(source[cmd[n].key])
         /\ cmd[n].at = Len(meta[cmd[n].key])
         /\ cmd[n].stage # "read" => cmd[n].at \in DOMAIN source[cmd[n].key]
  <1> DEFINE k == cmd[n].key
  <1>1. /\ cmd[n] \in Commands /\ k \in Begun /\ k \notin handles
        /\ cmd[n].at = Len(meta[k]) /\ Len(meta[k]) <= Len(source[k])
        /\ cmd[n].stage # "read" => cmd[n].at # 0
        /\ meta[k] \in Seq(ChunkMetadata)
    BY DEF IInv, TypeOK, UploadersApart, MetadataTrue, Begun
  <1>2. Len(source[k]) \in Nat /\ DOMAIN source[k] = 1 .. Len(source[k])
    BY <1>1, Constants, SourceFacts DEF IInv
  <1>3. Len(meta[k]) \in Nat
    BY <1>1
  <1> HIDE DEF k
  <1>4. cmd[n].at \in 0 .. Len(source[k])
    BY <1>1, <1>2, <1>3
  <1>5. cmd[n].stage # "read" => cmd[n].at \in DOMAIN source[k]
    BY <1>1, <1>2, <1>3
  <1> QED BY <1>1, <1>4, <1>5 DEF k

\* The command of a downloading node is about a file whose metadata is complete.
LEMMA DownloadFacts ==
  ASSUME IInv, NEW n \in Users, cmd[n].stage \in {"find", "fetch", "receive", "downloaded"}
  PROVE  /\ cmd[n] \in Commands
         /\ cmd[n].key \in handles /\ cmd[n].key \in Begun /\ cmd[n].key \in Uploads
         /\ meta[cmd[n].key] \in Seq(ChunkMetadata)
         /\ Len(meta[cmd[n].key]) = Len(source[cmd[n].key])
         /\ DOMAIN meta[cmd[n].key] = DOMAIN source[cmd[n].key]
         /\ \A i \in DOMAIN meta[cmd[n].key] :
              /\ meta[cmd[n].key][i] = [hash |-> Hash(cmd[n].key, i), nonce |-> i]
              /\ meta[cmd[n].key][i].hash \in Hashes
  <1> DEFINE k == cmd[n].key
  <1>1. cmd[n] \in Commands /\ k \in handles
    BY DEF IInv, TypeOK, DownloadsTrue, DownloadTrue
  <1>2. /\ k \in Begun /\ k \in Uploads /\ Len(meta[k]) = Len(source[k])
        /\ \A i \in DOMAIN meta[k] : meta[k][i] = [hash |-> Hash(k, i), nonce |-> i]
    BY <1>1 DEF IInv, MetadataTrue, Begun
  <1>3. meta[k] \in Seq(ChunkMetadata)
    BY <1>2 DEF IInv, TypeOK
  <1>4. source[k] \in Seq(Blocks)
    BY <1>2, SourceFacts DEF IInv
  <1> HIDE DEF k
  <1>5. DOMAIN meta[k] = DOMAIN source[k]
    BY <1>2, <1>3, <1>4
  <1>6. \A i \in DOMAIN meta[k] : meta[k][i].hash \in Hashes
    <2>1. \A i \in DOMAIN meta[k] : meta[k][i] \in ChunkMetadata
      BY <1>3, SeqElement
    <2> QED BY <2>1 DEF ChunkMetadata
  <1> QED BY <1>1, <1>2, <1>3, <1>5, <1>6 DEF k

\* What is read of a file is the ciphertext or a part of it.
LEMMA ChunkIsRead ==
  ASSUME IInv, NEW n \in Nodes, NEW h \in Hashes, kept[n][h] # None
  PROVE  /\ kept[n][h] \in Contents /\ Authentic(kept[n][h])
         /\ Cut(kept[n][h]) \in Contents /\ Authentic(Cut(kept[n][h]))
         /\ Cut(kept[n][h]).key = kept[n][h].key /\ Cut(kept[n][h]).nonce = kept[n][h].nonce
         /\ ReadChunk(n, h) = kept[n][h] \/ ReadChunk(n, h) = Cut(kept[n][h])
  <1> DEFINE content == kept[n][h]
  <1>1. content \in Contents /\ Authentic(content)
    BY DEF IInv, TypeOK, ContentsAuthentic
  <1> HIDE DEF content
  <1>2. /\ Cut(content) \in Contents /\ Cut(content).key = content.key
        /\ Cut(content).nonce = content.nonce /\ Cut(content).plain = content.plain
    BY <1>1 DEF Contents, Cut
  <1>3. Authentic(Cut(content))
    BY <1>1, <1>2 DEF Authentic
  <1>4. ReadChunk(n, h) = content \/ ReadChunk(n, h) = Cut(content)
    BY DEF ReadChunk, content
  <1> QED BY <1>1, <1>2, <1>3, <1>4 DEF content

\* The chunk of its own node that a download reads is there.
LEMMA OwnChunk ==
  ASSUME IInv, NEW n \in Users, cmd[n].stage = "fetch", NextStorer(n) = n
  PROVE  /\ ReadChunk(n, NextHash(n)) \in Contents
         /\ Authentic(ReadChunk(n, NextHash(n)))
  <1> USE Constants
  <1> DEFINE c == cmd[n]
             i == c.at + 1
  <1>1. /\ c.at \in Nat /\ c.storers \in Seq(Nodes)
        /\ meta[c.key] \in Seq(ChunkMetadata)
        /\ \A j \in DOMAIN meta[c.key] : meta[c.key][j].hash \in Hashes
    BY DownloadFacts, Types DEF IInv
  <1>2. /\ c.at < Len(meta[c.key]) /\ Len(meta[c.key]) <= Len(c.storers)
        /\ \A j \in DOMAIN c.storers \cap DOMAIN meta[c.key] :
             c.storers[j] = n => kept[n][meta[c.key][j].hash] # None
    BY DEF IInv, DownloadsTrue, DownloadTrue
  <1>3. i \in DOMAIN meta[c.key] /\ i \in DOMAIN c.storers
    BY <1>1, <1>2
  <1>4. NextHash(n) \in Hashes /\ kept[n][NextHash(n)] # None
    BY <1>1, <1>2, <1>3 DEF NextHash, NextStorer
  <1> QED BY <1>4, ChunkIsRead

\* What a download has received is a ciphertext, and it came to its own listener.
LEMMA ReceivedChunk ==
  ASSUME IInv, NEW n \in Users, NEW p \in Ports, cmd[n].stage = "receive",
         <<n, p>> \in cmd[n].ports
  PROVE  /\ socket[n][p] # None /\ socket[n][p].use = Download
         /\ cmd[n].ports = {<<n, p>>}
         /\ socket[n][p].data # None => /\ socket[n][p].data \in Contents
                                        /\ Authentic(socket[n][p].data)
  <1> USE Constants
  <1>1. PICK q \in Ports : /\ cmd[n].ports = {<<n, q>>}
                           /\ socket[n][q] # None /\ socket[n][q].use = Download
    BY DEF IInv, DownloadsTrue, DownloadTrue
  <1>2. q = p
    BY <1>1
  <1>3. socket[n][p] \in Listeners
    BY <1>1, <1>2, Types DEF IInv
  <1> QED BY <1>1, <1>2, <1>3 DEF IInv, ContentsAuthentic, Listeners

\* What store_next_chunk_decrypt accepts is the next block of the file.
LEMMA Decrypted ==
  ASSUME IInv, NEW n \in Users, cmd[n].stage \in {"fetch", "receive"},
         NEW content \in Contents, Authentic(content), NEW full,
         StoreNextChunkDecrypt(n, content, full)
  PROVE  \/ Fail(n)
         \/ /\ Proceed(n, Append(cmd[n].output, source[cmd[n].key][cmd[n].at + 1]))
            /\ cmd[n].at = Len(cmd[n].output)
            /\ cmd[n].at + 1 \in DOMAIN source[cmd[n].key]
  <1> USE Constants
  <1> DEFINE c == cmd[n]
             i == c.at + 1
  <1>1. /\ c.at = Len(c.output) /\ c.at < Len(meta[c.key]) /\ c.at \in Nat
        /\ c \in Commands
    BY DownloadFacts DEF IInv, DownloadsTrue, DownloadTrue, Commands
  <1>2. i \in DOMAIN meta[c.key] /\ i \in DOMAIN source[c.key]
    BY <1>1, DownloadFacts
  <1>3. meta[c.key][i].nonce = i
    <2>1. meta[c.key][i] = [hash |-> Hash(c.key, i), nonce |-> i]
      BY <1>2, DownloadFacts
    <2> QED BY <2>1
  <1>4. CASE ~full /\ Opens(content, c.key, meta[c.key][i].nonce)
    <2>1. content.key = c.key /\ content.nonce = i
      BY <1>3, <1>4 DEF Opens
    <2>2. content.plain = source[c.key][i]
      BY <2>1 DEF Authentic
    <2> QED BY <1>1, <1>2, <1>4, <2>2 DEF StoreNextChunkDecrypt
  <1>5. CASE ~(~full /\ Opens(content, c.key, meta[c.key][i].nonce))
    BY <1>5 DEF StoreNextChunkDecrypt
  <1> QED BY <1>4, <1>5

\* A chunk that came over the network, or from the disk of the node itself.
LEMMA DownloadProgress ==
  ASSUME IInv, NEW n \in Users, NEW full,
         \/ ReadOwnChunk(n, full)
         \/ \E p \in Ports : ReceiveData(n, p, full)
  PROVE  /\ cmd[n].stage \in {"fetch", "receive"}
         /\ \/ Fail(n)
            \/ /\ Proceed(n, Append(cmd[n].output, source[cmd[n].key][cmd[n].at + 1]))
               /\ cmd[n].at = Len(cmd[n].output)
               /\ cmd[n].at + 1 \in DOMAIN source[cmd[n].key]
  <1>1. CASE ReadOwnChunk(n, full)
    <2>1. /\ cmd[n].stage = "fetch" /\ NextStorer(n) = n
          /\ StoreNextChunkDecrypt(n, ReadChunk(n, NextHash(n)), full)
      BY <1>1 DEF ReadOwnChunk
    <2> QED BY <2>1, OwnChunk, Decrypted
  <1>2. ASSUME NEW p \in Ports, ReceiveData(n, p, full)
        PROVE  /\ cmd[n].stage \in {"fetch", "receive"}
               /\ \/ Fail(n)
                  \/ /\ Proceed(n, Append(cmd[n].output, source[cmd[n].key][cmd[n].at + 1]))
                     /\ cmd[n].at = Len(cmd[n].output)
                     /\ cmd[n].at + 1 \in DOMAIN source[cmd[n].key]
    <2>1. /\ cmd[n].stage = "receive" /\ <<n, p>> \in cmd[n].ports
          /\ socket[n][p].data # None
          /\ StoreNextChunkDecrypt(n, socket[n][p].data, full)
      BY <1>2 DEF ReceiveData
    <2> QED BY <2>1, ReceivedChunk, Decrypted
  <1> QED BY <1>1, <1>2

\* Connections leave a listener where it is and what it is for, and bring data only
\* to one that has none.
LEMMA Connected ==
  ASSUME TypeOK, NEW f, \A a \in DOMAIN f : f[a] \in Contents, Connect(f)
  PROVE  /\ socket' \in [Nodes -> [Ports -> Listeners \cup {None}]]
         /\ \A n \in Nodes, p \in Ports :
              /\ socket[n][p] = None => socket'[n][p] = None
              /\ socket[n][p] # None =>
                   /\ socket'[n][p] # None
                   /\ socket'[n][p].use = socket[n][p].use
              /\ <<n, p>> \notin DOMAIN f => socket'[n][p] = socket[n][p]
              /\ socket[n][p] # None /\ socket[n][p].data # None =>
                   socket'[n][p] = socket[n][p]
              /\ socket[n][p] # None /\ socket[n][p].data = None /\ <<n, p>> \in DOMAIN f =>
                   socket'[n][p] = [use |-> socket[n][p].use, data |-> f[<<n, p>>]]
  <1> USE Constants
  <1>1. ASSUME NEW n \in Nodes, NEW p \in Ports
        PROVE  /\ socket'[n][p] =
                    IF /\ <<n, p>> \in DOMAIN f
                       /\ socket[n][p] # None
                       /\ socket[n][p].data = None
                    THEN [socket[n][p] EXCEPT !.data = f[<<n, p>>]]
                    ELSE socket[n][p]
               /\ socket[n][p] \in Listeners \cup {None}
    BY Types DEF Connect
  <1>2. ASSUME NEW n \in Nodes, NEW p \in Ports,
               <<n, p>> \in DOMAIN f, socket[n][p] # None, socket[n][p].data = None
        PROVE  /\ socket'[n][p] = [use |-> socket[n][p].use, data |-> f[<<n, p>>]]
               /\ socket'[n][p] \in Listeners
    <2>1. f[<<n, p>>] \in Contents /\ socket[n][p] \in Listeners
      BY <1>1, <1>2
    <2>2. socket'[n][p] = [socket[n][p] EXCEPT !.data = f[<<n, p>>]]
      BY <1>1, <1>2
    <2>3. \A l \in Listeners, d \in Contents :
            /\ [l EXCEPT !.data = d] = [use |-> l.use, data |-> d]
            /\ [use |-> l.use, data |-> d] \in Listeners
      BY DEF Listeners
    <2> QED BY <2>1, <2>2, <2>3
  <1>3. ASSUME NEW n \in Nodes, NEW p \in Ports PROVE socket'[n][p] \in Listeners \cup {None}
    BY <1>1, <1>2, <1>3
  <1>4. socket' \in [Nodes -> [Ports -> Listeners \cup {None}]]
    BY <1>3 DEF Connect
  <1>5. ASSUME NEW n \in Nodes, NEW p \in Ports, socket[n][p] # None
        PROVE  socket'[n][p] # None /\ socket'[n][p].use = socket[n][p].use
    BY <1>1, <1>2, <1>5
  <1> QED BY <1>1, <1>2, <1>4, <1>5

\* What a listener gets: when a chunk is sent, and when one is asked for.
LEMMA ChunkSent ==
  ASSUME IInv, NEW n \in Users, NEW sent, NEW cut, StoreChunk(n, sent, cut)
  PROVE  \E f : /\ Connect(f)
                /\ \A a \in DOMAIN f : /\ a \in sent \/ a \in cut
                                       /\ f[a] \in Contents /\ Authentic(f[a])
                /\ \A a \in sent : a \in DOMAIN f /\ f[a] = Seal(cmd[n].key, cmd[n].at)
  <1> DEFINE k == cmd[n].key
             chunk == Seal(k, cmd[n].at)
             f == [a \in sent \cup cut |-> IF a \in sent THEN chunk ELSE Cut(chunk)]
  <1>1. IsUploading(n) /\ cmd[n].stage # "read" /\ Connect(f)
    BY DEF StoreChunk, IsUploading
  <1>2. k \in Begun /\ cmd[n].at \in DOMAIN source[k]
    BY <1>1, UploadFacts
  <1>3. chunk \in Contents /\ Cut(chunk) \in Contents
    BY <1>2, SourceFacts DEF IInv
  <1>4. Authentic(chunk) /\ Authentic(Cut(chunk))
    BY <1>2, <1>3 DEF Authentic, Seal, Cut
  <1> HIDE DEF chunk
  <1>5. /\ \A a \in DOMAIN f : /\ a \in sent \/ a \in cut
                               /\ f[a] \in Contents /\ Authentic(f[a])
        /\ \A a \in sent : a \in DOMAIN f /\ f[a] = chunk
    BY <1>3, <1>4
  <1> HIDE DEF f
  <1> QED BY <1>1, <1>5 DEF chunk

LEMMA ValueSent ==
  ASSUME IInv, NEW r \in asked, NEW again, NEW broken, HandleGetValue(r, again, broken),
         kept[r.to][r.hash] # None
  PROVE  \E f : /\ Connect(f)
                /\ DOMAIN f = {<<r.from, r.port>>}
                /\ \A a \in DOMAIN f : f[a] \in Contents /\ Authentic(f[a])
  <1> DEFINE content == ReadChunk(r.to, r.hash)
             f == [a \in {<<r.from, r.port>>} |-> IF broken THEN Cut(content) ELSE content]
  <1>1. Connect(f)
    BY DEF HandleGetValue
  <1>2. r.to \in Nodes /\ r.hash \in Hashes
    BY DEF IInv, TypeOK
  <1>3. content \in Contents /\ Authentic(content)
    BY <1>2, ChunkIsRead
  <1>4. Cut(content) \in Contents /\ Authentic(Cut(content))
    BY <1>3 DEF Contents, Cut, Authentic
  <1> HIDE DEF content
  <1>5. /\ DOMAIN f = {<<r.from, r.port>>}
        /\ \A a \in DOMAIN f : f[a] \in Contents /\ Authentic(f[a])
    BY <1>3, <1>4
  <1> HIDE DEF f
  <1> QED BY <1>1, <1>5

\* A listener is closed.
LEMMA Closed ==
  ASSUME TypeOK, NEW n \in Nodes, NEW p \in Ports, Close(n, p)
  PROVE  /\ socket' \in [Nodes -> [Ports -> Listeners \cup {None}]]
         /\ socket'[n][p] = None
         /\ \A m \in Nodes, q \in Ports : <<m, q>> # <<n, p>> => socket'[m][q] = socket[m][q]
  BY DEF Close, TypeOK

\* The listeners for a chunk that is to be sent.
LEMMA PortsOpened ==
  ASSUME IInv, NEW n \in Users, NEW reached \in SUBSET cmd[n].nodes,
         NEW answered, NEW p \in [reached -> Ports],
         GetPortsForNodes(n, reached, answered, p)
  PROVE  /\ Hash(cmd[n].key, cmd[n].at) \in Hashes
         /\ socket' \in [Nodes -> [Ports -> Listeners \cup {None}]]
         /\ \A m \in Nodes, q \in Ports :
              \/ socket'[m][q] = socket[m][q]
              \/ /\ socket[m][q] = None
                 /\ socket'[m][q] = Listener(Hash(cmd[n].key, cmd[n].at))
         /\ \A a : (\E m \in answered : a = <<m, p[m]>>) =>
              /\ a \in Nodes \X Ports
              /\ socket[a[1]][a[2]] = None
              /\ socket'[a[1]][a[2]] = Listener(Hash(cmd[n].key, cmd[n].at))
  <1> USE Constants
  <1> DEFINE h == Hash(cmd[n].key, cmd[n].at)
             opened == {m \in reached : p[m] \notin left[m]}
  <1>1. IsUploading(n) /\ cmd[n].stage # "read"
    BY DEF GetPortsForNodes, IsUploading
  <1>2. h \in Hashes
    BY <1>1, UploadFacts, SourceFacts DEF IInv
  <1>3. reached \subseteq Nodes
    BY Types DEF IInv
  <1>4. /\ answered \subseteq opened
        /\ \A m \in reached : socket[m][p[m]] = None
        /\ socket' = [m \in Nodes |->
                        IF m \in opened THEN [socket[m] EXCEPT ![p[m]] = Listener(h)]
                        ELSE socket[m]]
    BY DEF GetPortsForNodes
  <1>5. Listener(h) \in Listeners
    BY <1>2 DEF Listener, Listeners
  <1>6. socket \in [Nodes -> [Ports -> Listeners \cup {None}]]
    BY DEF IInv, TypeOK
  <1> HIDE DEF h
  <1>7. socket' \in [Nodes -> [Ports -> Listeners \cup {None}]]
    BY <1>4, <1>5, <1>6
  <1>8. ASSUME NEW m \in Nodes, NEW q \in Ports
        PROVE  \/ socket'[m][q] = socket[m][q]
               \/ socket[m][q] = None /\ socket'[m][q] = Listener(h)
    BY <1>4, <1>6
  <1>9. ASSUME NEW m \in answered
        PROVE  socket[m][p[m]] = None /\ socket'[m][p[m]] = Listener(h)
    BY <1>3, <1>4, <1>6
  <1>10. answered \subseteq reached
    BY <1>4
  <1>11. \A m \in answered : m \in Nodes /\ p[m] \in Ports
    BY <1>3, <1>10
  <1> HIDE DEF opened
  <1>12. \A a : (\E m \in answered : a = <<m, p[m]>>) =>
            a \in Nodes \X Ports /\ socket[a[1]][a[2]] = None /\ socket'[a[1]][a[2]] = Listener(h)
    BY <1>9, <1>11
  <1> QED BY <1>2, <1>7, <1>8, <1>12 DEF h

\* A command fails.
LEMMA Failed ==
  ASSUME TypeOK, NEW n \in Users, Fail(n)
  PROVE  /\ cmd' \in [Users -> Commands]
         /\ cmd'[n] = Idle
         /\ \A u \in Users \ {n} : cmd'[u] = cmd[u]
  BY IdleCommand DEF Fail, TypeOK

\* A download goes on after blocks that are the beginning of its file.
LEMMA Proceeded ==
  ASSUME IInv, NEW n \in Users, cmd[n].stage \in {"find", "fetch", "receive"},
         NEW blocks \in Seq(Blocks), Len(blocks) <= Len(meta[cmd[n].key]),
         Proceed(n, blocks)
  PROVE  /\ cmd' \in [Users -> Commands]
         /\ \A u \in Users \ {n} : cmd'[u] = cmd[u]
         /\ cmd'[n].key = cmd[n].key /\ cmd'[n].output = blocks /\ cmd'[n].ports = {}
         /\ \/ /\ cmd'[n].stage = "downloaded"
               /\ Len(blocks) = Len(meta[cmd[n].key])
            \/ /\ cmd'[n].stage = "fetch" /\ cmd'[n].at = Len(blocks)
               /\ cmd'[n].storers = cmd[n].storers
               /\ Len(blocks) < Len(meta[cmd[n].key])
  <1> USE Constants
  <1> DEFINE c == cmd[n]
             d == IF Len(blocks) = Len(meta[c.key])
                  THEN [Command("downloaded", c.key) EXCEPT !.output = blocks]
                  ELSE [c EXCEPT !.stage = "fetch", !.at = Len(blocks), !.ports = {},
                                 !.output = blocks]
  <1>1. /\ c \in Commands /\ c.key \in Begun /\ c.key \in Uploads
        /\ Len(meta[c.key]) = Len(source[c.key])
    BY DownloadFacts
  <1>2. Len(source[c.key]) \in 0 .. MaxBlocks
    BY <1>1, SourceFacts DEF IInv
  <1>3. Len(blocks) \in 0 .. MaxBlocks
    BY <1>1, <1>2
  <1>4. CASE Len(blocks) = Len(meta[c.key])
    <2>1. Command("downloaded", c.key) \in Commands
      BY <1>1, NewCommand DEF Stages
    <2>2. d = [Command("downloaded", c.key) EXCEPT !.output = blocks]
      BY <1>4
    <2> HIDE DEF d, c
    <2>a. d = [stage |-> "downloaded", key |-> c.key, at |-> 0, nodes |-> {}, ports |-> {},
               storers |-> <<>>, output |-> blocks]
      BY <2>2 DEF Command
    <2>b. 0 \in 0 .. MaxBlocks
      OBVIOUS
    <2>3. /\ d \in Commands /\ d.stage = "downloaded" /\ d.key = c.key /\ d.output = blocks
          /\ d.ports = {}
      BY <1>1, <2>a, <2>b DEF Commands, Stages
    <2>4. cmd' = [cmd EXCEPT ![n] = d]
      BY DEF Proceed, d, c
    <2> QED BY <1>4, <2>3, <2>4 DEF IInv, TypeOK, c
  <1>5. CASE Len(blocks) # Len(meta[c.key])
    <2>1. d = [c EXCEPT !.stage = "fetch", !.at = Len(blocks), !.ports = {}, !.output = blocks]
      BY <1>5
    <2>2. /\ d \in Commands /\ d.stage = "fetch" /\ d.key = c.key /\ d.output = blocks
          /\ d.ports = {} /\ d.at = Len(blocks) /\ d.storers = c.storers
      <3> HIDE DEF d, c
      <3> QED BY <1>1, <1>3, <2>1 DEF Commands, Stages
    <2>3. Len(blocks) < Len(meta[c.key])
      BY <1>1, <1>2, <1>3, <1>5
    <2> HIDE DEF d
    <2>4. cmd' = [cmd EXCEPT ![n] = d]
      BY DEF Proceed, d
    <2> QED BY <2>2, <2>3, <2>4 DEF IInv, TypeOK
  <1> QED BY <1>4, <1>5

\* Appending a block of the file.
LEMMA NextBlock ==
  ASSUME IInv, NEW n \in Users, cmd[n].stage \in {"fetch", "receive"},
         cmd[n].at = Len(cmd[n].output), cmd[n].at + 1 \in DOMAIN source[cmd[n].key]
  PROVE  LET blocks == Append(cmd[n].output, source[cmd[n].key][cmd[n].at + 1])
         IN  /\ blocks \in Seq(Blocks)
             /\ Len(blocks) = cmd[n].at + 1
             /\ Len(blocks) <= Len(meta[cmd[n].key])
             /\ \A i \in DOMAIN blocks : /\ i \in DOMAIN source[cmd[n].key]
                                         /\ blocks[i] = source[cmd[n].key][i]
  <1> USE Constants
  <1> DEFINE out == cmd[n].output
             src == source[cmd[n].key]
             b == Append(out, src[cmd[n].at + 1])
  <1>1. cmd[n].key \in Begun /\ Len(meta[cmd[n].key]) = Len(src)
    BY DownloadFacts
  <1>2. src \in Seq(Blocks) /\ src[cmd[n].at + 1] \in Blocks /\ Len(src) \in Nat
        /\ DOMAIN src = 1 .. Len(src)
    BY <1>1, SourceFacts DEF IInv
  <1>3. out \in Seq(Blocks) /\ Len(out) \in Nat /\ cmd[n].at = Len(out)
    BY Types DEF IInv
  <1>4. \A i \in DOMAIN out : i \in DOMAIN src /\ out[i] = src[i]
    BY DEF IInv, DownloadsTrue, DownloadTrue
  <1> HIDE DEF out, src
  <1>5. b \in Seq(Blocks) /\ Len(b) = Len(out) + 1
    BY <1>2, <1>3
  <1>6. ASSUME NEW i \in DOMAIN b PROVE i \in DOMAIN src /\ b[i] = src[i]
    <2>1. CASE i \in DOMAIN out
      BY <1>2, <1>3, <1>4, <2>1
    <2>2. CASE i \notin DOMAIN out
      <3>1. i = Len(out) + 1
        BY <1>3, <1>5, <2>2
      <3> QED BY <1>2, <1>3, <3>1 DEF src
    <2> QED BY <2>1, <2>2
  <1>7. Len(b) <= Len(src)
    BY <1>2, <1>3, <1>5 DEF src
  <1> HIDE DEF b
  <1> QED BY <1>1, <1>3, <1>5, <1>6, <1>7 DEF b, out, src

\* The command of a node is replaced by another one.
LEMMA Replaced ==
  ASSUME TypeOK, NEW n \in Users, NEW d \in Commands, cmd' = [cmd EXCEPT ![n] = d]
  PROVE  /\ cmd' \in [Users -> Commands]
         /\ cmd'[n] = d
         /\ \A u \in Users \ {n} : cmd'[u] = cmd[u]
  BY DEF TypeOK

\* The changes of a command that goes on.
LEMMA ToPort ==
  ASSUME NEW c \in Commands, NEW S \in SUBSET Nodes, NEW d,
         d = [c EXCEPT !.stage = "port", !.nodes = S]
  PROVE  /\ d \in Commands /\ d.stage = "port" /\ d.at = c.at /\ d.key = c.key
         /\ d.ports = c.ports /\ d.output = c.output
  BY DEF Commands, Stages

LEMMA ToRead ==
  ASSUME NEW c \in Commands, NEW d,
         d = [c EXCEPT !.stage = "read", !.ports = {}]
  PROVE  /\ d \in Commands /\ d.stage = "read" /\ d.at = c.at /\ d.key = c.key
         /\ d.ports = {} /\ d.output = c.output
  BY DEF Commands, Stages

LEMMA ToStorers ==
  ASSUME NEW c \in Commands, NEW s \in Seq(Nodes), NEW d,
         d = [c EXCEPT !.storers = s]
  PROVE  /\ d \in Commands /\ d.stage = c.stage /\ d.at = c.at /\ d.key = c.key
         /\ d.ports = c.ports /\ d.output = c.output /\ d.storers = s
  BY DEF Commands, Stages

\* What the steps of a command do to it; the commands of other nodes stay.
LEMMA UploadStarts ==
  ASSUME IInv, NEW n \in Users, NEW f \in Files, StartUpload(n, f)
  PROVE  /\ cmd' \in [Users -> Commands]
         /\ \A u \in Users \ {n} : cmd'[u] = cmd[u]
         /\ \/ Fail(n) /\ cmd'[n] = Idle /\ source' = source
            \/ \E k \in Uploads \ Begun :
                 /\ cmd'[n] = Command("read", k)
                 /\ source' = [source EXCEPT ![k] = f]
                 /\ Len(f) <= MaxBlocks
                 /\ Begun \cup {k} = 1 .. k
  <1> USE Constants
  <1>0. TypeOK /\ KeysInOrder
    BY DEF IInv
  <1>1. CASE Len(f) > MaxBlocks
    BY <1>0, <1>1, Failed DEF StartUpload
  <1>2. CASE ~(Len(f) > MaxBlocks)
    <2> DEFINE k == Cardinality({j \in Uploads : source[j] # None}) + 1
    <2>1. /\ k \in Uploads /\ source' = [source EXCEPT ![k] = f]
          /\ cmd' = [cmd EXCEPT ![n] = Command("read", k)]
      BY <1>2 DEF StartUpload
    <2>2. k \notin Begun /\ Begun \cup {k} = 1 .. k
      BY <1>0, FreshKey
    <2> HIDE DEF k
    <2>3. Command("read", k) \in Commands
      BY <2>1, NewCommand DEF Stages
    <2>4. Len(f) <= MaxBlocks
      BY <1>2
    <2>5. /\ cmd' \in [Users -> Commands] /\ cmd'[n] = Command("read", k)
          /\ \A u \in Users \ {n} : cmd'[u] = cmd[u]
      BY <1>0, <2>1, <2>3, Replaced
    <2> QED BY <2>1, <2>2, <2>4, <2>5
  <1> QED BY <1>1, <1>2

LEMMA ChunkRead ==
  ASSUME IInv, NEW n \in Users, GetNextChunkEncrypt(n, FALSE)
  PROVE  /\ IsUploading(n)
         /\ cmd' \in [Users -> Commands]
         /\ \A u \in Users \ {n} : cmd'[u] = cmd[u]
         /\ cmd'[n].stage = "store" /\ cmd'[n].key = cmd[n].key
         /\ cmd'[n].at = cmd[n].at + 1
         /\ cmd'[n].at \in DOMAIN source[cmd[n].key]
         /\ cmd'[n].ports = cmd[n].ports /\ cmd'[n].output = cmd[n].output
  <1> USE Constants
  <1> DEFINE c == cmd[n]
             k == c.key
             i == c.at + 1
             d == [c EXCEPT !.stage = "store", !.at = i]
  <1>1. /\ IsUploading(n) /\ i <= Len(source[k]) /\ TypeOK
        /\ cmd' = [cmd EXCEPT ![n] = d]
    BY DEF GetNextChunkEncrypt, IsUploading, IInv
  <1>2. /\ k \in Begun /\ c \in Commands /\ c.at \in Nat
        /\ Len(source[k]) \in 0 .. MaxBlocks /\ DOMAIN source[k] = 1 .. Len(source[k])
    BY <1>1, UploadFacts, SourceFacts, Types
  <1>3. i \in 0 .. MaxBlocks /\ i \in DOMAIN source[k]
    BY SMTT(30), <1>1, <1>2
  <1>4. d = [c EXCEPT !.stage = "store", !.at = i]
    OBVIOUS
  <1> HIDE DEF d, i, c
  <1>5. /\ d \in Commands /\ d.stage = "store" /\ d.at = i /\ d.key = c.key
        /\ d.ports = c.ports /\ d.output = c.output
    BY <1>2, <1>3, <1>4 DEF Commands, Stages
  <1> QED BY <1>1, <1>3, <1>5, Replaced DEF c, i

LEMMA NodesResolved ==
  ASSUME IInv, NEW n \in Users, NEW answering \in SUBSET (Nodes \ {n}),
         ResolveAlphaClosestNodes(n, answering)
  PROVE  /\ IsUploading(n) /\ cmd[n].stage = "store"
         /\ cmd' \in [Users -> Commands]
         /\ \A u \in Users \ {n} : cmd'[u] = cmd[u]
         /\ \/ Fail(n) /\ cmd'[n] = Idle
            \/ /\ cmd'[n].stage = "port" /\ cmd'[n].key = cmd[n].key
               /\ cmd'[n].at = cmd[n].at
               /\ cmd'[n].ports = cmd[n].ports /\ cmd'[n].output = cmd[n].output
  <1> USE Constants
  <1> DEFINE ready == {m \in answering : Hash(cmd[n].key, cmd[n].at) \notin offered[m]}
             c == cmd[n]
             near == Nearest(ready)
             d == [c EXCEPT !.stage = "port", !.nodes = near]
  <1>1. /\ cmd[n].stage = "store" /\ IsUploading(n) /\ TypeOK
        /\ Fail(n) \/ cmd' = [cmd EXCEPT ![n] = d]
    BY DEF ResolveAlphaClosestNodes, IsUploading, IInv
  <1>2. c \in Commands
    BY <1>1, Types
  <1>3. near \in SUBSET Nodes
    BY DEF Nearest
  <1>4. d = [c EXCEPT !.stage = "port", !.nodes = near]
    OBVIOUS
  <1> HIDE DEF d, near, c
  <1>5. /\ d \in Commands /\ d.stage = "port" /\ d.at = c.at /\ d.key = c.key
        /\ d.ports = c.ports /\ d.output = c.output
    BY ZenonT(30), <1>2, <1>3, <1>4, ToPort
  <1> QED BY <1>1, <1>5, Replaced, Failed DEF c

LEMMA PortsGiven ==
  ASSUME IInv, NEW n \in Users, NEW reached \in SUBSET cmd[n].nodes,
         NEW answered, NEW p \in [reached -> Ports],
         GetPortsForNodes(n, reached, answered, p)
  PROVE  /\ IsUploading(n) /\ cmd[n].stage = "port"
         /\ cmd' \in [Users -> Commands]
         /\ \A u \in Users \ {n} : cmd'[u] = cmd[u]
         /\ \/ Fail(n) /\ cmd'[n] = Idle
            \/ /\ cmd'[n].stage = "send" /\ cmd'[n].key = cmd[n].key
               /\ cmd'[n].at = cmd[n].at /\ cmd'[n].output = cmd[n].output
               /\ cmd'[n].ports # {}
               /\ \A a \in cmd'[n].ports :
                    /\ socket[a[1]][a[2]] = None
                    /\ socket'[a[1]][a[2]] = Listener(Hash(cmd[n].key, cmd[n].at))
  <1>0. \A a : (\E m \in answered : a = <<m, p[m]>>) =>
          /\ socket[a[1]][a[2]] = None
          /\ socket'[a[1]][a[2]] = Listener(Hash(cmd[n].key, cmd[n].at))
    BY PortsOpened
  <1> USE Constants
  <1> DEFINE ps == {<<m, p[m]>> : m \in answered}
             c == cmd[n]
             d == [c EXCEPT !.stage = "send", !.nodes = {}, !.ports = ps]
  <1>1. /\ cmd[n].stage = "port" /\ IsUploading(n) /\ TypeOK
        /\ Fail(n) \/ (cmd' = [cmd EXCEPT ![n] = d] /\ answered # {})
    BY DEF GetPortsForNodes, IsUploading, IInv
  <1>2. c \in Commands
    BY <1>1, Types
  <1>3. ps \in SUBSET (Nodes \X Ports)
    <2> HIDE DEF d, ps, c
    <2>1. answered \subseteq reached
      BY DEF GetPortsForNodes
    <2>2. reached \subseteq Nodes
      BY <1>1, Types
    <2>3. \A m \in answered : m \in Nodes /\ p[m] \in Ports
      BY <2>1, <2>2
    <2> USE <2>3 DEF ps
    <2> QED BY <2>1
  <1>a. d = [c EXCEPT !.stage = "send", !.nodes = {}, !.ports = ps]
    OBVIOUS
  <1> HIDE DEF d, ps, c
  <1>4. /\ d \in Commands /\ d.stage = "send" /\ d.at = c.at /\ d.key = c.key
        /\ d.ports = ps /\ d.output = c.output
    BY <1>2, <1>3, <1>a DEF Commands, Stages
  <1>5. CASE Fail(n)
    BY <1>1, <1>5, Failed
  <1>6. CASE cmd' = [cmd EXCEPT ![n] = d] /\ answered # {}
    <2>1. /\ cmd' \in [Users -> Commands] /\ cmd'[n] = d
          /\ \A u \in Users \ {n} : cmd'[u] = cmd[u]
      BY <1>1, <1>4, <1>6, Replaced
    <2>2. \A a \in ps : \E m \in answered : a = <<m, p[m]>>
      BY DEF ps
    <2>3. ps # {}
      BY <1>6 DEF ps
    <2>4. ASSUME NEW a \in ps
          PROVE  /\ socket[a[1]][a[2]] = None
                 /\ socket'[a[1]][a[2]] = Listener(Hash(cmd[n].key, cmd[n].at))
      <3>1. \E m \in answered : a = <<m, p[m]>>
        BY <2>2
      <3> HIDE Constants
      <3> QED BY <1>0, <3>1
    <2> QED BY <1>1, <1>4, <1>6, <2>1, <2>3, <2>4 DEF c
  <1> QED BY <1>1, <1>5, <1>6

LEMMA ChunkStored ==
  ASSUME IInv, NEW n \in Users, NEW sent, NEW cut, StoreChunk(n, sent, cut)
  PROVE  /\ IsUploading(n) /\ cmd[n].stage = "send"
         /\ cmd' \in [Users -> Commands]
         /\ \A u \in Users \ {n} : cmd'[u] = cmd[u]
         /\ \/ Fail(n) /\ cmd'[n] = Idle
            \/ /\ cmd'[n].stage = "read" /\ cmd'[n].key = cmd[n].key
               /\ cmd'[n].at = cmd[n].at /\ cmd'[n].output = cmd[n].output
               /\ cmd'[n].ports = {} /\ sent # {}
  <1> USE Constants
  <1> DEFINE d == [cmd[n] EXCEPT !.stage = "read", !.ports = {}]
  <1>1. /\ cmd[n].stage = "send" /\ IsUploading(n) /\ TypeOK
        /\ Fail(n) \/ (cmd' = [cmd EXCEPT ![n] = d] /\ sent # {})
    BY DEF StoreChunk, IsUploading, IInv
  <1>2. cmd[n] \in Commands
    BY <1>1, Types
  <1> HIDE DEF d
  <1>3. /\ d \in Commands /\ d.stage = "read" /\ d.at = cmd[n].at /\ d.key = cmd[n].key
        /\ d.ports = {} /\ d.output = cmd[n].output
    BY <1>2, ToRead DEF d
  <1> QED BY <1>1, <1>3, Replaced, Failed

LEMMA DownloadStarts ==
  ASSUME IInv, NEW n \in Users, NEW k \in Uploads, StartDownload(n, k)
  PROVE  /\ cmd' \in [Users -> Commands]
         /\ \A u \in Users \ {n} : cmd'[u] = cmd[u]
         /\ cmd'[n] = Command("find", k) /\ k \in handles
  <1>1. Command("find", k) \in Commands
    BY NewCommand DEF Stages
  <1>2. cmd' = [cmd EXCEPT ![n] = Command("find", k)] /\ k \in handles /\ TypeOK
    BY DEF StartDownload, IInv
  <1> QED BY <1>1, <1>2, Replaced

\* The next batch of a download, and the storers that are found for it.
LEMMA StorersFound ==
  ASSUME IInv, NEW n \in Users, NEW storers \in [1 .. Cardinality(Batch(n)) -> Nodes],
         FindStorers(n, storers)
  PROVE  /\ cmd[n].stage = "find"
         /\ cmd' \in [Users -> Commands]
         /\ \A u \in Users \ {n} : cmd'[u] = cmd[u]
         /\ cmd'[n].stage = "find" /\ cmd'[n].key = cmd[n].key /\ cmd'[n].at = cmd[n].at
         /\ cmd'[n].ports = cmd[n].ports /\ cmd'[n].output = cmd[n].output
         /\ \A i \in DOMAIN cmd'[n].storers :
              \/ i \in DOMAIN cmd[n].storers /\ cmd'[n].storers[i] = cmd[n].storers[i]
              \/ cmd'[n].storers[i] \in Storers(n, meta[cmd[n].key][i].hash)
  <1> USE Constants
  <1> DEFINE c == cmd[n]
             got == Len(c.storers)
             all == Len(meta[c.key])
             last == IF got + Alpha <= all THEN got + Alpha ELSE all
  <1>1. c.stage = "find" /\ TypeOK
    BY DEF FindStorers, IInv
  <1>2. /\ c \in Commands /\ c.storers \in Seq(Nodes) /\ got \in Nat
        /\ all \in Nat /\ all <= MaxBlocks
    <2>1. c \in Commands /\ c.storers \in Seq(Nodes) /\ got \in Nat
      BY <1>1, Types
    <2>2. c.key \in Begun /\ all = Len(source[c.key])
      BY <1>1, DownloadFacts
    <2>3. Len(source[c.key]) \in 0 .. MaxBlocks
      BY <1>1, <2>2, SourceFacts
    <2> HIDE DEF all, got
    <2> QED BY <2>1, <2>2, <2>3
  <1>3. Batch(n) = {i \in Indices : got < i /\ i <= got + Alpha /\ i <= all}
    BY <1>1 DEF Batch
  <1> HIDE DEF got, all
  <1>4. Batch(n) = got + 1 .. last
    <2>1. last \in Int /\ last <= MaxBlocks
      BY <1>2
    <2> QED BY <1>2, <1>3, <2>1 DEF Indices
  <1>5. Batch(n) # {} /\ last \in Int
    BY <1>2 DEF FindStorers
  <1>6. Cardinality(Batch(n)) = last - got /\ last - got \in Nat
    <2>1. got + 1 <= last
      BY <1>2, <1>4, <1>5
    <2>2. Cardinality(got + 1 .. last) = last - (got + 1) + 1
      BY <1>2, <1>5, <2>1, FS_Interval
    <2> QED BY <1>2, <1>4, <1>5, <2>1, <2>2
  <1>7. storers \in Seq(Nodes) /\ Len(storers) = last - got
    BY <1>6
  <1> DEFINE s == c.storers \o storers
  <1>8. s \in Seq(Nodes) /\ Len(s) = last /\ got = Len(c.storers)
    BY <1>2, <1>5, <1>7 DEF got
  <1>9. ASSUME NEW i \in DOMAIN s
        PROVE  \/ i \in DOMAIN c.storers /\ s[i] = c.storers[i]
               \/ s[i] \in Storers(n, meta[c.key][i].hash)
    <2>1. CASE i <= got
      BY <1>2, <1>7, <1>8, <2>1
    <2>2. CASE ~(i <= got)
      <3>a. i \in 1 .. last
        BY <1>5, <1>8
      <3>1. i \in Batch(n) /\ i - got \in 1 .. Len(storers)
        BY <1>2, <1>4, <1>5, <1>7, <2>2, <3>a
      <3>2. s[i] = storers[i - got]
        BY <1>2, <1>7, <1>8, <2>2, <3>1
      <3>3. storers[i - got] \in Storers(n, meta[c.key][i].hash)
        BY <3>1 DEF FindStorers, got
      <3> QED BY <3>2, <3>3
    <2> QED BY <2>1, <2>2
  <1> DEFINE d == [c EXCEPT !.storers = s]
  <1>10. cmd' = [cmd EXCEPT ![n] = d]
    BY DEF FindStorers
  <1> HIDE DEF s, d, c
  <1>11. /\ d \in Commands /\ d.stage = c.stage /\ d.at = c.at /\ d.key = c.key
         /\ d.ports = c.ports /\ d.output = c.output /\ d.storers = s
    BY <1>2, <1>8, ToStorers DEF d
  <1>12. /\ cmd' \in [Users -> Commands] /\ cmd'[n] = d
         /\ \A u \in Users \ {n} : cmd'[u] = cmd[u]
    BY <1>1, <1>10, <1>11, Replaced
  <1> QED BY <1>1, <1>9, <1>11, <1>12 DEF c

------------------------------------------------------------------------------
(* What a step may do to the uploads and to the command of one node. *)

Quiet == UNCHANGED <<source, meta, handles>>

Alone(n) == /\ cmd' \in [Users -> Commands]
            /\ \A u \in Users \ {n} : cmd'[u] = cmd[u]

Stops(n) == cmd'[n] = Idle /\ Quiet

Begins(n) ==
    \E k \in Uploads \ Begun, f \in Files :
        /\ cmd'[n] = Command("read", k)
        /\ source' = [source EXCEPT ![k] = f]
        /\ Len(f) <= MaxBlocks
        /\ Begun \cup {k} = 1 .. k
        /\ UNCHANGED <<meta, handles>>

Reads(n) ==
    LET k == cmd[n].key
        i == cmd[n].at + 1 IN
    /\ cmd[n].stage = "read"
    /\ cmd'[n].stage = "store" /\ cmd'[n].key = k /\ cmd'[n].at = i
    /\ cmd'[n].output = cmd[n].output
    /\ i \in DOMAIN source[k]
    /\ meta' = [meta EXCEPT ![k] = Append(@, [hash |-> Hash(k, i), nonce |-> i])]
    /\ UNCHANGED <<source, handles>>

Moves(n) ==
    /\ cmd[n].stage \in {"store", "port", "send"}
    /\ \/ /\ cmd'[n].stage = "port"
          /\ \E answering \in SUBSET (Nodes \ {n}) : ResolveAlphaClosestNodes(n, answering)
       \/ /\ cmd'[n].stage = "send"
          /\ \E reached \in SUBSET cmd[n].nodes : \E answered \in SUBSET reached :
               \E p \in [reached -> Ports] : GetPortsForNodes(n, reached, answered, p)
       \/ /\ cmd'[n].stage = "read"
          /\ \E sent, cut : StoreChunk(n, sent, cut)
    /\ cmd'[n].key = cmd[n].key /\ cmd'[n].at = cmd[n].at
    /\ cmd'[n].output = cmd[n].output
    /\ Quiet

Finishes(n) ==
    /\ cmd[n].stage = "read" /\ cmd[n].at = Len(source[cmd[n].key])
    /\ cmd'[n] = Idle
    /\ handles' = handles \cup {cmd[n].key}
    /\ UNCHANGED <<source, meta>>

Looks(n) == Quiet /\ \E k \in handles : cmd'[n] = Command("find", k)

Finds(n) ==
    /\ cmd[n].stage = "find"
    /\ cmd'[n].stage = "find" /\ cmd'[n].key = cmd[n].key
    /\ cmd'[n].output = cmd[n].output
    /\ \A i \in DOMAIN cmd'[n].storers :
         \/ i \in DOMAIN cmd[n].storers /\ cmd'[n].storers[i] = cmd[n].storers[i]
         \/ cmd'[n].storers[i] \in Storers(n, meta[cmd[n].key][i].hash)
    /\ Quiet

Writes(n) ==
    /\ cmd[n].stage \in {"find", "fetch", "receive"}
    /\ cmd'[n].key = cmd[n].key
    /\ \A i \in DOMAIN cmd'[n].output :
         i \in DOMAIN source[cmd[n].key] /\ cmd'[n].output[i] = source[cmd[n].key][i]
    /\ \/ /\ cmd'[n].stage = "downloaded"
          /\ Len(cmd'[n].output) = Len(meta[cmd[n].key])
       \/ /\ cmd'[n].stage = "fetch" /\ cmd'[n].at = Len(cmd'[n].output)
          /\ cmd'[n].storers = cmd[n].storers
          /\ Len(cmd'[n].output) < Len(meta[cmd[n].key])
          /\ Len(meta[cmd[n].key]) <= Len(cmd[n].storers)
    /\ Quiet

Waits(n) ==
    /\ cmd[n].stage = "fetch" /\ cmd'[n].stage = "receive"
    /\ cmd'[n].key = cmd[n].key /\ cmd'[n].at = cmd[n].at
    /\ cmd'[n].output = cmd[n].output /\ cmd'[n].storers = cmd[n].storers
    /\ \E p \in Ports : /\ cmd'[n].ports = {<<n, p>>}
                        /\ socket'[n][p] = Listener(Download)
    /\ Quiet

Acts(n) == \/ Stops(n) \/ Begins(n) \/ Reads(n) \/ Moves(n) \/ Finishes(n)
           \/ Looks(n) \/ Finds(n) \/ Writes(n) \/ Waits(n)

\* When there is no batch any more every chunk has a storer.
LEMMA NothingToFind ==
  ASSUME IInv, NEW n \in Users, cmd[n].stage = "find", Batch(n) = {}
  PROVE  Len(meta[cmd[n].key]) <= Len(cmd[n].storers)
  <1> USE Constants
  <1> DEFINE got == Len(cmd[n].storers)
             all == Len(meta[cmd[n].key])
  <1>1. got \in Nat
    BY Types DEF IInv
  <1>2. all \in Nat /\ all <= MaxBlocks
    <2>1. cmd[n].key \in Begun /\ all = Len(source[cmd[n].key])
      BY DownloadFacts
    <2>2. Len(source[cmd[n].key]) \in 0 .. MaxBlocks
      BY <2>1, SourceFacts DEF IInv
    <2> HIDE DEF all
    <2> QED BY <2>1, <2>2
  <1>3. {i \in Indices : got < i /\ i <= got + Alpha /\ i <= all} = {}
    BY DEF Batch
  <1> HIDE DEF got, all
  <1>4. got + 1 \in Indices => ~(got < got + 1 /\ got + 1 <= got + Alpha /\ got + 1 <= all)
    BY <1>3
  <1>5. all <= got
    BY <1>1, <1>2, <1>4 DEF Indices
  <1> QED BY <1>5 DEF got, all

\* A chunk that a download has got is written.
LEMMA ChunkWritten ==
  ASSUME IInv, NEW n \in Users, NEW full, Quiet,
         \/ ReadOwnChunk(n, full)
         \/ \E p \in Ports : ReceiveData(n, p, full)
  PROVE  Alone(n) /\ (Stops(n) \/ Writes(n)) /\ cmd'[n].stage # "receive" /\ cmd'[n].ports = {}
  <1>1. CASE Fail(n)
    BY <1>1, Failed, IdleCommand DEF IInv, Alone, Stops
  <1>2. CASE ~Fail(n)
    <2> DEFINE blocks == Append(cmd[n].output, source[cmd[n].key][cmd[n].at + 1])
    <2>1. /\ cmd[n].stage \in {"fetch", "receive"} /\ Proceed(n, blocks)
          /\ cmd[n].at = Len(cmd[n].output) /\ cmd[n].at + 1 \in DOMAIN source[cmd[n].key]
      BY <1>2, DownloadProgress
    <2>2. /\ blocks \in Seq(Blocks) /\ Len(blocks) <= Len(meta[cmd[n].key])
          /\ \A i \in DOMAIN blocks : /\ i \in DOMAIN source[cmd[n].key]
                                      /\ blocks[i] = source[cmd[n].key][i]
      BY <2>1, NextBlock
    <2>3. Len(meta[cmd[n].key]) <= Len(cmd[n].storers)
      BY <2>1 DEF IInv, DownloadsTrue, DownloadTrue
    <2> HIDE DEF blocks
    <2>4. /\ cmd' \in [Users -> Commands]
          /\ \A u \in Users \ {n} : cmd'[u] = cmd[u]
          /\ cmd'[n].key = cmd[n].key /\ cmd'[n].output = blocks /\ cmd'[n].ports = {}
          /\ \/ /\ cmd'[n].stage = "downloaded"
                /\ Len(blocks) = Len(meta[cmd[n].key])
             \/ /\ cmd'[n].stage = "fetch" /\ cmd'[n].at = Len(blocks)
                /\ cmd'[n].storers = cmd[n].storers
                /\ Len(blocks) < Len(meta[cmd[n].key])
      BY <2>1, <2>2, Proceeded
    <2> QED BY <2>1, <2>2, <2>3, <2>4 DEF Alone, Writes
  <1> QED BY <1>1, <1>2

\* Every step leaves the commands alone, or is a step of one of them.
LEMMA StepOfCommand ==
  ASSUME IInv, NEW n \in Users, CommandStep(n)
  PROVE  Alone(n) /\ Acts(n)
  <1> USE DEF Acts
  <1>0. TypeOK
    BY DEF IInv
  <1>1. ASSUME NEW b \in BOOLEAN, GetNextChunkEncrypt(n, b)
        PROVE  Alone(n) /\ Acts(n)
    <2>1. CASE b
      <3>1. Quiet /\ Fail(n)
        BY <1>1, <2>1 DEF GetNextChunkEncrypt, Quiet
      <3> QED BY <1>0, <3>1, Failed DEF Alone, Stops
    <2>2. CASE ~b
      <3>1. GetNextChunkEncrypt(n, FALSE)
        BY <1>1, <2>2
      <3> QED BY <3>1, ChunkRead DEF GetNextChunkEncrypt, Alone, Reads
    <2> QED BY <2>1, <2>2
  <1>2. ASSUME NEW answering \in SUBSET (Nodes \ {n}), ResolveAlphaClosestNodes(n, answering)
        PROVE  Alone(n) /\ Acts(n)
    <2>1. Quiet
      BY <1>2 DEF ResolveAlphaClosestNodes, uploads, Quiet
    <2> QED BY <1>2, <2>1, NodesResolved DEF Alone, Stops, Moves
  <1>3. ASSUME NEW reached \in SUBSET cmd[n].nodes, NEW answered \in SUBSET reached,
               NEW p \in [reached -> Ports], GetPortsForNodes(n, reached, answered, p)
        PROVE  Alone(n) /\ Acts(n)
    <2>1. Quiet
      BY <1>3 DEF GetPortsForNodes, uploads, Quiet
    <2>2. /\ IsUploading(n) /\ cmd[n].stage = "port"
          /\ cmd' \in [Users -> Commands]
          /\ \A u \in Users \ {n} : cmd'[u] = cmd[u]
          /\ \/ cmd'[n] = Idle
             \/ /\ cmd'[n].stage = "send" /\ cmd'[n].key = cmd[n].key
                /\ cmd'[n].at = cmd[n].at /\ cmd'[n].output = cmd[n].output
      BY <1>3, PortsGiven
    <2>3. \E r \in SUBSET cmd[n].nodes : \E a \in SUBSET r : \E q \in [r -> Ports] :
            GetPortsForNodes(n, r, a, q)
      BY <1>3
    <2> QED BY <2>1, <2>2, <2>3 DEF Alone, Stops, Moves
  <1>4. ASSUME NEW sent, NEW cut, StoreChunk(n, sent, cut)
        PROVE  Alone(n) /\ Acts(n)
    <2>1. Quiet
      BY <1>4 DEF StoreChunk, uploads, Quiet
    <2> QED BY <1>4, <2>1, ChunkStored DEF Alone, Stops, Moves
  <1>5. ASSUME NEW b, FinishUpload(n, b)
        PROVE  Alone(n) /\ Acts(n)
    <2>1. /\ cmd[n].stage = "read" /\ cmd[n].at = Len(source[cmd[n].key])
          /\ UNCHANGED <<source, meta>> /\ Fail(n)
          /\ UNCHANGED handles \/ handles' = handles \cup {cmd[n].key}
      BY <1>5 DEF FinishUpload, Fail
    <2> QED BY <1>0, <2>1, Failed DEF Alone, Stops, Finishes, Quiet
  <1>6. ASSUME NEW b, ReadOwnChunk(n, b)
        PROVE  Alone(n) /\ Acts(n)
    <2>1. Quiet
      BY <1>6 DEF ReadOwnChunk, uploads, Quiet
    <2> QED BY <1>6, <2>1, ChunkWritten
  <1>7. ASSUME NEW storers \in [1 .. Cardinality(Batch(n)) -> Nodes], FindStorers(n, storers)
        PROVE  Alone(n) /\ Acts(n)
    <2>1. Quiet
      BY <1>7 DEF FindStorers, uploads, Quiet
    <2> QED BY <1>7, <2>1, StorersFound DEF Alone, Finds
  <1>8. CASE FindStorersFails(n)
    <2>1. Quiet /\ Fail(n)
      BY <1>8 DEF FindStorersFails, uploads, Quiet
    <2> QED BY <1>0, <2>1, Failed DEF Alone, Stops
  <1>9. CASE CreateOutput(n)
    <2>1. Quiet /\ cmd[n].stage = "find" /\ Batch(n) = {} /\ Proceed(n, <<>>)
      BY <1>9 DEF CreateOutput, uploads, Quiet
    <2>2. Len(meta[cmd[n].key]) <= Len(cmd[n].storers)
      BY <2>1, NothingToFind
    <2> DEFINE none == <<>>
    <2>3. none \in Seq(Blocks) /\ Len(none) = 0 /\ DOMAIN none = {} /\ Proceed(n, none)
      BY <2>1
    <2> HIDE DEF none
    <2>4. Len(none) <= Len(meta[cmd[n].key])
      BY <2>1, <2>3, DownloadFacts
    <2>5. /\ cmd' \in [Users -> Commands]
          /\ \A u \in Users \ {n} : cmd'[u] = cmd[u]
          /\ cmd'[n].key = cmd[n].key /\ cmd'[n].output = none
          /\ \/ /\ cmd'[n].stage = "downloaded"
                /\ Len(none) = Len(meta[cmd[n].key])
             \/ /\ cmd'[n].stage = "fetch" /\ cmd'[n].at = Len(none)
                /\ cmd'[n].storers = cmd[n].storers
                /\ Len(none) < Len(meta[cmd[n].key])
      BY <2>1, <2>3, <2>4, Proceeded
    <2> QED BY <2>1, <2>2, <2>3, <2>5 DEF Alone, Writes
  <1>10. ASSUME NEW p \in Ports, SendGetValue(n, p)
         PROVE  Alone(n) /\ Acts(n)
    <2> DEFINE c == cmd[n]
               P == {<<n, p>>}
               d == [c EXCEPT !.stage = "receive", !.ports = P]
    <2>1. Quiet /\ c.stage = "fetch" /\ cmd' = [cmd EXCEPT ![n] = d]
      BY <1>10 DEF SendGetValue, uploads, Quiet
    <2>2. socket'[n][p] = Listener(Download)
      BY <1>0, <1>10, Constants DEF SendGetValue, TypeOK
    <2>3. c \in Commands /\ P \in SUBSET (Nodes \X Ports)
      BY <1>0, Types, Constants
    <2>4. d = [c EXCEPT !.stage = "receive", !.ports = P]
      OBVIOUS
    <2> HIDE DEF c, P, d
    <2>5. /\ d \in Commands /\ d.stage = "receive" /\ d.at = c.at /\ d.key = c.key
          /\ d.ports = P /\ d.output = c.output /\ d.storers = c.storers
      BY <2>3, <2>4 DEF Commands, Stages
    <2>6. Alone(n) /\ cmd'[n] = d
      BY <1>0, <2>1, <2>5, Replaced DEF Alone
    <2> QED BY <2>1, <2>2, <2>5, <2>6 DEF Waits, c, P
  <1>11. ASSUME NEW p \in Ports, ReceiveTimesOut(n, p)
         PROVE  Alone(n) /\ Acts(n)
    <2>1. Quiet /\ Fail(n)
      BY <1>11 DEF ReceiveTimesOut, uploads, Quiet
    <2> QED BY <1>0, <2>1, Failed DEF Alone, Stops
  <1>12. ASSUME NEW p \in Ports, NEW b, ReceiveData(n, p, b)
         PROVE  Alone(n) /\ Acts(n)
    <2>1. Quiet
      BY <1>12 DEF ReceiveData, uploads, Quiet
    <2> QED BY <1>12, <2>1, ChunkWritten
  <1> HIDE DEF Acts
  <1> QED BY <1>1, <1>2, <1>3, <1>4, <1>5, <1>6, <1>7, <1>8, <1>9, <1>10, <1>11, <1>12
          DEF CommandStep

LEMMA Effect ==
  ASSUME IInv, Next
  PROVE  \/ Quiet /\ UNCHANGED cmd
         \/ \E n \in Users : Alone(n) /\ Acts(n)
  <1>0. TypeOK
    BY DEF IInv
  <1>1. ASSUME NEW n \in Users, NEW f \in Files, StartUpload(n, f)
        PROVE  Alone(n) /\ Acts(n)
    <2>1. UNCHANGED <<meta, handles>>
      BY <1>1 DEF StartUpload
    <2> QED BY <1>1, <2>1, UploadStarts DEF Alone, Acts, Stops, Begins, Quiet
  <1>2. ASSUME NEW n \in Users, NEW k \in Uploads, StartDownload(n, k)
        PROVE  Alone(n) /\ Acts(n)
    <2>1. Quiet
      BY <1>2 DEF StartDownload, uploads, Quiet
    <2> QED BY <1>2, <2>1, DownloadStarts DEF Alone, Acts, Looks
  <1>3. ASSUME NEW n \in Nodes, NEW p \in Ports, StoreStep(n, p) \/ AcceptTimesOut(n, p)
        PROVE  Quiet /\ UNCHANGED cmd
    BY <1>3 DEF StoreStep, HandleTcpUpload, AcceptTimesOut, uploads, Quiet
  <1>4. ASSUME NEW n \in Nodes, NEW u \in Users, ValueStep(n, u)
        PROVE  Quiet /\ UNCHANGED cmd
    BY <1>4 DEF ValueStep, HandleGetValue, uploads, Quiet
  <1>5. ASSUME NEW r \in asked, LoseGetValue(r)
        PROVE  Quiet /\ UNCHANGED cmd
    BY <1>5 DEF LoseGetValue, uploads, Quiet
  <1>6. ASSUME NEW n \in Nodes, NEW lost, Restart(n, lost)
        PROVE  Quiet /\ (UNCHANGED cmd \/ (n \in Users /\ Fail(n)))
    BY <1>6 DEF Restart, Quiet, Fail
  <1>7. ASSUME NEW n \in Users, Fail(n), Quiet
        PROVE  Alone(n) /\ Acts(n)
    BY <1>0, <1>7, Failed DEF Alone, Acts, Stops
  <1>8. ASSUME NEW n \in Nodes, NEW h, NEW b, Flush(n, h, b)
        PROVE  Quiet /\ UNCHANGED cmd
    BY <1>8 DEF Flush, uploads, Quiet
  <1> QED BY <1>1, <1>2, <1>3, <1>4, <1>5, <1>6, <1>7, <1>8, StepOfCommand DEF Next

\* No command touches what its own node or another one stores.
LEMMA CommandKeepsStores ==
  ASSUME NEW n \in Users, CommandStep(n)
  PROVE  UNCHANGED stores
  BY DEF CommandStep, GetNextChunkEncrypt, ResolveAlphaClosestNodes, GetPortsForNodes,
         StoreChunk, FinishUpload, ReadOwnChunk, FindStorers, FindStorersFails,
         CreateOutput, SendGetValue, ReceiveTimesOut, ReceiveData

------------------------------------------------------------------------------
(* What a step never takes away. *)

\* An upload keeps its file, and a chunk that is kept stays.
LEMMA UploadsGrow ==
  ASSUME IInv, Next
  PROVE  /\ Begun \subseteq Begun' /\ handles \subseteq handles'
         /\ \A k \in Begun : source'[k] = source[k]
         /\ \A k \in handles : meta'[k] = meta[k]
         /\ \A k \in Begun : \A i : Hash(k, i)' = Hash(k, i) /\ Seal(k, i)' = Seal(k, i)
         /\ \A c : Authentic(c) => Authentic(c)'
  <1>0. /\ source \in [Uploads -> {f \in Files : Len(f) <= MaxBlocks} \cup {None}]
        /\ meta \in [Uploads -> Seq(ChunkMetadata)]
    BY DEF IInv, TypeOK
  <1>1. /\ \A k \in Begun : source'[k] = source[k]
        /\ handles \subseteq handles'
        /\ \A k \in handles : meta'[k] = meta[k]
    <2>1. CASE Quiet
      BY <2>1 DEF Quiet
    <2>2. ASSUME NEW n \in Users, Begins(n)
          PROVE  /\ \A k \in Begun : source'[k] = source[k]
                 /\ handles \subseteq handles'
                 /\ \A k \in handles : meta'[k] = meta[k]
      BY <1>0, <2>2 DEF Begins
    <2>3. ASSUME NEW n \in Users, Reads(n)
          PROVE  /\ \A k \in Begun : source'[k] = source[k]
                 /\ handles \subseteq handles'
                 /\ \A k \in handles : meta'[k] = meta[k]
      <3>1. cmd[n].key \notin handles
        BY <2>3, UploadFacts DEF Reads, IsUploading
      <3> QED BY <1>0, <2>3, <3>1 DEF Reads
    <2>4. ASSUME NEW n \in Users, Finishes(n)
          PROVE  /\ \A k \in Begun : source'[k] = source[k]
                 /\ handles \subseteq handles'
                 /\ \A k \in handles : meta'[k] = meta[k]
      BY <2>4 DEF Finishes
    <2> QED BY <2>1, <2>2, <2>3, <2>4, Effect
            DEF Acts, Stops, Moves, Looks, Finds, Writes, Waits
  <1>2. Begun \subseteq Begun'
    BY <1>1 DEF Begun
  <1>3. ASSUME NEW k \in Begun, NEW i
        PROVE  Hash(k, i)' = Hash(k, i) /\ Seal(k, i)' = Seal(k, i)
    BY <1>1 DEF Hash, Seal
  <1>4. ASSUME NEW c, Authentic(c)
        PROVE  Authentic(c)'
    BY <1>1, <1>2, <1>4 DEF Authentic
  <1> QED BY <1>1, <1>2, <1>3, <1>4

\* Of chunk h at node n a part is lost: by a fault that ends the write of its file.
Shortened(n, h) ==
    /\ faults' = faults + 1
    /\ h \in pending[n] /\ h \notin pending'[n]
    /\ kept'[n][h] = Cut(kept[n][h])

\* What kept may become: typed, authentic, and where there was something unchanged or
\* shortened.
Grows ==
    /\ kept' \in [Nodes -> [Hashes -> Contents \cup {None}]]
    /\ \A n \in Nodes, h \in Hashes :
         /\ kept[n][h] # None => kept'[n][h] = kept[n][h] \/ Shortened(n, h)
         /\ kept'[n][h] # None => Authentic(kept'[n][h])

\* Only handle_tcp_upload writes a chunk, where there was none.
LEMMA KeptByUpload ==
  ASSUME IInv, NEW n \in Nodes, NEW p \in Ports, NEW b, HandleTcpUpload(n, p, b)
  PROVE  Grows
  <1> USE Constants
  <1>0. /\ kept \in [Nodes -> [Hashes -> Contents \cup {None}]]
        /\ \A m \in Nodes, g \in Hashes : kept[m][g] # None => Authentic(kept[m][g])
    BY DEF IInv, TypeOK, ContentsAuthentic
  <1> DEFINE s == socket[n][p]
  <1>1. s # None /\ s.use # Download /\ s.data # None
    BY DEF HandleTcpUpload
  <1>2. s \in Listeners
    BY <1>1, Types DEF IInv
  <1>3. s.use \in Hashes /\ s.data \in Contents
    BY <1>1, <1>2 DEF Listeners
  <1>4. Authentic(s.data)
    BY <1>1 DEF IInv, ContentsAuthentic
  <1>5. \/ UNCHANGED kept
        \/ /\ Store(n)!MayPut(kept[n], offered[n], s.use)
           /\ kept' = [kept EXCEPT ![n][s.use] = s.data]
    BY DEF HandleTcpUpload
  <1>6. Store(n)!MayPut(kept[n], offered[n], s.use) => kept[n][s.use] = None
    BY <1>3, MayPutMeans
  <1> HIDE DEF s
  <1>7. CASE UNCHANGED kept
    BY <1>0, <1>7 DEF Grows
  <1>8. CASE kept[n][s.use] = None /\ kept' = [kept EXCEPT ![n][s.use] = s.data]
    <2>1. \A m \in Nodes, g \in Hashes :
            kept'[m][g] = IF m = n /\ g = s.use THEN s.data ELSE kept[m][g]
      BY <1>0, <1>3, <1>8
    <2>2. kept' \in [Nodes -> [Hashes -> Contents \cup {None}]]
      BY <1>0, <1>3, <1>8
    <2> QED BY <1>0, <1>4, <1>8, <2>1, <2>2 DEF Grows
  <1> QED BY <1>5, <1>6, <1>7, <1>8

\* Where kept is cut short at one node.
LEMMA KeptCutShort ==
  ASSUME IInv, NEW n \in Nodes, NEW S \in SUBSET pending[n], faults' = faults + 1,
         \A h \in S : h \notin pending'[n],
         kept' = [kept EXCEPT ![n] =
                    [h \in Hashes |-> IF h \in S THEN Cut(kept[n][h]) ELSE kept[n][h]]]
  PROVE  Grows
  <1> USE Constants
  <1>0. /\ kept \in [Nodes -> [Hashes -> Contents \cup {None}]]
        /\ \A m \in Nodes, g \in Hashes : kept[m][g] # None => Authentic(kept[m][g])
        /\ \A h \in S : h \in Hashes /\ kept[n][h] # None
    BY DEF IInv, TypeOK, ContentsAuthentic, PendingKept
  <1>1. \A h \in S : Cut(kept[n][h]) \in Contents /\ Authentic(Cut(kept[n][h]))
    BY <1>0, ChunkIsRead
  <1>2. \A m \in Nodes, g \in Hashes :
          kept'[m][g] = IF m = n /\ g \in S THEN Cut(kept[m][g]) ELSE kept[m][g]
    BY <1>0
  <1>3. kept' \in [Nodes -> [Hashes -> Contents \cup {None}]]
    BY <1>0, <1>1
  <1>4. ASSUME NEW m \in Nodes, NEW g \in Hashes
        PROVE  /\ kept[m][g] # None => kept'[m][g] = kept[m][g] \/ Shortened(m, g)
               /\ kept'[m][g] # None => Authentic(kept'[m][g])
    <2>1. CASE m = n /\ g \in S
      BY <1>1, <1>2, <2>1 DEF Shortened
    <2>2. CASE ~(m = n /\ g \in S)
      BY <1>0, <1>2, <2>2
    <2> QED BY <2>1, <2>2
  <1> QED BY <1>3, <1>4 DEF Grows

LEMMA KeptByFlush ==
  ASSUME IInv, NEW n \in Nodes, NEW h \in pending[n], NEW b \in BOOLEAN, Flush(n, h, b)
  PROVE  Grows
  <1> USE Constants
  <1>0. /\ kept \in [Nodes -> [Hashes -> Contents \cup {None}]]
        /\ pending \in [Nodes -> SUBSET Hashes]
        /\ \A m \in Nodes, g \in Hashes : kept[m][g] # None => Authentic(kept[m][g])
    BY DEF IInv, TypeOK, ContentsAuthentic
  <1>1. CASE ~b
    BY <1>0, <1>1 DEF Flush, Grows
  <1>2. CASE b
    <2>1. faults' = faults + 1 /\ kept' = [kept EXCEPT ![n][h] = Cut(kept[n][h])]
      BY <1>0, <1>2 DEF Flush, Fault
    <2>2. h \notin pending'[n]
      BY <1>0 DEF Flush
    <2>3. h \in Hashes
      BY <1>0
    <2> DEFINE S == {h}
    <2>4. S \in SUBSET pending[n] /\ \A g \in S : g \notin pending'[n]
      BY <2>2
    <2>5. kept' = [kept EXCEPT ![n] = [g \in Hashes |->
                     IF g \in S THEN Cut(kept[n][g]) ELSE kept[n][g]]]
      BY <1>0, <2>1, <2>3
    <2> HIDE DEF S
    <2> QED BY <2>1, <2>4, <2>5, KeptCutShort
  <1> QED BY <1>1, <1>2

LEMMA KeptByRestart ==
  ASSUME IInv, NEW n \in Nodes, NEW lost \in SUBSET pending[n], Restart(n, lost)
  PROVE  Grows
  <1>1. /\ kept \in [Nodes -> [Hashes -> Contents \cup {None}]]
        /\ pending \in [Nodes -> SUBSET Hashes]
    BY DEF IInv, TypeOK
  <1>2. faults' = faults + 1
    BY DEF Restart, Fault
  <1>3. \A h \in lost : h \notin pending'[n]
    BY <1>1 DEF Restart
  <1>4. kept' = [kept EXCEPT ![n] =
                   [h \in Hashes |-> IF h \in lost THEN Cut(kept[n][h]) ELSE kept[n][h]]]
    BY <1>1 DEF Restart
  <1> QED BY <1>2, <1>3, <1>4, KeptCutShort

\* The steps that change what is stored.
LEMMA StoresStay ==
  ASSUME Next
  PROVE  \/ UNCHANGED <<kept, offered, pending>>
         \/ \E n \in Nodes, p \in Ports, b \in BOOLEAN : HandleTcpUpload(n, p, b)
         \/ \E n \in Nodes : \E h \in pending[n], b \in BOOLEAN : Flush(n, h, b)
         \/ \E n \in Nodes : \E lost \in SUBSET pending[n] : Restart(n, lost)
  <1>1. ASSUME NEW n \in Users, NEW f \in Files, StartUpload(n, f)
        PROVE  UNCHANGED <<kept, offered, pending>>
    BY <1>1 DEF StartUpload, stores
  <1>2. ASSUME NEW n \in Users, NEW k \in Uploads, StartDownload(n, k)
        PROVE  UNCHANGED <<kept, offered, pending>>
    BY <1>2 DEF StartDownload, stores
  <1>3. ASSUME NEW n \in Users, CommandStep(n)
        PROVE  UNCHANGED <<kept, offered, pending>>
    BY <1>3, CommandKeepsStores DEF stores
  <1>4. ASSUME NEW n \in Nodes, NEW p \in Ports, AcceptTimesOut(n, p)
        PROVE  UNCHANGED <<kept, offered, pending>>
    BY <1>4 DEF AcceptTimesOut
  <1>5. ASSUME NEW n \in Nodes, NEW u \in Users, ValueStep(n, u)
        PROVE  UNCHANGED <<kept, offered, pending>>
    BY <1>5 DEF ValueStep, HandleGetValue, stores
  <1>6. ASSUME NEW r \in asked, LoseGetValue(r)
        PROVE  UNCHANGED <<kept, offered, pending>>
    BY <1>6 DEF LoseGetValue, stores
  <1> QED BY <1>1, <1>2, <1>3, <1>4, <1>5, <1>6 DEF Next, StoreStep

\* A chunk that is kept stays, or is cut short by a fault; without a fault it stays.
LEMMA KeptGrows ==
  ASSUME IInv, Next
  PROVE  /\ Grows
         /\ \A n \in Nodes, h \in Hashes : kept[n][h] # None => kept'[n][h] # None
         /\ faults' = 0 =>
              \A n \in Nodes, h \in Hashes : kept[n][h] # None => kept'[n][h] = kept[n][h]
  <1> USE Constants
  <1>1. Grows
    <2>1. CASE UNCHANGED <<kept, offered, pending>>
      BY <2>1 DEF IInv, TypeOK, ContentsAuthentic, Grows
    <2> QED BY <2>1, StoresStay, KeptByUpload, KeptByFlush, KeptByRestart
  <1>2. ASSUME NEW n \in Nodes, NEW h \in Hashes, kept[n][h] # None
        PROVE  kept'[n][h] # None
    <2>1. Cut(kept[n][h]) \in Contents
      BY <1>2, ChunkIsRead
    <2> QED BY <1>1, <1>2, <2>1 DEF Grows, Shortened
  <1>3. ASSUME faults' = 0, NEW n \in Nodes, NEW h \in Hashes, kept[n][h] # None
        PROVE  kept'[n][h] = kept[n][h]
    <2>1. faults \in Nat
      BY DEF IInv, TypeOK
    <2>2. ~ Shortened(n, h)
      BY <1>3, <2>1 DEF Shortened
    <2> QED BY <1>1, <1>3, <2>2 DEF Grows
  <1> QED BY <1>1, <1>2, <1>3

------------------------------------------------------------------------------
(* The parts of the invariant, one after the other. *)

LEMMA NextKeys ==
  ASSUME IInv, Next
  PROVE  KeysInOrder'
  <1> USE Constants
  <1>1. CASE UNCHANGED source
    BY <1>1 DEF IInv, KeysInOrder, Begun
  <1>2. ASSUME NEW n \in Users, Begins(n)
        PROVE  KeysInOrder'
    <2>1. PICK k \in Uploads \ Begun, f \in Files :
            source' = [source EXCEPT ![k] = f] /\ Begun \cup {k} = 1 .. k
      BY <1>2 DEF Begins
    <2>2. \A j \in Uploads : source'[j] = IF j = k THEN f ELSE source[j]
      BY <2>1 DEF IInv, TypeOK
    <2>3. Begun' = Begun \cup {k}
      BY <2>1, <2>2 DEF Begun
    <2>4. k \in 0 .. MaxUploads
      BY DEF Uploads
    <2> QED BY <2>1, <2>3, <2>4 DEF KeysInOrder
  <1> QED BY <1>1, <1>2, Effect
          DEF Acts, Quiet, Stops, Reads, Moves, Finishes, Looks, Finds, Writes, Waits

LEMMA NextMetadata ==
  ASSUME IInv, Next
  PROVE  MetadataTrue'
  <1> USE Constants
  <1>0. /\ TypeOK /\ MetadataTrue
        /\ source \in [Uploads -> {f \in Files : Len(f) <= MaxBlocks} \cup {None}]
        /\ meta \in [Uploads -> Seq(ChunkMetadata)]
        /\ handles \subseteq Uploads
    BY DEF IInv, TypeOK
  <1>1. CASE Quiet
    BY <1>0, <1>1 DEF Quiet, MetadataTrue, Begun, Hash
  <1>2. ASSUME NEW n \in Users, Begins(n)
        PROVE  MetadataTrue'
    <2>1. PICK k \in Uploads \ Begun, f \in Files :
            source' = [source EXCEPT ![k] = f] /\ UNCHANGED <<meta, handles>>
      BY <1>2 DEF Begins
    <2>2. \A j \in Uploads : source'[j] = IF j = k THEN f ELSE source[j]
      BY <1>0, <2>1
    <2>3. Begun' = Begun \cup {k}
      BY <2>1, <2>2 DEF Begun
    <2>4. meta[k] = <<>> /\ Len(f) \in Nat
      BY <1>0 DEF MetadataTrue
    <2>5. \A j \in Begun : \A i : Hash(j, i)' = Hash(j, i)
      BY UploadsGrow
    <2>6. /\ \A j \in Uploads \ Begun' : meta'[j] = <<>>
          /\ \A j \in Begun' : Len(meta'[j]) <= Len(source'[j])
      BY <1>0, <2>1, <2>2, <2>3, <2>4 DEF MetadataTrue, Begun
    <2>7. \A j \in Begun' : \A i \in DOMAIN meta'[j] :
            meta'[j][i] = [hash |-> Hash(j, i)', nonce |-> i]
      BY <1>0, <2>1, <2>3, <2>4, <2>5 DEF MetadataTrue
    <2>8. \A j \in handles' : j \in Begun' /\ Len(meta'[j]) = Len(source'[j])
      BY <1>0, <2>1, <2>2, <2>3 DEF MetadataTrue
    <2> QED BY <2>6, <2>7, <2>8 DEF MetadataTrue
  <1>3. ASSUME NEW n \in Users, Reads(n)
        PROVE  MetadataTrue'
    <2> DEFINE k == cmd[n].key
               i == cmd[n].at + 1
               m == [hash |-> Hash(k, i), nonce |-> i]
    <2>1. /\ i \in DOMAIN source[k]
          /\ meta' = [meta EXCEPT ![k] = Append(@, m)]
          /\ UNCHANGED <<source, handles>>
      BY <1>3 DEF Reads
    <2>2. k \in Begun /\ k \notin handles /\ cmd[n].at = Len(meta[k])
      BY <1>3, UploadFacts DEF Reads, IsUploading
    <2>3. /\ k \in Uploads /\ DOMAIN source[k] = 1 .. Len(source[k])
          /\ Len(source[k]) \in Nat
      BY <1>0, <2>2, SourceFacts
    <2> HIDE DEF k, m
    <2>4. /\ \A j \in Uploads : meta'[j] = IF j = k THEN Append(meta[k], m) ELSE meta[j]
          /\ meta[k] \in Seq(ChunkMetadata) /\ Len(meta[k]) \in Nat
      BY <1>0, <2>1, <2>3
    <2>5. Begun' = Begun /\ Begun \subseteq Uploads
      BY <2>1 DEF Begun
    <2>6. \A x \in Uploads : \A j : Hash(x, j)' = Hash(x, j)
      BY <2>1 DEF Hash
    <2>7. Len(Append(meta[k], m)) = i /\ i <= Len(source[k])
      BY <2>1, <2>2, <2>3, <2>4
    <2>8. ASSUME NEW j \in DOMAIN Append(meta[k], m)
          PROVE  Append(meta[k], m)[j] = [hash |-> Hash(k, j), nonce |-> j]
      <3>1. CASE j \in DOMAIN meta[k]
        <4>1. Append(meta[k], m)[j] = meta[k][j]
          BY <2>4, <3>1
        <4> QED BY <1>0, <2>2, <3>1, <4>1 DEF MetadataTrue
      <3>2. CASE j \notin DOMAIN meta[k]
        <4>1. j = i /\ Append(meta[k], m)[j] = m
          BY <2>2, <2>4, <2>7, <3>2
        <4> QED BY <4>1 DEF m
      <3> QED BY <3>1, <3>2
    <2>9. /\ \A j \in Uploads \ Begun' : meta'[j] = <<>>
          /\ \A j \in Begun' : Len(meta'[j]) <= Len(source'[j])
      <3> HIDE DEF i
      <3> QED BY <1>0, <2>1, <2>2, <2>4, <2>5, <2>7 DEF MetadataTrue
    <2>10. \A x \in Begun' : \A j \in DOMAIN meta'[x] :
             meta'[x][j] = [hash |-> Hash(x, j)', nonce |-> j]
      <3> HIDE DEF i
      <3> TAKE x \in Begun'
      <3> TAKE j \in DOMAIN meta'[x]
      <3>1. x \in Begun /\ x \in Uploads /\ Hash(x, j)' = Hash(x, j)
        BY <2>5, <2>6
      <3>2. CASE x = k
        <4>1. j \in DOMAIN Append(meta[k], m) /\ meta'[x][j] = Append(meta[k], m)[j]
          BY <2>4, <3>1, <3>2
        <4> QED BY <2>8, <3>1, <3>2, <4>1
      <3>3. CASE x # k
        <4>1. meta'[x] = meta[x]
          BY <2>4, <3>1, <3>3
        <4>2. meta[x][j] = [hash |-> Hash(x, j), nonce |-> j]
          BY <1>0, <3>1, <4>1 DEF MetadataTrue
        <4> QED BY <3>1, <4>1, <4>2
      <3> QED BY <3>2, <3>3
    <2>11. \A j \in handles' : j \in Begun' /\ Len(meta'[j]) = Len(source'[j])
      BY <1>0, <2>1, <2>2, <2>4, <2>5 DEF MetadataTrue
    <2> QED BY <2>9, <2>10, <2>11 DEF MetadataTrue
  <1>4. ASSUME NEW n \in Users, Finishes(n)
        PROVE  MetadataTrue'
    <2>1. /\ cmd[n].key \in Begun
          /\ Len(meta[cmd[n].key]) = Len(source[cmd[n].key])
      BY <1>4, UploadFacts DEF Finishes, IsUploading
    <2>2. /\ handles' = handles \cup {cmd[n].key} /\ source' = source /\ meta' = meta
      BY <1>4 DEF Finishes
    <2>3. Begun' = Begun /\ \A x, j : Hash(x, j)' = Hash(x, j)
      BY <2>2 DEF Begun, Hash
    <2> QED BY <1>0, <2>1, <2>2, <2>3 DEF MetadataTrue
  <1> QED BY <1>1, <1>2, <1>3, <1>4, Effect
          DEF Acts, Stops, Moves, Looks, Finds, Writes, Waits

LEMMA NextApart ==
  ASSUME IInv, Next
  PROVE  UploadersApart'
  <1> USE Constants
  <1>0. /\ TypeOK /\ UploadersApart /\ MetadataTrue
        /\ meta \in [Uploads -> Seq(ChunkMetadata)]
    BY DEF IInv, TypeOK
  <1>1. CASE Quiet /\ UNCHANGED cmd
    BY <1>0, <1>1 DEF Quiet, UploadersApart, IsUploading, Begun
  <1>2. ASSUME NEW n \in Users, Alone(n), Acts(n)
        PROVE  UploadersApart'
    <2>0. \A u \in Users \ {n} : cmd'[u] = cmd[u] /\ (IsUploading(u)' <=> IsUploading(u))
      BY <1>2 DEF Alone, IsUploading
    <2>1. CASE /\ Quiet
               /\ IsUploading(n)' => /\ IsUploading(n) /\ cmd[n].stage # "read"
                                     /\ cmd'[n].key = cmd[n].key /\ cmd'[n].at = cmd[n].at
      <3>1. Begun' = Begun /\ handles' = handles /\ meta' = meta
        BY <2>1 DEF Quiet, Begun
      <3> QED BY <1>0, <2>0, <2>1, <3>1 DEF UploadersApart
    <2>2. CASE Begins(n)
      <3>1. PICK k \in Uploads \ Begun :
              /\ cmd'[n] = Command("read", k) /\ UNCHANGED <<meta, handles>> /\ k \in Begun'
        <4>1. PICK k \in Uploads \ Begun, f \in Files :
                /\ cmd'[n] = Command("read", k) /\ source' = [source EXCEPT ![k] = f]
                /\ UNCHANGED <<meta, handles>>
          BY <2>2 DEF Begins
        <4>2. source'[k] = f
          BY <1>0, <4>1 DEF TypeOK
        <4> QED BY <4>1, <4>2 DEF Begun
      <3>2. cmd'[n].stage = "read" /\ cmd'[n].key = k /\ cmd'[n].at = 0
        BY <3>1, NewCommand DEF Stages
      <3>3. k \notin handles /\ Len(meta[k]) = 0
        BY <1>0 DEF MetadataTrue
      <3>4. Begun \subseteq Begun'
        BY UploadsGrow
      <3>5. \A u \in Users \ {n} : IsUploading(u) => cmd[u].key # k
        BY <1>0 DEF UploadersApart
      <3> QED BY <1>0, <2>0, <3>1, <3>2, <3>3, <3>4, <3>5 DEF UploadersApart
    <2>3. CASE Reads(n)
      <3> DEFINE k == cmd[n].key
                 m == [hash |-> Hash(k, cmd[n].at + 1), nonce |-> cmd[n].at + 1]
      <3>1. /\ IsUploading(n) /\ cmd'[n].key = k /\ cmd'[n].at = cmd[n].at + 1
            /\ meta' = [meta EXCEPT ![k] = Append(@, m)]
            /\ UNCHANGED <<source, handles>>
        BY <2>3 DEF Reads, IsUploading
      <3>2. k \in Begun /\ k \in Uploads /\ cmd[n].at = Len(meta[k]) /\ cmd[n].at \in Nat
        BY <1>0, <3>1, UploadFacts, Types DEF Begun
      <3> HIDE DEF m
      <3>3. /\ \A j \in Uploads : j # k => meta'[j] = meta[j]
            /\ meta'[k] = Append(meta[k], m) /\ Len(meta'[k]) = cmd[n].at + 1
        BY <1>0, <3>1, <3>2
      <3>4. Begun' = Begun /\ Begun \subseteq Uploads
        BY <3>1 DEF Begun
      <3>5. cmd'[n].at # 0
        BY <3>1, <3>2
      <3>6. \A u \in Users \ {n} : IsUploading(u) => /\ cmd[u].key # k
                                                     /\ cmd[u].key \in Uploads
        BY <1>0, <3>1, <3>4 DEF UploadersApart
      <3>7. ASSUME NEW u \in Users \ {n}, IsUploading(u)'
            PROVE  /\ cmd'[u].key \in Begun' \ handles'
                   /\ cmd'[u].at = Len(meta'[cmd'[u].key])
                   /\ cmd'[u].stage # "read" => cmd'[u].at # 0
                   /\ cmd'[u].key # cmd'[n].key
                   /\ \A v \in Users \ {u, n} : IsUploading(v)' => cmd'[v].key # cmd'[u].key
        BY SMTT(30), <1>0, <2>0, <3>1, <3>3, <3>4, <3>6, <3>7 DEF UploadersApart
      <3>8. k \in Begun' \ handles'
        BY <1>0, <3>1, <3>4 DEF UploadersApart
      <3>9. ASSUME NEW u \in Users, IsUploading(u)'
            PROVE  /\ cmd'[u].key \in Begun' \ handles'
                   /\ cmd'[u].at = Len(meta'[cmd'[u].key])
                   /\ cmd'[u].stage # "read" => cmd'[u].at # 0
                   /\ \A v \in Users \ {u} : IsUploading(v)' => cmd'[v].key # cmd'[u].key
        <4>1. CASE u = n
          BY <3>1, <3>3, <3>5, <3>7, <3>8, <4>1
        <4>2. CASE u # n
          BY <3>7, <3>9, <4>2
        <4> QED BY <4>1, <4>2
      <3> QED BY <3>9 DEF UploadersApart
    <2>4. CASE Finishes(n)
      <3>1. /\ cmd'[n] = Idle /\ handles' = handles \cup {cmd[n].key} /\ IsUploading(n)
            /\ UNCHANGED <<source, meta>>
        BY <2>4 DEF Finishes, IsUploading
      <3>2. ~IsUploading(n)'
        BY <3>1, IdleCommand DEF IsUploading
      <3>3. Begun' = Begun
        BY <3>1 DEF Begun
      <3> QED BY <1>0, <2>0, <3>1, <3>2, <3>3 DEF UploadersApart
    <2>5. CASE Stops(n)
      BY <2>1, <2>5, IdleCommand DEF Stops, IsUploading
    <2>6. CASE Moves(n)
      BY <2>1, <2>6 DEF Moves, IsUploading
    <2>7. CASE Looks(n)
      <3>1. PICK k \in handles : cmd'[n] = Command("find", k)
        BY <2>7 DEF Looks
      <3>2. cmd'[n].stage = "find"
        BY <1>0, <3>1, NewCommand DEF Stages, TypeOK
      <3> QED BY <2>1, <2>7, <3>2 DEF Looks, IsUploading
    <2>8. CASE Finds(n) \/ Writes(n) \/ Waits(n)
      BY <2>1, <2>8 DEF Finds, Writes, Waits, IsUploading
    <2> QED BY <1>2, <2>2, <2>3, <2>4, <2>5, <2>6, <2>7, <2>8 DEF Acts
  <1> QED BY <1>1, <1>2, Effect

------------------------------------------------------------------------------
(* What a step may do to a listener. *)

OpensUp(n, p) ==
    /\ socket[n][p] = None
    /\ \E h \in Hashes \cup {Download} : socket'[n][p] = Listener(h)

Fills(n, p) ==
    /\ socket[n][p] # None /\ socket[n][p].data = None
    /\ \E c \in Contents : /\ Authentic(c)
                           /\ socket'[n][p] = [use |-> socket[n][p].use, data |-> c]

Listens(n, p) == \/ socket'[n][p] = socket[n][p] \/ socket'[n][p] = None
                 \/ OpensUp(n, p) \/ Fills(n, p)

Waiting(n, p) == cmd[n].stage = "receive" /\ <<n, p>> \in cmd[n].ports

SocketsMove ==
    /\ socket' \in [Nodes -> [Ports -> Listeners \cup {None}]]
    /\ \A n \in Nodes, p \in Ports : Listens(n, p)
    /\ \A n \in Users, p \in Ports :
         Waiting(n, p) /\ cmd'[n] = cmd[n] =>
            socket'[n][p] # None /\ socket'[n][p].use = Download

\* A waiting download has a listener of its own.
LEMMA WaitingListens ==
  ASSUME IInv, NEW n \in Users, NEW p \in Ports, Waiting(n, p)
  PROVE  socket[n][p] # None /\ socket[n][p].use = Download
  BY ReceivedChunk DEF Waiting

LEMMA SocketsUnchanged ==
  ASSUME IInv, UNCHANGED socket
  PROVE  SocketsMove
  BY WaitingListens DEF SocketsMove, Listens, IInv, TypeOK

LEMMA ListenerCloses ==
  ASSUME IInv, NEW n \in Nodes, NEW p \in Ports, Close(n, p),
         \/ socket[n][p].use # Download
         \/ n \in Users /\ cmd'[n].stage # "receive"
  PROVE  SocketsMove
  <1> USE Constants
  <1>1. /\ socket' \in [Nodes -> [Ports -> Listeners \cup {None}]]
        /\ socket'[n][p] = None
        /\ \A m \in Nodes, q \in Ports : <<m, q>> # <<n, p>> => socket'[m][q] = socket[m][q]
    BY Closed DEF IInv
  <1>2. \A m \in Nodes, q \in Ports : Listens(m, q)
    BY <1>1 DEF Listens
  <1>3. ASSUME NEW u \in Users, NEW q \in Ports, Waiting(u, q), cmd'[u] = cmd[u]
        PROVE  socket'[u][q] # None /\ socket'[u][q].use = Download
    <2>1. socket[u][q] # None /\ socket[u][q].use = Download
      BY <1>3, WaitingListens
    <2>2. <<u, q>> # <<n, p>>
      BY <1>3, <2>1 DEF Waiting
    <2> QED BY <1>1, <2>1, <2>2
  <1> QED BY <1>1, <1>2, <1>3 DEF SocketsMove

LEMMA ListenersFill ==
  ASSUME IInv, NEW f, \A a \in DOMAIN f : f[a] \in Contents /\ Authentic(f[a]), Connect(f)
  PROVE  SocketsMove
  <1> USE Constants
  <1>1. /\ socket' \in [Nodes -> [Ports -> Listeners \cup {None}]]
        /\ \A n \in Nodes, p \in Ports :
              /\ socket[n][p] = None => socket'[n][p] = None
              /\ socket[n][p] # None =>
                   /\ socket'[n][p] # None
                   /\ socket'[n][p].use = socket[n][p].use
              /\ <<n, p>> \notin DOMAIN f => socket'[n][p] = socket[n][p]
              /\ socket[n][p] # None /\ socket[n][p].data # None =>
                   socket'[n][p] = socket[n][p]
              /\ socket[n][p] # None /\ socket[n][p].data = None /\ <<n, p>> \in DOMAIN f =>
                   socket'[n][p] = [use |-> socket[n][p].use, data |-> f[<<n, p>>]]
    BY Connected DEF IInv
  <1>2. ASSUME NEW n \in Nodes, NEW p \in Ports PROVE Listens(n, p)
    <2>1. CASE socket[n][p] = None \/ <<n, p>> \notin DOMAIN f \/ socket[n][p].data # None
      BY <1>1, <2>1 DEF Listens
    <2>2. CASE socket[n][p] # None /\ <<n, p>> \in DOMAIN f /\ socket[n][p].data = None
      <3>1. Fills(n, p)
        BY <1>1, <2>2 DEF Fills
      <3> QED BY <3>1 DEF Listens
    <2> QED BY <2>1, <2>2
  <1>3. \A n \in Users, p \in Ports :
         Waiting(n, p) => socket'[n][p] # None /\ socket'[n][p].use = Download
    BY ZenonT(30), <1>1, WaitingListens
  <1> QED BY <1>1, <1>2, <1>3 DEF SocketsMove

\* A command opens, fills or closes listeners.
LEMMA CommandListens ==
  ASSUME IInv, NEW n \in Users, CommandStep(n)
  PROVE  SocketsMove
  <1> USE Constants
  <1>0. TypeOK
    BY DEF IInv
  <1>1. CASE UNCHANGED socket
    BY <1>1, SocketsUnchanged
  <1>2. ASSUME NEW reached \in SUBSET cmd[n].nodes, NEW answered,
               NEW p \in [reached -> Ports], GetPortsForNodes(n, reached, answered, p)
        PROVE  SocketsMove
    <2>1. /\ Hash(cmd[n].key, cmd[n].at) \in Hashes
          /\ socket' \in [Nodes -> [Ports -> Listeners \cup {None}]]
          /\ \A m \in Nodes, q \in Ports :
               \/ socket'[m][q] = socket[m][q]
               \/ /\ socket[m][q] = None
                  /\ socket'[m][q] = Listener(Hash(cmd[n].key, cmd[n].at))
      BY <1>2, PortsOpened
    <2>2. \A m \in Nodes, q \in Ports : Listens(m, q)
      BY <2>1 DEF Listens, OpensUp
    <2>3. \A m \in Nodes, q \in Ports : socket[m][q] # None => socket'[m][q] = socket[m][q]
      BY <2>1
    <2>4. \A u \in Users, q \in Ports :
            Waiting(u, q) => socket'[u][q] # None /\ socket'[u][q].use = Download
      BY <2>3, WaitingListens
    <2> QED BY <2>1, <2>2, <2>4 DEF SocketsMove
  <1>3. ASSUME NEW sent, NEW cut, StoreChunk(n, sent, cut)
        PROVE  SocketsMove
    <2>1. \E f : Connect(f) /\ \A a \in DOMAIN f : f[a] \in Contents /\ Authentic(f[a])
      BY <1>3, ChunkSent
    <2> QED BY <2>1, ListenersFill
  <1>4. ASSUME NEW p \in Ports, SendGetValue(n, p)
        PROVE  SocketsMove
    <2>1. /\ socket[n][p] = None
          /\ socket' = [socket EXCEPT ![n][p] = Listener(Download)]
      BY <1>4 DEF SendGetValue
    <2>2. Listener(Download) \in Listeners
      BY DEF Listener, Listeners
    <2>3. socket' \in [Nodes -> [Ports -> Listeners \cup {None}]]
      BY <1>0, <2>1, <2>2 DEF TypeOK
    <2>4. /\ socket'[n][p] = Listener(Download)
          /\ \A m \in Nodes, q \in Ports : <<m, q>> # <<n, p>> => socket'[m][q] = socket[m][q]
      BY <1>0, <2>1 DEF TypeOK
    <2>5. \A m \in Nodes, q \in Ports : Listens(m, q)
      BY <2>1, <2>4 DEF Listens, OpensUp
    <2>6. \A u \in Users, q \in Ports :
            Waiting(u, q) => socket'[u][q] # None /\ socket'[u][q].use = Download
      <3>1. \A u \in Users, q \in Ports : Waiting(u, q) => <<u, q>> # <<n, p>>
        BY <2>1, WaitingListens
      <3> QED BY <2>4, <3>1, WaitingListens
    <2> QED BY <2>3, <2>5, <2>6 DEF SocketsMove
  <1>5. ASSUME NEW p \in Ports, ReceiveTimesOut(n, p)
        PROVE  SocketsMove
    <2>1. Close(n, p) /\ Fail(n)
      BY <1>5 DEF ReceiveTimesOut
    <2>2. cmd'[n].stage # "receive"
      BY <1>0, <2>1, Failed, IdleCommand
    <2> QED BY <2>1, <2>2, ListenerCloses
  <1>6. ASSUME NEW p \in Ports, NEW b, ReceiveData(n, p, b)
        PROVE  SocketsMove
    <2>1. Close(n, p) /\ Quiet
      BY <1>6 DEF ReceiveData, uploads, Quiet
    <2>2. cmd'[n].stage # "receive"
      BY <1>6, <2>1, ChunkWritten
    <2> QED BY <2>1, <2>2, ListenerCloses
  <1>7. \/ UNCHANGED socket
        \/ \E reached \in SUBSET cmd[n].nodes : \E answered \in SUBSET reached :
             \E p \in [reached -> Ports] : GetPortsForNodes(n, reached, answered, p)
        \/ \E sent \in SUBSET cmd[n].ports : \E cut \in SUBSET (cmd[n].ports \ sent) :
             StoreChunk(n, sent, cut)
        \/ \E p \in Ports : SendGetValue(n, p) \/ ReceiveTimesOut(n, p)
        \/ \E p \in Ports, b \in BOOLEAN : ReceiveData(n, p, b)
    BY DEF CommandStep, GetNextChunkEncrypt, ResolveAlphaClosestNodes, FinishUpload,
           ReadOwnChunk, FindStorers, FindStorersFails, CreateOutput
  <1> QED BY <1>1, <1>2, <1>3, <1>4, <1>5, <1>6, <1>7

LEMMA SocketEffect ==
  ASSUME IInv, Next
  PROVE  SocketsMove
  <1> USE Constants
  <1>1. ASSUME NEW n \in Users, NEW f \in Files, StartUpload(n, f)
        PROVE  SocketsMove
    BY <1>1, SocketsUnchanged DEF StartUpload
  <1>2. ASSUME NEW n \in Users, NEW k \in Uploads, StartDownload(n, k)
        PROVE  SocketsMove
    BY <1>2, SocketsUnchanged DEF StartDownload
  <1>3. ASSUME NEW n \in Nodes, NEW p \in Ports, NEW b, HandleTcpUpload(n, p, b)
        PROVE  SocketsMove
    <2>1. Close(n, p) /\ socket[n][p].use # Download
      BY <1>3 DEF HandleTcpUpload
    <2> QED BY <2>1, ListenerCloses
  <1>4. ASSUME NEW n \in Nodes, NEW p \in Ports, AcceptTimesOut(n, p)
        PROVE  SocketsMove
    <2>1. Close(n, p) /\ socket[n][p].use # Download
      BY <1>4 DEF AcceptTimesOut
    <2> QED BY <2>1, ListenerCloses
  <1>5. ASSUME NEW r \in asked, NEW again, NEW broken, HandleGetValue(r, again, broken)
        PROVE  SocketsMove
    <2>1. CASE kept[r.to][r.hash] = None
      BY <1>5, <2>1, SocketsUnchanged DEF HandleGetValue
    <2>2. CASE kept[r.to][r.hash] # None
      <3>1. \E f : Connect(f) /\ \A a \in DOMAIN f : f[a] \in Contents /\ Authentic(f[a])
        BY <1>5, <2>2, ValueSent
      <3> QED BY <3>1, ListenersFill
    <2> QED BY <2>1, <2>2
  <1>6. ASSUME NEW r \in asked, LoseGetValue(r)
        PROVE  SocketsMove
    BY <1>6, SocketsUnchanged DEF LoseGetValue
  <1>7. ASSUME NEW n \in Nodes, NEW lost, Restart(n, lost)
        PROVE  SocketsMove
    <2>1. /\ socket' = [socket EXCEPT ![n] = [p \in Ports |-> None]]
          /\ n \in Users => cmd' = [cmd EXCEPT ![n] = Idle]
          /\ socket \in [Nodes -> [Ports -> Listeners \cup {None}]]
      BY <1>7 DEF Restart, IInv, TypeOK
    <2>2. socket' \in [Nodes -> [Ports -> Listeners \cup {None}]]
      BY <2>1
    <2>3. /\ \A q \in Ports : socket'[n][q] = None
          /\ \A m \in Nodes \ {n}, q \in Ports : socket'[m][q] = socket[m][q]
      BY <2>1
    <2>4. \A m \in Nodes, q \in Ports : Listens(m, q)
      BY <2>3 DEF Listens
    <2>5. n \in Users => cmd'[n].stage # "receive"
      BY <2>1, IdleCommand DEF IInv, TypeOK
    <2>6. \A u \in Users, q \in Ports : Waiting(u, q) /\ cmd'[u] = cmd[u] =>
             socket'[u][q] # None /\ socket'[u][q].use = Download
      BY <2>3, <2>5, WaitingListens DEF Waiting
    <2> QED BY <2>2, <2>4, <2>6 DEF SocketsMove
  <1>8. ASSUME NEW n \in Nodes, NEW h, NEW b, Flush(n, h, b)
        PROVE  SocketsMove
    BY <1>8, SocketsUnchanged DEF Flush
  <1> QED BY <1>1, <1>2, <1>3, <1>4, <1>5, <1>6, <1>7, <1>8, CommandListens
          DEF Next, StoreStep, ValueStep

LEMMA NextAuthentic ==
  ASSUME IInv, Next
  PROVE  ContentsAuthentic'
  <1> USE Constants
  <1>1. \A n \in Nodes, h \in Hashes : kept'[n][h] # None => Authentic(kept'[n][h])
    BY KeptGrows DEF Grows
  <1>2. ASSUME NEW n \in Nodes, NEW p \in Ports, socket'[n][p] # None,
               socket'[n][p].data # None
        PROVE  Authentic(socket'[n][p].data)
    <2>1. Listens(n, p)
      BY SocketEffect DEF SocketsMove
    <2>2. CASE socket'[n][p] = socket[n][p]
      BY <1>2, <2>2 DEF IInv, ContentsAuthentic
    <2>3. CASE OpensUp(n, p)
      BY <1>2, <2>3 DEF OpensUp, Listener
    <2>4. CASE Fills(n, p)
      BY <2>4 DEF Fills
    <2> QED BY <1>2, <2>1, <2>2, <2>3, <2>4 DEF Listens
  <1>3. ASSUME NEW n \in Nodes, NEW h \in Hashes, kept'[n][h] # None
        PROVE  Authentic(kept[n][h])'
    BY <1>1, <1>3, UploadsGrow DEF Authentic
  <1>4. ASSUME NEW n \in Nodes, NEW p \in Ports, socket'[n][p] # None,
               socket'[n][p].data # None
        PROVE  Authentic(socket[n][p].data)'
    BY <1>2, <1>4, UploadsGrow DEF Authentic
  <1> QED BY <1>3, <1>4 DEF ContentsAuthentic

\* A command that does not download has nothing to be true about.
LEMMA NoDownload ==
  ASSUME NEW n \in Users, cmd'[n].output = <<>>,
         cmd'[n].stage \notin {"find", "fetch", "receive", "downloaded"}
  PROVE  DownloadTrue(n)'
  BY DEF DownloadTrue

\* The parts of DownloadTrue, in the next state.
LEMMA DownloadTrueNext ==
  ASSUME NEW n \in Users,
         cmd'[n].key \in handles',
         cmd'[n].stage \in {"find", "fetch", "receive", "downloaded"},
         cmd'[n].stage = "find" => cmd'[n].output = <<>>,
         \A i \in DOMAIN cmd'[n].output :
            i \in DOMAIN source'[cmd'[n].key] /\ cmd'[n].output[i] = source'[cmd'[n].key][i],
         cmd'[n].stage = "downloaded" => Len(cmd'[n].output) = Len(source'[cmd'[n].key]),
         cmd'[n].stage \in {"fetch", "receive"} =>
            /\ cmd'[n].at = Len(cmd'[n].output)
            /\ cmd'[n].at < Len(meta'[cmd'[n].key])
            /\ Len(meta'[cmd'[n].key]) <= Len(cmd'[n].storers),
         cmd'[n].stage # "downloaded" =>
            \A i \in DOMAIN cmd'[n].storers \cap DOMAIN meta'[cmd'[n].key] :
               cmd'[n].storers[i] = n => kept'[n][meta'[cmd'[n].key][i].hash] # None,
         cmd'[n].stage = "receive" =>
            \E p \in Ports : /\ cmd'[n].ports = {<<n, p>>}
                             /\ socket'[n][p] # None /\ socket'[n][p].use = Download
  PROVE  DownloadTrue(n)'
  BY DEF DownloadTrue

\* What a download rests on stays while its command does.
LEMMA DownloadRests ==
  ASSUME IInv, Next, NEW n \in Users,
         cmd[n].stage \in {"find", "fetch", "receive", "downloaded"}
  PROVE  /\ cmd[n].key \in handles /\ cmd[n].key \in handles'
         /\ source'[cmd[n].key] = source[cmd[n].key]
         /\ meta'[cmd[n].key] = meta[cmd[n].key]
         /\ \A i \in DOMAIN meta[cmd[n].key] :
              /\ meta[cmd[n].key][i].hash \in Hashes
              /\ kept[n][meta[cmd[n].key][i].hash] # None =>
                   kept'[n][meta[cmd[n].key][i].hash] # None
  <1> USE Constants
  <1>1. cmd[n].key \in handles /\ cmd[n].key \in Begun
    BY DownloadFacts
  <1>2. \A i \in DOMAIN meta[cmd[n].key] : meta[cmd[n].key][i].hash \in Hashes
    BY DownloadFacts
  <1>3. \A h \in Hashes : kept[n][h] # None => kept'[n][h] # None
    BY KeptGrows
  <1> QED BY <1>1, <1>2, <1>3, UploadsGrow

LEMMA DownloadStays ==
  ASSUME IInv, Next, NEW n \in Users, cmd'[n] = cmd[n]
  PROVE  DownloadTrue(n)'
  <1> USE Constants
  <1>0. DownloadTrue(n)
    BY DEF IInv, DownloadsTrue
  <1>1. CASE cmd[n].stage \notin {"find", "fetch", "receive", "downloaded"}
    <2>1. cmd[n].output = <<>>
      BY <1>0, <1>1 DEF DownloadTrue
    <2> QED BY <1>1, <2>1, NoDownload
  <1>2. CASE cmd[n].stage \in {"find", "fetch", "receive", "downloaded"}
    <2>1. /\ cmd[n].key \in handles' /\ source'[cmd[n].key] = source[cmd[n].key]
          /\ meta'[cmd[n].key] = meta[cmd[n].key]
          /\ \A i \in DOMAIN meta[cmd[n].key] :
               kept[n][meta[cmd[n].key][i].hash] # None =>
                 kept'[n][meta[cmd[n].key][i].hash] # None
      BY <1>2, DownloadRests
    <2>2. cmd[n].stage = "receive" =>
            \E p \in Ports : /\ cmd[n].ports = {<<n, p>>}
                             /\ socket'[n][p] # None /\ socket'[n][p].use = Download
      <3>1. \A p \in Ports : Waiting(n, p) => socket'[n][p] # None /\ socket'[n][p].use = Download
        BY SocketEffect DEF SocketsMove
      <3> QED BY <1>0, <3>1 DEF DownloadTrue, Waiting
    <2>3. /\ cmd[n].stage = "find" => cmd[n].output = <<>>
          /\ \A i \in DOMAIN cmd[n].output :
               i \in DOMAIN source[cmd[n].key] /\ cmd[n].output[i] = source[cmd[n].key][i]
          /\ cmd[n].stage = "downloaded" => Len(cmd[n].output) = Len(source[cmd[n].key])
          /\ cmd[n].stage \in {"fetch", "receive"} =>
               /\ cmd[n].at = Len(cmd[n].output)
               /\ cmd[n].at < Len(meta[cmd[n].key])
               /\ Len(meta[cmd[n].key]) <= Len(cmd[n].storers)
          /\ cmd[n].stage # "downloaded" =>
               \A i \in DOMAIN cmd[n].storers \cap DOMAIN meta[cmd[n].key] :
                 cmd[n].storers[i] = n => kept[n][meta[cmd[n].key][i].hash] # None
      BY <1>0, <1>2 DEF DownloadTrue
    <2> QED BY SMTT(30), <1>2, <2>1, <2>2, <2>3, DownloadTrueNext
  <1> QED BY <1>1, <1>2

LEMMA NextDownloads ==
  ASSUME IInv, Next
  PROVE  DownloadsTrue'
  <1> USE Constants
  <1>1. CASE UNCHANGED cmd
    BY <1>1, DownloadStays DEF DownloadsTrue
  <1>2. ASSUME NEW n \in Users, Alone(n), Acts(n)
        PROVE  DownloadsTrue'
    <2>0. DownloadTrue(n) /\ cmd' \in [Users -> Commands]
      BY <1>2 DEF IInv, DownloadsTrue, Alone
    <2>1. ASSUME Stops(n) \/ Finishes(n)
          PROVE  DownloadTrue(n)'
      BY <2>1, IdleCommand, NoDownload DEF Stops, Finishes
    <2>2. ASSUME Begins(n)
          PROVE  DownloadTrue(n)'
      <3>1. PICK k \in Uploads : cmd'[n] = Command("read", k)
        BY <2>2 DEF Begins
      <3> QED BY <3>1, NewCommand, NoDownload DEF Stages
    <2>3. ASSUME Reads(n) \/ Moves(n)
          PROVE  DownloadTrue(n)'
      <3>1. cmd[n].output = <<>>
        BY <2>0, <2>3 DEF DownloadTrue, Reads, Moves
      <3> QED BY <2>3, <3>1, NoDownload DEF Reads, Moves
    <2>4. ASSUME Looks(n)
          PROVE  DownloadTrue(n)'
      <3>1. PICK k \in handles : cmd'[n] = Command("find", k)
        BY <2>4 DEF Looks
      <3>2. k \in Uploads /\ k \in handles'
        BY UploadsGrow DEF IInv, TypeOK
      <3>3. /\ cmd'[n].stage = "find" /\ cmd'[n].key = k
            /\ cmd'[n].storers = <<>> /\ cmd'[n].output = <<>>
        BY <3>1, <3>2, NewCommand DEF Stages
      <3> QED BY <3>2, <3>3, DownloadTrueNext
    <2>5. ASSUME Finds(n) \/ Writes(n) \/ Waits(n)
          PROVE  DownloadTrue(n)'
      <3> DEFINE k == cmd[n].key
      <3>1. /\ cmd[n].stage \in {"find", "fetch", "receive"} /\ cmd'[n].key = k /\ Quiet
            /\ cmd'[n].stage \in {"find", "fetch", "receive", "downloaded"}
        BY <2>5 DEF Finds, Writes, Waits
      <3>2. /\ k \in handles' /\ source'[k] = source[k] /\ meta'[k] = meta[k]
            /\ Len(meta[k]) = Len(source[k])
            /\ \A i \in DOMAIN meta[k] :
                 kept[n][meta[k][i].hash] # None => kept'[n][meta[k][i].hash] # None
        BY <3>1, DownloadRests, DownloadFacts
      <3>3. \A i \in DOMAIN cmd[n].storers \cap DOMAIN meta[k] :
              cmd[n].storers[i] = n => kept[n][meta[k][i].hash] # None
        BY <2>0, <3>1 DEF DownloadTrue
      <3>4. CASE Finds(n)
        <4>1. /\ cmd'[n].output = <<>> /\ cmd'[n].stage = "find"
          BY <2>0, <3>4 DEF Finds, DownloadTrue
        <4>2. \A i \in DOMAIN cmd'[n].storers \cap DOMAIN meta[k] :
                cmd'[n].storers[i] = n => kept[n][meta[k][i].hash] # None
          BY <3>3, <3>4 DEF Finds, Storers
        <4> HIDE DEF k
        <4> QED BY <3>1, <3>2, <4>1, <4>2, DownloadTrueNext
      <3>5. CASE Writes(n)
        <4>1. /\ \A i \in DOMAIN cmd'[n].output :
                   i \in DOMAIN source[k] /\ cmd'[n].output[i] = source[k][i]
              /\ \/ /\ cmd'[n].stage = "downloaded"
                    /\ Len(cmd'[n].output) = Len(meta[k])
                 \/ /\ cmd'[n].stage = "fetch" /\ cmd'[n].at = Len(cmd'[n].output)
                    /\ cmd'[n].storers = cmd[n].storers
                    /\ Len(cmd'[n].output) < Len(meta[k])
                    /\ Len(meta[k]) <= Len(cmd[n].storers)
          BY <3>5 DEF Writes
        <4> HIDE DEF k
        <4> QED BY <3>1, <3>2, <3>3, <4>1, DownloadTrueNext
      <3>6. CASE Waits(n)
        <4>1. /\ cmd'[n].stage = "receive" /\ cmd'[n].at = cmd[n].at
              /\ cmd'[n].output = cmd[n].output /\ cmd'[n].storers = cmd[n].storers
              /\ \E p \in Ports : /\ cmd'[n].ports = {<<n, p>>}
                                  /\ socket'[n][p] = Listener(Download)
          BY <3>6 DEF Waits
        <4>2. Listener(Download) # None /\ Listener(Download).use = Download
          <5>1. Listener(Download) \in Listeners
            BY DEF Listener, Listeners
          <5> QED BY <5>1 DEF Listener
        <4>3. /\ \A i \in DOMAIN cmd[n].output :
                   i \in DOMAIN source[k] /\ cmd[n].output[i] = source[k][i]
              /\ cmd[n].at = Len(cmd[n].output) /\ cmd[n].at < Len(meta[k])
              /\ Len(meta[k]) <= Len(cmd[n].storers)
          BY <2>0, <3>6 DEF Waits, DownloadTrue
        <4>4. \E p \in Ports : /\ cmd'[n].ports = {<<n, p>>}
                               /\ socket'[n][p] # None /\ socket'[n][p].use = Download
          <5> HIDE DEF k
          <5> QED BY <4>1, <4>2
        <4> HIDE DEF k
        <4>5. \A i \in DOMAIN cmd'[n].storers \cap DOMAIN meta'[k] :
                cmd'[n].storers[i] = n => kept'[n][meta'[k][i].hash] # None
          BY <3>2, <3>3, <4>1
        <4>6. /\ cmd'[n].stage = "receive" /\ cmd'[n].at = Len(cmd'[n].output)
              /\ cmd'[n].at < Len(meta'[k]) /\ Len(meta'[k]) <= Len(cmd'[n].storers)
              /\ \A i \in DOMAIN cmd'[n].output :
                   i \in DOMAIN source'[k] /\ cmd'[n].output[i] = source'[k][i]
          BY <3>2, <4>1, <4>3
        <4> QED BY <3>1, <3>2, <4>4, <4>5, <4>6, DownloadTrueNext
      <3> QED BY <2>5, <3>4, <3>5, <3>6
    <2>6. DownloadTrue(n)'
      BY <1>2, <2>1, <2>2, <2>3, <2>4, <2>5 DEF Acts
    <2>7. \A u \in Users \ {n} : DownloadTrue(u)'
      BY <1>2, DownloadStays DEF Alone
    <2> QED BY <2>6, <2>7 DEF DownloadsTrue
  <1> QED BY <1>1, <1>2, Effect

\* The chunk a download is at, and where it is to be had.
LEMMA NextChunkTyped ==
  ASSUME IInv, NEW n \in Users, cmd[n].stage \in {"fetch", "receive"}
  PROVE  NextStorer(n) \in Nodes /\ NextHash(n) \in Hashes
  <1> DEFINE i == cmd[n].at + 1
  <1>1. /\ cmd[n].at \in Nat /\ cmd[n].storers \in Seq(Nodes)
        /\ meta[cmd[n].key] \in Seq(ChunkMetadata)
        /\ \A j \in DOMAIN meta[cmd[n].key] : meta[cmd[n].key][j].hash \in Hashes
    BY DownloadFacts, Types DEF IInv
  <1>2. cmd[n].at < Len(meta[cmd[n].key]) /\ Len(meta[cmd[n].key]) <= Len(cmd[n].storers)
    BY DEF IInv, DownloadsTrue, DownloadTrue
  <1>3. i \in DOMAIN meta[cmd[n].key] /\ i \in DOMAIN cmd[n].storers
    BY <1>1, <1>2
  <1>4. cmd[n].storers[i] \in Nodes
    BY <1>1, <1>3
  <1> QED BY <1>1, <1>3, <1>4 DEF NextStorer, NextHash

------------------------------------------------------------------------------
(* Types. *)

LEMMA NextUploadsTyped ==
  ASSUME IInv, Next
  PROVE  /\ source' \in [Uploads -> {f \in Files : Len(f) <= MaxBlocks} \cup {None}]
         /\ meta' \in [Uploads -> Seq(ChunkMetadata)]
         /\ handles' \subseteq Uploads
         /\ cmd' \in [Users -> Commands]
  <1> USE Constants
  <1>0. /\ TypeOK
        /\ source \in [Uploads -> {f \in Files : Len(f) <= MaxBlocks} \cup {None}]
        /\ meta \in [Uploads -> Seq(ChunkMetadata)]
        /\ handles \subseteq Uploads
        /\ cmd \in [Users -> Commands]
    BY DEF IInv, TypeOK
  <1>1. CASE Quiet /\ UNCHANGED cmd
    BY <1>0, <1>1 DEF Quiet
  <1>2. ASSUME NEW n \in Users, Alone(n), Acts(n)
        PROVE  /\ source' \in [Uploads -> {f \in Files : Len(f) <= MaxBlocks} \cup {None}]
               /\ meta' \in [Uploads -> Seq(ChunkMetadata)]
               /\ handles' \subseteq Uploads
               /\ cmd' \in [Users -> Commands]
    <2>0. cmd' \in [Users -> Commands]
      BY <1>2 DEF Alone
    <2>1. CASE Quiet
      BY <1>0, <2>0, <2>1 DEF Quiet
    <2>2. CASE Begins(n)
      BY <1>0, <2>0, <2>2 DEF Begins
    <2>3. CASE Reads(n)
      <3> DEFINE k == cmd[n].key
                 i == cmd[n].at + 1
                 m == [hash |-> Hash(k, i), nonce |-> i]
      <3>1. /\ i \in DOMAIN source[k]
            /\ meta' = [meta EXCEPT ![k] = Append(@, m)]
            /\ UNCHANGED <<source, handles>> /\ IsUploading(n)
        BY <2>3 DEF Reads, IsUploading
      <3>2. k \in Begun
        BY <3>1, UploadFacts
      <3>3. k \in Uploads /\ i \in Indices /\ Hash(k, i) \in Hashes
        BY <1>0, <3>1, <3>2, SourceFacts
      <3>4. m \in ChunkMetadata
        BY <3>3 DEF ChunkMetadata
      <3> HIDE DEF m, k, i
      <3>5. Append(meta[k], m) \in Seq(ChunkMetadata)
        BY <1>0, <3>3, <3>4
      <3> QED BY <1>0, <2>0, <3>1, <3>3, <3>5
    <2>4. CASE Finishes(n)
      <3>1. cmd[n].key \in Uploads
        BY <2>4, UploadFacts DEF Finishes, IsUploading, Begun
      <3> QED BY <1>0, <2>0, <2>4, <3>1 DEF Finishes
    <2> QED BY <1>2, <2>1, <2>2, <2>3, <2>4
            DEF Acts, Stops, Moves, Looks, Finds, Writes, Waits
  <1> QED BY <1>1, <1>2, Effect

LEMMA NextFaultsTyped ==
  ASSUME TypeOK, Next
  PROVE  faults' \in 0 .. MaxFaults /\ (faults' = 0 => faults = 0)
  <1> USE Constants
  <1>0. faults \in 0 .. MaxFaults
    BY DEF TypeOK
  <1>1. UNCHANGED faults \/ \E b : Fault(b)
    <2>1. ASSUME NEW n \in Users, CommandStep(n) PROVE UNCHANGED faults \/ \E b : Fault(b)
      BY <2>1 DEF CommandStep, GetNextChunkEncrypt, ResolveAlphaClosestNodes,
            GetPortsForNodes, StoreChunk, FinishUpload, ReadOwnChunk, FindStorers,
            FindStorersFails, CreateOutput, SendGetValue, ReceiveTimesOut, ReceiveData,
            StoreNextChunkDecrypt
    <2> QED BY <2>1 DEF Next, StartUpload, StartDownload, StoreStep, HandleTcpUpload,
            AcceptTimesOut, ValueStep, HandleGetValue, LoseGetValue, Flush, Restart
  <1>2. ASSUME NEW b, Fault(b)
        PROVE  faults' \in 0 .. MaxFaults /\ (faults' = 0 => faults = 0)
    BY <1>0, <1>2 DEF Fault
  <1> QED BY <1>0, <1>1, <1>2

StoresTyped ==
    /\ offered \in [Nodes -> SUBSET Hashes]
    /\ pending \in [Nodes -> SUBSET Hashes]
    /\ left \in [Nodes -> SUBSET Ports]
    /\ \A n \in Nodes : IsFiniteSet(offered[n])

LEMMA NextStoresTyped ==
  ASSUME IInv, Next
  PROVE  StoresTyped'
  <1> USE Constants
  <1>0. StoresTyped
    BY DEF IInv, TypeOK, StoresTyped
  <1>1. CASE UNCHANGED <<offered, pending, left>>
    BY <1>0, <1>1 DEF StoresTyped
  <1>2. ASSUME NEW n \in Nodes, NEW p \in Ports, NEW b, HandleTcpUpload(n, p, b)
        PROVE  StoresTyped'
    <2> DEFINE h == socket[n][p].use
    <2>1. socket[n][p] # None /\ h # Download
      BY <1>2 DEF HandleTcpUpload
    <2>2. h \in Hashes
      BY <2>1, Types DEF IInv, Listeners
    <2>3. \/ /\ offered' = [offered EXCEPT ![n] = @ \cup {h}] /\ UNCHANGED left
             /\ pending' = [pending EXCEPT ![n] = @ \cup {h}]
          \/ left' = [left EXCEPT ![n] = @ \cup {p}] /\ UNCHANGED <<offered, pending>>
      BY <1>2 DEF HandleTcpUpload
    <2> HIDE DEF h
    <2>4. IsFiniteSet(offered[n] \cup {h})
      BY <1>0, FS_AddElement DEF StoresTyped
    <2>5. CASE /\ offered' = [offered EXCEPT ![n] = @ \cup {h}] /\ UNCHANGED left
               /\ pending' = [pending EXCEPT ![n] = @ \cup {h}]
      BY <1>0, <2>2, <2>4, <2>5 DEF StoresTyped
    <2>6. CASE left' = [left EXCEPT ![n] = @ \cup {p}] /\ UNCHANGED <<offered, pending>>
      BY <1>0, <2>6 DEF StoresTyped
    <2> QED BY <2>3, <2>5, <2>6
  <1>3. ASSUME NEW n \in Nodes, NEW lost, Restart(n, lost)
        PROVE  StoresTyped'
    <2>1. /\ offered' = [offered EXCEPT ![n] = {}] /\ pending' = [pending EXCEPT ![n] = {}]
          /\ left' = [left EXCEPT ![n] = {}]
      BY <1>3 DEF Restart
    <2>2. IsFiniteSet({})
      BY FS_EmptySet
    <2> QED BY <1>0, <2>1, <2>2 DEF StoresTyped
  <1>4. ASSUME NEW n \in Nodes, NEW p \in Ports, AcceptTimesOut(n, p)
        PROVE  StoresTyped'
    <2>1. left' = [left EXCEPT ![n] = @ \cup {p}] /\ UNCHANGED <<offered, pending>>
      BY <1>4 DEF AcceptTimesOut
    <2> QED BY <1>0, <2>1 DEF StoresTyped
  <1>5. ASSUME NEW n \in Nodes, NEW h, NEW b, Flush(n, h, b)
        PROVE  StoresTyped'
    <2>1. pending' = [pending EXCEPT ![n] = @ \ {h}] /\ UNCHANGED <<offered, left>>
      BY <1>5 DEF Flush
    <2> QED BY <1>0, <2>1 DEF StoresTyped
  <1>6. \/ UNCHANGED <<offered, pending, left>>
        \/ \E n \in Nodes, p \in Ports, b \in BOOLEAN : HandleTcpUpload(n, p, b)
        \/ \E n \in Nodes, p \in Ports : AcceptTimesOut(n, p)
        \/ \E n \in Nodes : \E h \in pending[n], b \in BOOLEAN : Flush(n, h, b)
        \/ \E n \in Nodes : \E lost \in SUBSET pending[n] : Restart(n, lost)
    BY CommandKeepsStores DEF Next, StartUpload, StartDownload, StoreStep, ValueStep,
           HandleGetValue, LoseGetValue, stores
  <1> QED BY <1>1, <1>2, <1>3, <1>4, <1>5, <1>6

\* A chunk is on offer before its file is written, and its file is there.
LEMMA NextPending ==
  ASSUME IInv, Next
  PROVE  PendingKept'
  <1> USE Constants
  <1>0. /\ PendingKept /\ StoresTyped /\ kept \in [Nodes -> [Hashes -> Contents \cup {None}]]
        /\ \A n \in Nodes, h \in Hashes : kept[n][h] # None => kept'[n][h] # None
    BY KeptGrows DEF IInv, TypeOK, StoresTyped
  <1>a. \A n \in Nodes : pending[n] \subseteq Hashes
    BY <1>0 DEF StoresTyped
  <1>1. CASE UNCHANGED <<kept, offered, pending>>
    BY <1>0, <1>1 DEF PendingKept
  <1>2. ASSUME NEW n \in Nodes, NEW p \in Ports, NEW b, HandleTcpUpload(n, p, b)
        PROVE  PendingKept'
    <2> DEFINE h == socket[n][p].use
    <2>1. socket[n][p] # None /\ h # Download /\ socket[n][p].data # None
      BY <1>2 DEF HandleTcpUpload
    <2>2. h \in Hashes
      BY <2>1, Types DEF IInv, Listeners
    <2>3. \/ UNCHANGED <<kept, offered, pending>>
          \/ /\ kept' = [kept EXCEPT ![n][h] = socket[n][p].data]
             /\ offered' = [offered EXCEPT ![n] = @ \cup {h}]
             /\ pending' = [pending EXCEPT ![n] = @ \cup {h}]
      BY <1>2 DEF HandleTcpUpload
    <2> HIDE DEF h
    <2>4. CASE /\ kept' = [kept EXCEPT ![n][h] = socket[n][p].data]
               /\ offered' = [offered EXCEPT ![n] = @ \cup {h}]
               /\ pending' = [pending EXCEPT ![n] = @ \cup {h}]
      <3>1. kept'[n][h] # None /\ h \in offered'[n]
        BY <1>0, <2>1, <2>2, <2>4 DEF StoresTyped
      <3>2. /\ \A m \in Nodes : offered[m] \subseteq offered'[m]
            /\ \A m \in Nodes : \A g \in pending'[m] : g \in pending[m] \/ (m = n /\ g = h)
        BY <1>0, <2>4 DEF StoresTyped
      <3> QED BY <1>0, <1>a, <3>1, <3>2 DEF PendingKept
    <2> QED BY <1>1, <2>3, <2>4
  <1>3. ASSUME NEW n \in Nodes, NEW h, NEW b, Flush(n, h, b)
        PROVE  PendingKept'
    <2>1. pending' = [pending EXCEPT ![n] = @ \ {h}] /\ UNCHANGED offered
      BY <1>3 DEF Flush
    <2>2. \A m \in Nodes : pending'[m] \subseteq pending[m]
      BY <1>0, <2>1 DEF StoresTyped
    <2> QED BY <1>0, <1>a, <2>1, <2>2 DEF PendingKept
  <1>4. ASSUME NEW n \in Nodes, NEW lost, Restart(n, lost)
        PROVE  PendingKept'
    <2>1. offered' = [offered EXCEPT ![n] = {}] /\ pending' = [pending EXCEPT ![n] = {}]
      BY <1>4 DEF Restart
    <2>2. /\ pending'[n] = {}
          /\ \A m \in Nodes \ {n} : pending'[m] = pending[m] /\ offered'[m] = offered[m]
      BY <1>0, <2>1 DEF StoresTyped
    <2> QED BY <1>0, <1>a, <2>2 DEF PendingKept
  <1> QED BY <1>1, <1>2, <1>3, <1>4, StoresStay

LEMMA NextAskedTyped ==
  ASSUME IInv, Next
  PROVE  /\ asked' \subseteq [to : Nodes, from : Users, port : Ports, hash : Hashes]
         /\ uploaded' \in [Users -> SUBSET Files]
  <1> USE Constants
  <1>0. /\ asked \subseteq [to : Nodes, from : Users, port : Ports, hash : Hashes]
        /\ uploaded \in [Users -> SUBSET Files]
    BY DEF IInv, TypeOK
  <1>1. \/ asked' \subseteq asked
        \/ \E n \in Users, p \in Ports : SendGetValue(n, p)
    <2>1. ASSUME NEW n \in Users, CommandStep(n)
          PROVE  UNCHANGED asked \/ \E p \in Ports : SendGetValue(n, p)
      BY <2>1 DEF CommandStep, GetNextChunkEncrypt, ResolveAlphaClosestNodes,
            GetPortsForNodes, StoreChunk, FinishUpload, ReadOwnChunk, FindStorers,
            FindStorersFails, CreateOutput, ReceiveTimesOut, ReceiveData
    <2> QED BY <2>1 DEF Next, StartUpload, StartDownload, StoreStep, HandleTcpUpload,
            AcceptTimesOut, ValueStep, HandleGetValue, LoseGetValue, Flush, Restart
  <1>2. ASSUME NEW n \in Users, NEW p \in Ports, SendGetValue(n, p)
        PROVE  asked' \subseteq [to : Nodes, from : Users, port : Ports, hash : Hashes]
    <2>1. NextStorer(n) \in Nodes /\ NextHash(n) \in Hashes
      BY <1>2, NextChunkTyped DEF SendGetValue
    <2>2. asked' = asked \cup {[to |-> NextStorer(n), from |-> n, port |-> p,
                                hash |-> NextHash(n)]}
      BY <1>2 DEF SendGetValue
    <2> QED BY <1>0, <2>1, <2>2
  <1>3. \/ UNCHANGED uploaded
        \/ \E n \in Users, b \in BOOLEAN : FinishUpload(n, b)
        \/ \E n \in Nodes : \E lost \in SUBSET pending[n] : Restart(n, lost)
    <2>1. ASSUME NEW n \in Users, CommandStep(n)
          PROVE  UNCHANGED uploaded \/ \E b \in BOOLEAN : FinishUpload(n, b)
      BY <2>1 DEF CommandStep, GetNextChunkEncrypt, ResolveAlphaClosestNodes,
            GetPortsForNodes, StoreChunk, SendGetValue, ReadOwnChunk, FindStorers,
            FindStorersFails, CreateOutput, ReceiveTimesOut, ReceiveData, uploads
    <2> QED BY <2>1 DEF Next, StartUpload, StartDownload, StoreStep, HandleTcpUpload,
            AcceptTimesOut, ValueStep, HandleGetValue, LoseGetValue, Flush, uploads
  <1>4. ASSUME NEW n \in Users, NEW b, FinishUpload(n, b)
        PROVE  uploaded' \in [Users -> SUBSET Files]
    <2>1. /\ uploaded' = [uploaded EXCEPT ![n] = @ \cup {source[cmd[n].key]}]
          /\ IsUploading(n)
      BY <1>4 DEF FinishUpload, IsUploading
    <2>2. source[cmd[n].key] \in Files
      BY <2>1, UploadFacts, SourceFacts DEF IInv
    <2> QED BY <1>0, <2>1, <2>2
  <1>5. ASSUME NEW n \in Nodes, NEW lost, Restart(n, lost)
        PROVE  uploaded' \in [Users -> SUBSET Files]
    BY <1>0, <1>5 DEF Restart
  <1> QED BY <1>0, <1>1, <1>2, <1>3, <1>4, <1>5

LEMMA NextTypes ==
  ASSUME IInv, Next
  PROVE  TypeOK'
  <1>1. TypeOK
    BY DEF IInv
  <1> QED BY <1>1, NextUploadsTyped, NextFaultsTyped, NextStoresTyped, NextAskedTyped,
             KeptGrows, SocketEffect DEF TypeOK, SocketsMove, StoresTyped, Grows

------------------------------------------------------------------------------
(* As long as nothing fails: the ports. *)

\* The parts of PortsOwned.
OwnPorts(n) ==
    /\ \A a \in cmd[n].ports :
         /\ socket[a[1]][a[2]] # None
         /\ cmd[n].stage \in {"send", "receive"}
         /\ cmd[n].stage = "send" =>
              socket[a[1]][a[2]] = Listener(Hash(cmd[n].key, cmd[n].at))
    /\ cmd[n].stage = "send" => cmd[n].ports # {}

PortsApart == \A n \in Users : \A u \in Users \ {n} : \A a \in cmd[n].ports : a \notin cmd[u].ports

AskedOnce ==
    \A r \in asked :
        /\ cmd[r.from].stage = "receive"
        /\ <<r.from, r.port>> \in cmd[r.from].ports
        /\ socket[r.from][r.port].data = None
        /\ \A q \in asked : q.from = r.from => q = r

LEMMA PortsOwnedParts ==
  PortsOwned => (\A n \in Users : OwnPorts(n)) /\ PortsApart /\ AskedOnce
  BY DEF PortsOwned, OwnPorts, PortsApart, AskedOnce

LEMMA PortsOwnedNext ==
  ASSUME \A n \in Users : OwnPorts(n)', PortsApart', AskedOnce'
  PROVE  PortsOwned'
  BY DEF PortsOwned, OwnPorts, PortsApart, AskedOnce

\* A step that leaves faults at zero needed none.
LEMMA NoFault ==
  ASSUME TypeOK, NEW b, Fault(b), faults' = 0
  PROVE  ~b
  BY Constants DEF TypeOK, Fault

LEMMA PortsBefore ==
  ASSUME IInv, Next, faults' = 0
  PROVE  faults = 0 /\ (\A n \in Users : OwnPorts(n)) /\ PortsApart /\ AskedOnce
  BY NextFaultsTyped, PortsOwnedParts DEF IInv

LEMMA OwnPortsStay ==
  ASSUME IInv, Next, faults' = 0, NEW u \in Users, cmd'[u] = cmd[u],
         \A a \in cmd[u].ports :
            /\ socket'[a[1]][a[2]] # None
            /\ cmd[u].stage = "send" => socket'[a[1]][a[2]] = socket[a[1]][a[2]]
  PROVE  OwnPorts(u)'
  <1>1. OwnPorts(u)
    BY PortsBefore
  <1>2. ASSUME cmd[u].stage = "send"
        PROVE  Hash(cmd[u].key, cmd[u].at)' = Hash(cmd[u].key, cmd[u].at)
    <2>1. cmd[u].key \in Begun
      BY <1>2, UploadFacts DEF IsUploading
    <2>2. source'[cmd[u].key] = source[cmd[u].key]
      BY <2>1, UploadsGrow
    <2> QED BY <2>2 DEF Hash
  <1> QED BY <1>1, <1>2 DEF OwnPorts

\* No command changes, nor do the listeners it holds.
LEMMA PortsStay ==
  ASSUME IInv, Next, faults' = 0, UNCHANGED cmd, asked' \subseteq asked,
         \A u \in Users : \A a \in cmd[u].ports :
            /\ socket'[a[1]][a[2]] # None
            /\ cmd[u].stage = "send" => socket'[a[1]][a[2]] = socket[a[1]][a[2]],
         \A r \in asked' : socket'[r.from][r.port] = socket[r.from][r.port]
  PROVE  PortsOwned'
  <1>1. PortsApart /\ AskedOnce
    BY PortsBefore
  <1>2. \A u \in Users : OwnPorts(u)'
    BY OwnPortsStay
  <1>3. PortsApart'
    BY <1>1 DEF PortsApart
  <1>4. AskedOnce'
    BY <1>1 DEF AskedOnce
  <1> QED BY <1>2, <1>3, <1>4, PortsOwnedNext

\* A command that holds no port, and one that holds none any more.
LEMMA PortsDropped ==
  ASSUME IInv, Next, faults' = 0, NEW n \in Users, Alone(n),
         cmd'[n].ports = {}, cmd'[n].stage # "send",
         \A u \in Users \ {n} : \A a \in cmd[u].ports :
            socket'[a[1]][a[2]] = socket[a[1]][a[2]],
         asked' \subseteq asked, \A r \in asked' : r.from # n
  PROVE  PortsOwned'
  <1>0. \A u \in Users \ {n} : cmd'[u] = cmd[u]
    BY DEF Alone
  <1>1. (\A u \in Users : OwnPorts(u)) /\ PortsApart /\ AskedOnce
    BY PortsBefore
  <1>2. \A u \in Users \ {n} : OwnPorts(u)'
    <2>1. \A u \in Users \ {n} : \A a \in cmd[u].ports : socket[a[1]][a[2]] # None
      BY <1>1 DEF OwnPorts
    <2> QED BY <1>0, <2>1, OwnPortsStay
  <1>3. OwnPorts(n)'
    BY DEF OwnPorts
  <1>4. PortsApart'
    BY <1>0, <1>1 DEF PortsApart
  <1>5. AskedOnce'
    <2> SUFFICES ASSUME NEW r \in asked'
                 PROVE  /\ cmd'[r.from].stage = "receive"
                        /\ <<r.from, r.port>> \in cmd'[r.from].ports
                        /\ socket'[r.from][r.port].data = None
                        /\ \A q \in asked' : q.from = r.from => q = r
      BY DEF AskedOnce
    <2>1. r \in asked /\ r.from \in Users \ {n}
      BY DEF IInv, TypeOK
    <2>2. /\ cmd[r.from].stage = "receive"
          /\ <<r.from, r.port>> \in cmd[r.from].ports
          /\ socket[r.from][r.port].data = None
          /\ \A q \in asked' : q.from = r.from => q = r
      BY <1>1, <2>1 DEF AskedOnce
    <2>3. socket'[r.from][r.port] = socket[r.from][r.port]
      BY <2>1, <2>2
    <2> QED BY <1>0, <2>1, <2>2, <2>3
  <1> QED BY <1>2, <1>3, <1>4, <1>5, PortsOwnedNext

\* A command takes ports that were not listened on.
LEMMA PortsTaken ==
  ASSUME IInv, Next, faults' = 0, NEW n \in Users, Alone(n), cmd[n].ports = {},
         \A a \in cmd'[n].ports : socket[a[1]][a[2]] = None,
         OwnPorts(n)',
         \A u \in Users \ {n} : \A a \in cmd[u].ports :
            socket'[a[1]][a[2]] = socket[a[1]][a[2]],
         \A r \in asked' : \/ r \in asked
                           \/ /\ r.from = n /\ cmd'[n].stage = "receive"
                              /\ <<n, r.port>> \in cmd'[n].ports
                              /\ socket'[n][r.port].data = None,
         \A r, q \in asked' : r.from = n /\ q.from = n => q = r
  PROVE  PortsOwned'
  <1>0. \A u \in Users \ {n} : cmd'[u] = cmd[u]
    BY DEF Alone
  <1>1. (\A u \in Users : OwnPorts(u)) /\ PortsApart /\ AskedOnce
    BY PortsBefore
  <1>2. \A u \in Users : \A a \in cmd[u].ports : socket[a[1]][a[2]] # None
    BY <1>1 DEF OwnPorts
  <1>3. \A u \in Users \ {n} : OwnPorts(u)'
    BY <1>0, <1>2, OwnPortsStay
  <1>4. PortsApart'
    BY <1>0, <1>1, <1>2 DEF PortsApart
  <1>5. AskedOnce'
    <2> SUFFICES ASSUME NEW r \in asked'
                 PROVE  /\ cmd'[r.from].stage = "receive"
                        /\ <<r.from, r.port>> \in cmd'[r.from].ports
                        /\ socket'[r.from][r.port].data = None
                        /\ \A q \in asked' : q.from = r.from => q = r
      BY DEF AskedOnce
    <2>1. CASE r \in asked
      <3>1. /\ cmd[r.from].stage = "receive"
            /\ <<r.from, r.port>> \in cmd[r.from].ports
            /\ socket[r.from][r.port].data = None
            /\ \A q \in asked : q.from = r.from => q = r
        BY <1>1, <2>1 DEF AskedOnce
      <3>2. r.from \in Users \ {n}
        BY <2>1, <3>1 DEF IInv, TypeOK
      <3>3. socket'[r.from][r.port] = socket[r.from][r.port]
        BY <3>1, <3>2
      <3>4. \A q \in asked' : q.from = r.from => q = r
        BY <3>1, <3>2
      <3> QED BY <1>0, <3>1, <3>2, <3>3, <3>4
    <2>2. CASE r \notin asked
      BY <2>2
    <2> QED BY <2>1, <2>2
  <1> QED BY <1>3, <1>4, <1>5, PortsOwnedNext

\* A command without ports is nowhere in a transfer.
LEMMA NoPorts ==
  ASSUME IInv, Next, faults' = 0, NEW n \in Users, cmd[n].stage \notin {"send", "receive"}
  PROVE  cmd[n].ports = {} /\ \A r \in asked : r.from # n
  <1>1. OwnPorts(n) /\ AskedOnce
    BY PortsBefore
  <1> QED BY <1>1 DEF OwnPorts, AskedOnce

\* A step of a command that neither has nor takes ports.
LEMMA PortlessStep ==
  ASSUME IInv, Next, faults' = 0, NEW n \in Users, Alone(n),
         cmd[n].stage \notin {"send", "receive"}, UNCHANGED <<socket, asked>>,
         cmd'[n].ports \in {{}, cmd[n].ports}, cmd'[n].stage # "send"
  PROVE  PortsOwned'
  BY NoPorts, PortsDropped

LEMMA CommandPorts ==
  ASSUME IInv, Next, faults' = 0, NEW n \in Users, CommandStep(n)
  PROVE  PortsOwned'
  <1> USE Constants
  <1>0. TypeOK
    BY DEF IInv
  <1>a. (\A u \in Users : OwnPorts(u)) /\ PortsApart /\ AskedOnce
    BY PortsBefore
  <1>1. ASSUME NEW b \in BOOLEAN, GetNextChunkEncrypt(n, b)
        PROVE  PortsOwned'
    <2>1. cmd[n].stage = "read" /\ UNCHANGED <<socket, asked>> /\ Fault(b)
      BY <1>1 DEF GetNextChunkEncrypt
    <2>2. ~b
      BY <1>0, <2>1, NoFault
    <2>3. GetNextChunkEncrypt(n, FALSE)
      BY <1>1, <2>2
    <2> QED BY <2>1, <2>3, ChunkRead, PortlessStep DEF Alone
  <1>2. ASSUME NEW answering \in SUBSET (Nodes \ {n}), ResolveAlphaClosestNodes(n, answering)
        PROVE  PortsOwned'
    <2>1. UNCHANGED <<socket, asked>>
      BY <1>2 DEF ResolveAlphaClosestNodes
    <2>2. Alone(n) /\ cmd[n].stage = "store" /\ cmd'[n].stage # "send"
          /\ cmd'[n].ports \in {{}, cmd[n].ports}
      BY <1>2, NodesResolved, IdleCommand DEF Alone
    <2> QED BY <2>1, <2>2, PortlessStep
  <1>3. ASSUME NEW reached \in SUBSET cmd[n].nodes, NEW answered,
               NEW p \in [reached -> Ports], GetPortsForNodes(n, reached, answered, p)
        PROVE  PortsOwned'
    <2> DEFINE h == Hash(cmd[n].key, cmd[n].at)
    <2>1. /\ h \in Hashes
          /\ \A m \in Nodes, q \in Ports :
               \/ socket'[m][q] = socket[m][q]
               \/ socket[m][q] = None /\ socket'[m][q] = Listener(h)
      BY <1>3, PortsOpened
    <2>2. /\ IsUploading(n) /\ cmd[n].stage = "port" /\ Alone(n)
          /\ \/ cmd'[n] = Idle
             \/ /\ cmd'[n].stage = "send" /\ cmd'[n].key = cmd[n].key
                /\ cmd'[n].at = cmd[n].at
                /\ cmd'[n].ports # {}
                /\ \A a \in cmd'[n].ports : /\ socket[a[1]][a[2]] = None
                                            /\ socket'[a[1]][a[2]] = Listener(h)
      BY <1>3, PortsGiven DEF Alone
    <2>3. UNCHANGED <<source, asked>>
      BY <1>3 DEF GetPortsForNodes, uploads
    <2>4. cmd[n].ports = {} /\ \A r \in asked : r.from # n
      BY <2>2, NoPorts
    <2>5. \A u \in Users : \A a \in cmd[u].ports :
            socket'[a[1]][a[2]] = socket[a[1]][a[2]]
      <3>1. \A u \in Users : \A a \in cmd[u].ports :
              a[1] \in Nodes /\ a[2] \in Ports /\ socket[a[1]][a[2]] # None
        BY <1>0, <1>a, Types DEF OwnPorts
      <3> QED BY <2>1, <3>1
    <2>6. CASE cmd'[n] = Idle
      BY <2>2, <2>3, <2>4, <2>5, <2>6, IdleCommand, PortsDropped
    <2>7. CASE cmd'[n] # Idle
      <3>1. Hash(cmd[n].key, cmd[n].at)' = h
        BY <2>2, <2>3, <2>7 DEF Hash
      <3>2. Listener(h) # None
        BY <2>1 DEF Listener, Listeners
      <3> HIDE DEF h
      <3>3. /\ cmd'[n].ports # {}
            /\ \A a \in cmd'[n].ports : /\ socket[a[1]][a[2]] = None
                                        /\ socket'[a[1]][a[2]] = Listener(h)
        BY <2>1, <2>2, <2>7
      <3>4. OwnPorts(n)'
        BY <2>2, <2>7, <3>1, <3>2, <3>3 DEF OwnPorts
      <3> QED BY <2>2, <2>3, <2>4, <2>5, <3>3, <3>4, PortsTaken
    <2> QED BY <2>6, <2>7
  <1>4. ASSUME NEW sent, NEW cut, StoreChunk(n, sent, cut)
        PROVE  PortsOwned'
    <2>1. /\ cmd[n].stage = "send" /\ Alone(n) /\ cmd'[n].ports = {}
          /\ cmd'[n].stage # "send"
      BY <1>4, ChunkStored, IdleCommand DEF Alone
    <2>2. UNCHANGED asked /\ sent \subseteq cmd[n].ports /\ cut \subseteq cmd[n].ports
      BY <1>4 DEF StoreChunk
    <2>3. PICK f : /\ Connect(f)
                   /\ \A a \in DOMAIN f : (a \in sent \/ a \in cut) /\ f[a] \in Contents
      BY <1>4, ChunkSent
    <2>4. \A m \in Nodes, q \in Ports : <<m, q>> \notin DOMAIN f =>
             socket'[m][q] = socket[m][q]
      BY <1>0, <2>3, Connected
    <2>5. ASSUME NEW u \in Users \ {n}, NEW a \in cmd[u].ports
          PROVE  socket'[a[1]][a[2]] = socket[a[1]][a[2]]
      <3>1. a \in Nodes \X Ports
        BY <1>0, Types
      <3>2. a \notin cmd[n].ports
        BY <1>a DEF PortsApart
      <3>3. a[1] \in Nodes /\ a[2] \in Ports /\ <<a[1], a[2]>> = a
        BY <3>1
      <3> QED BY <2>2, <2>3, <2>4, <3>2, <3>3
    <2>6. \A r \in asked : r.from # n
      BY <1>a, <2>1 DEF AskedOnce
    <2> QED BY <2>1, <2>2, <2>5, <2>6, PortsDropped
  <1>5. ASSUME NEW b, FinishUpload(n, b)
        PROVE  PortsOwned'
    <2>1. cmd[n].stage = "read" /\ Fail(n) /\ UNCHANGED <<socket, asked>>
      BY <1>5 DEF FinishUpload, Fail
    <2> QED BY <1>0, <2>1, Failed, IdleCommand, PortlessStep DEF Alone
  <1>6. ASSUME NEW b, ReadOwnChunk(n, b)
        PROVE  PortsOwned'
    <2>1. cmd[n].stage = "fetch" /\ Quiet /\ UNCHANGED <<socket, asked>>
      BY <1>6 DEF ReadOwnChunk, uploads, Quiet
    <2>2. Alone(n) /\ cmd'[n].ports = {} /\ cmd'[n].stage # "send"
      BY <1>6, <2>1, ChunkWritten, IdleCommand DEF Stops, Writes
    <2> QED BY <2>1, <2>2, PortlessStep
  <1>7. ASSUME NEW storers \in [1 .. Cardinality(Batch(n)) -> Nodes], FindStorers(n, storers)
        PROVE  PortsOwned'
    <2>1. UNCHANGED <<socket, asked>>
      BY <1>7 DEF FindStorers
    <2> QED BY <1>7, <2>1, StorersFound, PortlessStep DEF Alone
  <1>8. CASE FindStorersFails(n)
    <2>1. cmd[n].stage = "find" /\ Fail(n) /\ UNCHANGED <<socket, asked>>
      BY <1>8 DEF FindStorersFails
    <2> QED BY <1>0, <2>1, Failed, IdleCommand, PortlessStep DEF Alone
  <1>9. CASE CreateOutput(n)
    <2> DEFINE none == <<>>
    <2>1. /\ cmd[n].stage = "find" /\ Proceed(n, none) /\ UNCHANGED <<socket, asked>>
          /\ none \in Seq(Blocks) /\ Len(none) = 0
      BY <1>9 DEF CreateOutput
    <2> HIDE DEF none
    <2>2. Len(none) <= Len(meta[cmd[n].key])
      BY <2>1, DownloadFacts
    <2>3. Alone(n) /\ cmd'[n].ports = {} /\ cmd'[n].stage # "send"
      BY <2>1, <2>2, Proceeded DEF Alone
    <2> QED BY <2>1, <2>3, PortlessStep
  <1>10. ASSUME NEW p \in Ports, SendGetValue(n, p)
         PROVE  PortsOwned'
    <2> DEFINE r == [to |-> NextStorer(n), from |-> n, port |-> p, hash |-> NextHash(n)]
    <2>1. /\ cmd[n].stage = "fetch" /\ socket[n][p] = None
          /\ socket' = [socket EXCEPT ![n][p] = Listener(Download)]
          /\ asked' = asked \cup {r}
      BY <1>10 DEF SendGetValue
    <2>2. r.from = n /\ r.port = p
      OBVIOUS
    <2> HIDE DEF r
    <2>3. cmd[n].ports = {} /\ \A q \in asked : q.from # n
      BY <2>1, NoPorts
    <2>4. /\ socket'[n][p] = Listener(Download)
          /\ \A m \in Nodes, q \in Ports : <<m, q>> # <<n, p>> => socket'[m][q] = socket[m][q]
      BY <1>0, <2>1 DEF TypeOK
    <2>5. Listener(Download) # None /\ Listener(Download).data = None
      <3>1. Listener(Download) \in Listeners
        BY DEF Listener, Listeners
      <3> QED BY <3>1 DEF Listener
    <2>6. Alone(n) /\ cmd'[n].stage = "receive" /\ cmd'[n].ports = {<<n, p>>}
      <3> DEFINE c == cmd[n]
                 P == {<<n, p>>}
                 d == [c EXCEPT !.stage = "receive", !.ports = P]
      <3>1. cmd' = [cmd EXCEPT ![n] = d]
        BY <1>10 DEF SendGetValue
      <3>2. c \in Commands /\ P \in SUBSET (Nodes \X Ports)
        BY <1>0, Types
      <3>3. d = [c EXCEPT !.stage = "receive", !.ports = P]
        OBVIOUS
      <3> HIDE DEF c, P, d
      <3>4. d \in Commands /\ d.stage = "receive" /\ d.ports = P
        BY <3>2, <3>3 DEF Commands, Stages
      <3>5. Alone(n) /\ cmd'[n] = d
        BY <1>0, <3>1, <3>4, Replaced DEF Alone
      <3> QED BY <3>4, <3>5 DEF P
    <2>7. OwnPorts(n)'
      BY <2>4, <2>5, <2>6 DEF OwnPorts
    <2>8. ASSUME NEW u \in Users \ {n}, NEW a \in cmd[u].ports
          PROVE  socket'[a[1]][a[2]] = socket[a[1]][a[2]]
      <3>1. a \in Nodes \X Ports
        BY <1>0, Types
      <3>2. socket[a[1]][a[2]] # None
        BY <1>a DEF OwnPorts
      <3>3. a[1] \in Nodes /\ a[2] \in Ports /\ <<a[1], a[2]>> # <<n, p>>
        BY <2>1, <3>1, <3>2
      <3> QED BY <2>4, <3>3
    <2>9. \A a \in cmd'[n].ports : socket[a[1]][a[2]] = None
      BY <2>1, <2>6
    <2>10. \A q \in asked' : \/ q \in asked
                             \/ /\ q.from = n /\ cmd'[n].stage = "receive"
                                /\ <<n, q.port>> \in cmd'[n].ports
                                /\ socket'[n][q.port].data = None
      BY <2>1, <2>2, <2>4, <2>5, <2>6
    <2>11. \A x, q \in asked' : x.from = n /\ q.from = n => q = x
      BY <2>1, <2>3
    <2> QED BY <2>3, <2>6, <2>7, <2>8, <2>9, <2>10, <2>11, PortsTaken
  <1>11. ASSUME NEW p \in Ports, cmd[n].stage = "receive", <<n, p>> \in cmd[n].ports,
                Close(n, p), UNCHANGED asked, Alone(n),
                cmd'[n].ports = {}, cmd'[n].stage # "send",
                ~\E r \in asked : r.from = n /\ r.port = p
         PROVE  PortsOwned'
    <2>1. cmd[n].ports = {<<n, p>>}
      BY <1>11, ReceivedChunk
    <2>2. \A m \in Nodes, q \in Ports : <<m, q>> # <<n, p>> => socket'[m][q] = socket[m][q]
      BY <1>0, <1>11, Closed
    <2>3. ASSUME NEW u \in Users \ {n}, NEW a \in cmd[u].ports
          PROVE  socket'[a[1]][a[2]] = socket[a[1]][a[2]]
      <3>1. a \in Nodes \X Ports
        BY <1>0, Types
      <3>2. a \notin cmd[n].ports
        BY <1>a DEF PortsApart
      <3>3. a[1] \in Nodes /\ a[2] \in Ports /\ <<a[1], a[2]>> # <<n, p>>
        BY <1>11, <3>1, <3>2
      <3> QED BY <2>2, <3>3
    <2>4. \A r \in asked : r.from # n
      <3>1. \A r \in asked : r.from = n => <<n, r.port>> \in cmd[n].ports
        BY <1>a DEF AskedOnce
      <3> QED BY <1>11, <2>1, <3>1
    <2> QED BY <1>11, <2>3, <2>4, PortsDropped
  <1>12. ASSUME NEW p \in Ports, ReceiveTimesOut(n, p)
         PROVE  PortsOwned'
    <2>1. /\ cmd[n].stage = "receive" /\ <<n, p>> \in cmd[n].ports
          /\ Close(n, p) /\ UNCHANGED asked /\ Fail(n)
          /\ Fault(\E r \in asked : r.from = n /\ r.port = p)
      BY <1>12 DEF ReceiveTimesOut
    <2>2. ~\E r \in asked : r.from = n /\ r.port = p
      BY <1>0, <2>1, NoFault
    <2>3. Alone(n) /\ cmd'[n].ports = {} /\ cmd'[n].stage # "send"
      BY <1>0, <2>1, Failed, IdleCommand DEF Alone
    <2> QED BY <1>11, <2>1, <2>2, <2>3
  <1>13. ASSUME NEW p \in Ports, NEW b, ReceiveData(n, p, b)
         PROVE  PortsOwned'
    <2>1. /\ cmd[n].stage = "receive" /\ <<n, p>> \in cmd[n].ports
          /\ Close(n, p) /\ UNCHANGED asked /\ Quiet /\ socket[n][p].data # None
      BY <1>13 DEF ReceiveData, uploads, Quiet
    <2>2. ~\E r \in asked : r.from = n /\ r.port = p
      BY <1>a, <2>1 DEF AskedOnce
    <2>3. Alone(n) /\ cmd'[n].ports = {} /\ cmd'[n].stage # "send"
      BY <1>13, <2>1, ChunkWritten, IdleCommand DEF Stops, Writes
    <2> QED BY <1>11, <2>1, <2>2, <2>3
  <1> QED BY <1>1, <1>2, <1>3, <1>4, <1>5, <1>6, <1>7, <1>8, <1>9, <1>10, <1>12, <1>13
          DEF CommandStep

LEMMA NextPorts ==
  ASSUME IInv, Next, faults' = 0
  PROVE  PortsOwned'
  <1> USE Constants
  <1>0. TypeOK
    BY DEF IInv
  <1>a. (\A u \in Users : OwnPorts(u)) /\ PortsApart /\ AskedOnce
    BY PortsBefore
  <1>b. \A u \in Users : \A a \in cmd[u].ports :
          a[1] \in Nodes /\ a[2] \in Ports /\ a = <<a[1], a[2]>> /\ socket[a[1]][a[2]] # None
    <2>1. \A u \in Users : \A a \in cmd[u].ports : a \in Nodes \X Ports
      BY <1>0, Types
    <2> QED BY <1>a, <2>1 DEF OwnPorts
  <1>c. \A r \in asked : /\ r.from \in Users /\ r.from \in Nodes /\ r.port \in Ports
                         /\ <<r.from, r.port>> \in cmd[r.from].ports
    BY <1>0, <1>a DEF TypeOK, AskedOnce
  <1>1. ASSUME NEW n \in Users, NEW f \in Files, StartUpload(n, f)
        PROVE  PortsOwned'
    <2>1. /\ Free(n) /\ UNCHANGED <<socket, asked>>
      BY <1>1 DEF StartUpload
    <2>2. Alone(n) /\ cmd'[n].ports = {} /\ cmd'[n].stage # "send"
      BY <1>1, UploadStarts, NewCommand, IdleCommand DEF Alone, Stages
    <2> QED BY <2>1, <2>2, PortlessStep DEF Free
  <1>2. ASSUME NEW n \in Users, NEW k \in Uploads, StartDownload(n, k)
        PROVE  PortsOwned'
    <2>1. /\ Free(n) /\ UNCHANGED <<socket, asked>>
      BY <1>2 DEF StartDownload
    <2>2. Alone(n) /\ cmd'[n].ports = {} /\ cmd'[n].stage # "send"
      BY <1>2, DownloadStarts, NewCommand DEF Alone, Stages
    <2> QED BY <2>1, <2>2, PortlessStep DEF Free
  <1>3. ASSUME NEW n \in Nodes, NEW p \in Ports, Close(n, p), UNCHANGED <<cmd, asked>>,
               ~\E u \in Users : <<n, p>> \in cmd[u].ports
        PROVE  PortsOwned'
    <2>1. \A m \in Nodes, q \in Ports : <<m, q>> # <<n, p>> => socket'[m][q] = socket[m][q]
      BY <1>0, <1>3, Closed
    <2>2. \A u \in Users : \A a \in cmd[u].ports : socket'[a[1]][a[2]] = socket[a[1]][a[2]]
      BY <1>3, <1>b, <2>1
    <2>3. \A r \in asked : socket'[r.from][r.port] = socket[r.from][r.port]
      BY <1>3, <1>c, <2>1
    <2> QED BY <1>3, <1>b, <2>2, <2>3, PortsStay
  <1>4. ASSUME NEW n \in Nodes, NEW p \in Ports, NEW b, HandleTcpUpload(n, p, b)
        PROVE  PortsOwned'
    <2>1. /\ Close(n, p) /\ UNCHANGED <<cmd, asked>>
          /\ socket[n][p].use # Download /\ socket[n][p].data # None
      BY <1>4 DEF HandleTcpUpload
    <2>2. ASSUME NEW u \in Users, <<n, p>> \in cmd[u].ports
          PROVE  FALSE
      <3>1. /\ cmd[u].stage \in {"send", "receive"}
            /\ cmd[u].stage = "send" =>
                 socket[n][p] = Listener(Hash(cmd[u].key, cmd[u].at))
        BY <1>a, <2>2 DEF OwnPorts
      <3>2. CASE cmd[u].stage = "send"
        BY <2>1, <3>1, <3>2 DEF Listener
      <3>3. CASE cmd[u].stage = "receive"
        <4>1. PICK q \in Ports : cmd[u].ports = {<<u, q>>} /\ socket[u][q].use = Download
          BY <3>3 DEF IInv, DownloadsTrue, DownloadTrue
        <4>2. u = n /\ q = p
          BY <2>2, <4>1
        <4> QED BY <2>1, <4>1, <4>2
      <3> QED BY <3>1, <3>2, <3>3
    <2> QED BY <1>3, <2>1, <2>2
  <1>5. ASSUME NEW n \in Nodes, NEW p \in Ports, AcceptTimesOut(n, p)
        PROVE  PortsOwned'
    <2>1. /\ Close(n, p) /\ UNCHANGED <<cmd, asked>>
          /\ Fault(\E u \in Users : <<n, p>> \in cmd[u].ports)
      BY <1>5 DEF AcceptTimesOut
    <2>2. ~\E u \in Users : <<n, p>> \in cmd[u].ports
      BY <1>0, <2>1, NoFault
    <2> QED BY <1>3, <2>1, <2>2
  <1>6. ASSUME NEW r \in asked, NEW again \in BOOLEAN, NEW broken \in BOOLEAN,
               HandleGetValue(r, again, broken)
        PROVE  PortsOwned'
    <2>1. Fault(again \/ broken) /\ UNCHANGED cmd
      BY <1>6 DEF HandleGetValue
    <2>2. ~(again \/ broken)
      BY <1>0, <2>1, NoFault
    <2>3. asked' = asked \ {r}
      BY <1>6, <2>2 DEF HandleGetValue
    <2>4. CASE kept[r.to][r.hash] = None
      <3>1. UNCHANGED socket
        BY <1>6, <2>4 DEF HandleGetValue
      <3> QED BY <1>b, <2>1, <2>3, <3>1, PortsStay
    <2>5. CASE kept[r.to][r.hash] # None
      <3>1. PICK f : /\ Connect(f) /\ DOMAIN f = {<<r.from, r.port>>}
                     /\ \A a \in DOMAIN f : f[a] \in Contents /\ Authentic(f[a])
        BY <1>6, <2>5, ValueSent
      <3>2. \A m \in Nodes, q \in Ports :
              /\ socket[m][q] # None => socket'[m][q] # None
              /\ <<m, q>> # <<r.from, r.port>> => socket'[m][q] = socket[m][q]
        <4>1. \A m \in Nodes, q \in Ports :
                /\ socket[m][q] # None => socket'[m][q] # None
                /\ <<m, q>> \notin DOMAIN f => socket'[m][q] = socket[m][q]
          BY ZenonT(30), <1>0, <3>1, Connected DEF IInv
        <4> QED BY <3>1, <4>1
      <3>3. cmd[r.from].stage = "receive" /\ \A q \in asked : q.from = r.from => q = r
        BY <1>a DEF AskedOnce
      <3>4. \A u \in Users : \A a \in cmd[u].ports :
              /\ socket'[a[1]][a[2]] # None
              /\ cmd[u].stage = "send" => socket'[a[1]][a[2]] = socket[a[1]][a[2]]
        <4> SUFFICES ASSUME NEW u \in Users, NEW a \in cmd[u].ports
                     PROVE  /\ socket'[a[1]][a[2]] # None
                            /\ cmd[u].stage = "send" =>
                                 socket'[a[1]][a[2]] = socket[a[1]][a[2]]
          OBVIOUS
        <4>1. cmd[u].stage = "send" => a # <<r.from, r.port>>
          BY <1>a, <1>c, <3>3 DEF PortsApart
        <4> QED BY <1>b, <3>2, <4>1
      <3>5. \A q \in asked' : socket'[q.from][q.port] = socket[q.from][q.port]
        <4> SUFFICES ASSUME NEW q \in asked'
                     PROVE  socket'[q.from][q.port] = socket[q.from][q.port]
          OBVIOUS
        <4>1. q \in asked /\ q.from # r.from
          BY <2>3, <3>3
        <4> QED BY <1>c, <3>2, <4>1
      <3> QED BY <2>1, <2>3, <3>4, <3>5, PortsStay
    <2> QED BY <2>4, <2>5
  <1>7. ASSUME Fault(TRUE)
        PROVE  FALSE
    BY <1>0, <1>7, NoFault
  <1>8. ASSUME NEW r \in asked, LoseGetValue(r)
        PROVE  PortsOwned'
    BY <1>7, <1>8 DEF LoseGetValue
  <1>9. ASSUME NEW n \in Nodes, NEW lost, Restart(n, lost)
        PROVE  PortsOwned'
    BY <1>7, <1>9 DEF Restart
  <1>10. ASSUME NEW n \in Nodes, NEW h, NEW b, Flush(n, h, b)
         PROVE  PortsOwned'
    BY <1>10, <1>b, PortsStay DEF Flush
  <1> QED BY <1>1, <1>2, <1>4, <1>5, <1>6, <1>8, <1>9, <1>10, CommandPorts
          DEF Next, StoreStep, ValueStep

------------------------------------------------------------------------------
(* As long as nothing fails and no node is full: the chunks. *)

LEMMA NotFullBefore ==
  ASSUME IInv, Next, faults' = 0, ~SomebodyFull'
  PROVE  ~SomebodyFull
  <1> USE Constants
  <1>0. /\ TypeOK /\ offered \in [Nodes -> SUBSET Hashes]
        /\ \A n \in Nodes : IsFiniteSet(offered[n])
    BY DEF IInv, TypeOK
  <1>1. \A n \in Nodes : offered[n] \subseteq offered'[n]
    <2>1. \/ UNCHANGED offered
          \/ \E n \in Nodes, p \in Ports, b \in BOOLEAN : HandleTcpUpload(n, p, b)
          \/ \E n \in Nodes : \E lost \in SUBSET pending[n] : Restart(n, lost)
      BY StoresStay DEF Flush
    <2>2. ASSUME NEW n \in Nodes, NEW lost, Restart(n, lost) PROVE FALSE
      <3>1. Fault(TRUE)
        BY <2>2 DEF Restart
      <3> QED BY <1>0, <3>1, NoFault
    <2>3. ASSUME NEW n \in Nodes, NEW p \in Ports, NEW b, HandleTcpUpload(n, p, b)
          PROVE  \A m \in Nodes : offered[m] \subseteq offered'[m]
      <3>1. \/ UNCHANGED offered
            \/ offered' = [offered EXCEPT ![n] = @ \cup {socket[n][p].use}]
        BY <2>3 DEF HandleTcpUpload
      <3> QED BY <1>0, <3>1
    <2> QED BY <2>1, <2>2, <2>3
  <1>2. \A n \in Nodes : /\ Cardinality(offered[n]) \in Nat
                         /\ Cardinality(offered'[n]) \in Nat
                         /\ Cardinality(offered[n]) <= Cardinality(offered'[n])
    BY <1>0, <1>1, NextStoresTyped, FS_Subset, FS_CardinalityType DEF StoresTyped
  <1> QED BY <1>2 DEF SomebodyFull

\* What came to a listener for a chunk stays there until it is stored.
LEMMA ReceivedIsStored ==
  ASSUME IInv, Next, faults' = 0, ~SomebodyFull, NEW n \in Nodes, NEW p \in Ports,
         socket[n][p] # None, socket[n][p].use \in Hashes, socket[n][p].data # None
  PROVE  \/ socket'[n][p] = socket[n][p]
         \/ kept'[n][socket[n][p].use] # None
  <1> USE Constants
  <1>0. TypeOK
    BY DEF IInv
  <1>1. CASE socket'[n][p] # None
    <2>1. Listens(n, p)
      BY SocketEffect DEF SocketsMove
    <2> QED BY <1>1, <2>1 DEF Listens, OpensUp, Fills
  <1>2. CASE socket'[n][p] = None
    <2> DEFINE s == socket[n][p]
    <2>0. ASSUME NEW m \in Nodes, NEW q \in Ports, Close(m, q)
          PROVE  m = n /\ q = p
      BY <1>0, <1>2, <2>0, Closed
    <2>1. ASSUME NEW m \in Nodes, NEW q \in Ports, NEW b \in BOOLEAN, HandleTcpUpload(m, q, b)
          PROVE  kept'[n][s.use] # None
      <3>1. m = n /\ q = p /\ Fault(b)
        BY <2>0, <2>1 DEF HandleTcpUpload
      <3>2. ~b
        BY <1>0, <3>1, NoFault
      <3>3. Cardinality(offered[n]) < MaxShards
        <4>1. Cardinality(offered[n]) \in Nat
          BY FS_CardinalityType DEF IInv
        <4> QED BY <4>1 DEF SomebodyFull
      <3>4. CASE kept[n][s.use] # None
        BY <3>4, KeptGrows
      <3>5. CASE kept[n][s.use] = None
        <4>1. Store(n)!MayPut(kept[n], offered[n], s.use)
          BY <3>3, <3>5, MayPutMeans
        <4>2. kept' = [kept EXCEPT ![n][s.use] = s.data]
          BY <2>1, <3>1, <3>2, <4>1 DEF HandleTcpUpload
        <4> HIDE DEF s
        <4>3. kept'[n][s.use] = s.data
          BY <1>0, <4>2 DEF TypeOK, s
        <4> QED BY <4>3 DEF s
      <3> QED BY <3>4, <3>5
    <2>2. ASSUME NEW m \in Nodes, NEW q \in Ports, AcceptTimesOut(m, q)
          PROVE  FALSE
      BY <2>0, <2>2 DEF AcceptTimesOut
    <2>3. ASSUME NEW m \in Nodes, NEW lost, Restart(m, lost)
          PROVE  FALSE
      <3>1. Fault(TRUE)
        BY <2>3 DEF Restart
      <3> QED BY <1>0, <3>1, NoFault
    <2>4. ASSUME NEW u \in Users, CommandStep(u)
          PROVE  FALSE
      <3>1. CASE UNCHANGED socket
        BY <1>2, <3>1
      <3>2. ASSUME NEW q \in Ports, Close(u, q), cmd[u].stage = "receive",
                   <<u, q>> \in cmd[u].ports
            PROVE  FALSE
        <4>1. socket[u][q].use = Download
          BY <3>2, ReceivedChunk
        <4> QED BY <2>0, <3>2, <4>1
      <3>3. ASSUME NEW reached \in SUBSET cmd[u].nodes, NEW answered,
                   NEW ps \in [reached -> Ports], GetPortsForNodes(u, reached, answered, ps)
            PROVE  FALSE
        <4>1. \A m \in Nodes, q \in Ports : socket[m][q] # None => socket'[m][q] = socket[m][q]
          BY <3>3, PortsOpened
        <4> QED BY <1>2, <4>1
      <3>4. ASSUME NEW sent, NEW cut, StoreChunk(u, sent, cut)
            PROVE  FALSE
        <4>1. PICK f : Connect(f) /\ \A a \in DOMAIN f : f[a] \in Contents
          BY <3>4, ChunkSent
        <4> QED BY <1>0, <1>2, <4>1, Connected
      <3>5. ASSUME NEW q \in Ports, SendGetValue(u, q)
            PROVE  FALSE
        <4>1. socket[u][q] = None /\ socket' = [socket EXCEPT ![u][q] = Listener(Download)]
          BY <3>5 DEF SendGetValue
        <4>2. \A m \in Nodes, x \in Ports : <<m, x>> # <<u, q>> => socket'[m][x] = socket[m][x]
          BY <1>0, <4>1 DEF TypeOK
        <4>3. <<n, p>> # <<u, q>>
          BY <4>1
        <4> QED BY <1>2, <4>2, <4>3
      <3>6. \/ UNCHANGED socket
            \/ \E reached \in SUBSET cmd[u].nodes : \E answered \in SUBSET reached :
                 \E ps \in [reached -> Ports] : GetPortsForNodes(u, reached, answered, ps)
            \/ \E sent \in SUBSET cmd[u].ports : \E cut \in SUBSET (cmd[u].ports \ sent) :
                 StoreChunk(u, sent, cut)
            \/ \E q \in Ports : SendGetValue(u, q)
            \/ \E q \in Ports : /\ Close(u, q) /\ cmd[u].stage = "receive"
                                /\ <<u, q>> \in cmd[u].ports
        BY <2>4 DEF CommandStep, GetNextChunkEncrypt, ResolveAlphaClosestNodes, FinishUpload,
               ReadOwnChunk, FindStorers, FindStorersFails, CreateOutput, ReceiveTimesOut,
               ReceiveData
      <3> QED BY <3>1, <3>2, <3>3, <3>4, <3>5, <3>6
    <2>5. ASSUME NEW r \in asked, NEW again, NEW broken, HandleGetValue(r, again, broken)
          PROVE  FALSE
      <3>1. CASE kept[r.to][r.hash] = None
        BY <1>2, <2>5, <3>1 DEF HandleGetValue
      <3>2. CASE kept[r.to][r.hash] # None
        <4>1. PICK f : Connect(f) /\ \A a \in DOMAIN f : f[a] \in Contents
          BY <2>5, <3>2, ValueSent
        <4> QED BY <1>0, <1>2, <4>1, Connected
      <3> QED BY <3>1, <3>2
    <2>6. CASE UNCHANGED socket
      BY <1>2, <2>6
    <2>7. \/ UNCHANGED socket
          \/ \E m \in Nodes, q \in Ports, b \in BOOLEAN : HandleTcpUpload(m, q, b)
          \/ \E m \in Nodes, q \in Ports : AcceptTimesOut(m, q)
          \/ \E m \in Nodes : \E lost \in SUBSET pending[m] : Restart(m, lost)
          \/ \E u \in Users : CommandStep(u)
          \/ \E r \in asked, again, broken \in BOOLEAN : HandleGetValue(r, again, broken)
      BY DEF Next, StartUpload, StartDownload, StoreStep, ValueStep, LoseGetValue, Flush
    <2> QED BY <2>1, <2>2, <2>3, <2>4, <2>5, <2>6, <2>7
  <1> QED BY <1>1, <1>2

LEMMA PresentNext ==
  ASSUME NEW k, NEW i, NEW h, NEW c, Hash(k, i)' = h, Seal(k, i)' = c,
         \/ \E n \in Nodes : kept'[n][h] # None
         \/ \E n \in Nodes, p \in Ports : socket'[n][p] = [use |-> h, data |-> c]
  PROVE  Present(k, i)'
  BY DEF Present, Somebody

LEMMA PresentStays ==
  ASSUME IInv, Next, faults' = 0, ~SomebodyFull, NEW k \in Begun, NEW i \in DOMAIN source[k],
         Present(k, i)
  PROVE  Present(k, i)'
  <1> USE Constants
  <1> DEFINE h == Hash(k, i)
             c == Seal(k, i)
  <1>1. h \in Hashes /\ c \in Contents
    BY SourceFacts DEF IInv
  <1>2. Hash(k, i)' = h /\ Seal(k, i)' = c
    BY UploadsGrow
  <1>3. \/ \E n \in Nodes : kept[n][h] # None
        \/ \E n \in Nodes, p \in Ports : socket[n][p] = [use |-> h, data |-> c]
    BY DEF Present, Somebody
  <1> HIDE DEF h, c
  <1>4. ASSUME NEW n \in Nodes, kept[n][h] # None
        PROVE  \E m \in Nodes : kept'[m][h] # None
    BY <1>1, <1>4, KeptGrows
  <1>5. ASSUME NEW n \in Nodes, NEW p \in Ports, socket[n][p] = [use |-> h, data |-> c]
        PROVE  \/ \E m \in Nodes : kept'[m][h] # None
               \/ \E m \in Nodes, q \in Ports : socket'[m][q] = [use |-> h, data |-> c]
    <2>1. [use |-> h, data |-> c] \in Listeners
      BY <1>1 DEF Listeners
    <2>2. /\ socket[n][p] # None /\ socket[n][p].use = h /\ socket[n][p].use \in Hashes
          /\ socket[n][p].data # None
      BY <1>1, <1>5, <2>1
    <2>3. socket'[n][p] = socket[n][p] \/ kept'[n][h] # None
      BY <2>2, ReceivedIsStored
    <2> QED BY <1>5, <2>3
  <1> QED BY <1>2, <1>3, <1>4, <1>5, PresentNext

\* When store_chunk reports success the chunk is with a listener that is there for it.
LEMMA SentIsPresent ==
  ASSUME IInv, Next, faults' = 0, NEW n \in Users, NEW sent, NEW cut,
         StoreChunk(n, sent, cut), sent # {},
         NEW k, NEW i, k = cmd[n].key, i = cmd[n].at
  PROVE  Present(k, i)'
  <1> USE Constants
  <1> DEFINE h == Hash(k, i)
             c == Seal(k, i)
  <1>1. cmd[n].stage = "send" /\ IsUploading(n) /\ sent \subseteq cmd[n].ports
    BY DEF StoreChunk, IsUploading
  <1>2. k \in Begun /\ i \in DOMAIN source[k]
    BY <1>1, UploadFacts
  <1>3. PICK a : a \in sent
    OBVIOUS
  <1>4. a \in Nodes \X Ports
    BY <1>1, <1>3, Types DEF IInv
  <1>5. socket[a[1]][a[2]] # None /\ socket[a[1]][a[2]] = Listener(h)
    BY <1>1, <1>3, PortsBefore DEF OwnPorts
  <1>6. PICK f : /\ Connect(f) /\ \A x \in DOMAIN f : f[x] \in Contents
                 /\ \A x \in sent : x \in DOMAIN f /\ f[x] = c
    BY ChunkSent
  <1>7. a[1] \in Nodes /\ a[2] \in Ports /\ <<a[1], a[2]>> = a
    BY <1>4
  <1> HIDE DEF c, h
  <1>8. socket[a[1]][a[2]].data = None /\ socket[a[1]][a[2]].use = h
    BY <1>5 DEF Listener
  <1>9. socket'[a[1]][a[2]] = [use |-> socket[a[1]][a[2]].use, data |-> f[<<a[1], a[2]>>]]
    BY <1>3, <1>5, <1>6, <1>7, <1>8, Connected DEF IInv
  <1>10. socket'[a[1]][a[2]] = [use |-> h, data |-> c]
    BY <1>3, <1>6, <1>7, <1>8, <1>9
  <1>11. Hash(k, i)' = h /\ Seal(k, i)' = c
    BY <1>2, UploadsGrow DEF h, c
  <1> QED BY <1>7, <1>10, <1>11, PresentNext

LEMMA NextPresent ==
  ASSUME IInv, Next, faults' = 0, ~SomebodyFull'
  PROVE  SentArePresent'
  <1> USE Constants
  <1>0. TypeOK /\ ~SomebodyFull /\ faults = 0
    BY NotFullBefore, NextFaultsTyped DEF IInv
  <1>1. SentArePresent
    BY <1>0 DEF IInv
  <1>2. \A k \in handles : k \in Begun
    BY DEF IInv, MetadataTrue
  <1>3. \A k \in handles : \A i \in DOMAIN source[k] : Present(k, i)'
    BY <1>0, <1>1, <1>2, PresentStays DEF SentArePresent
  \* What an uploading command has sent.
  <1>4. ASSUME NEW u \in Users, IsUploading(u), NEW k, k = cmd[u].key, NEW i \in 1 .. cmd[u].at,
               i # cmd[u].at \/ cmd[u].stage = "read"
        PROVE  Present(k, i)'
    <2>1. k \in Begun /\ cmd[u].at \in 0 .. Len(source[k])
      BY <1>4, UploadFacts
    <2>2. Len(source[k]) \in Nat /\ DOMAIN source[k] = 1 .. Len(source[k])
      BY <1>0, <2>1, SourceFacts
    <2>3. i \in DOMAIN source[k]
      BY <2>1, <2>2
    <2>4. Present(k, i)
      BY <1>1, <1>4 DEF SentArePresent
    <2> QED BY <1>0, <2>1, <2>3, <2>4, PresentStays
  <1>5. ASSUME NEW k \in handles', NEW i \in DOMAIN source'[k]
        PROVE  Present(k, i)'
    <2>1. CASE k \in handles
      BY <1>2, <1>3, <1>5, <2>1, UploadsGrow
    <2>2. CASE k \notin handles
      <3>1. PICK n \in Users : Finishes(n) /\ k = cmd[n].key
        BY <1>5, <2>2, Effect DEF Acts, Quiet, Stops, Begins, Reads, Moves, Finishes, Looks,
           Finds, Writes, Waits
      <3>2. /\ IsUploading(n) /\ cmd[n].stage = "read" /\ source' = source
            /\ cmd[n].at = Len(source[k])
        BY <3>1 DEF Finishes, IsUploading
      <3>3. k \in Begun
        BY <3>1, <3>2, UploadFacts
      <3>4. DOMAIN source[k] = 1 .. Len(source[k])
        BY <1>0, <3>3, SourceFacts
      <3>5. i \in 1 .. cmd[n].at
        BY <3>2, <3>4
      <3> QED BY <1>4, <3>1, <3>2, <3>5
    <2> QED BY <2>1, <2>2
  <1>6. ASSUME NEW u \in Users, IsUploading(u)', NEW i \in 1 .. cmd'[u].at,
               i # cmd'[u].at \/ cmd'[u].stage = "read", NEW k, k = cmd'[u].key
        PROVE  Present(k, i)'
    <2>0. cmd'[u].stage \in {"read", "store", "port", "send"}
      BY <1>6 DEF IsUploading
    <2>1. CASE cmd'[u] = cmd[u]
      <3>1. IsUploading(u)
        BY <2>0, <2>1 DEF IsUploading
      <3> QED BY <1>4, <1>6, <2>1, <3>1
    <2>2. CASE cmd'[u] # cmd[u]
      <3>1. Acts(u)
        BY <2>2, Effect DEF Alone
      <3>2. CASE Stops(u) \/ Finishes(u)
        BY <2>0, <3>2, IdleCommand DEF Stops, Finishes
      <3>3. CASE Begins(u)
        <4>1. cmd'[u].at = 0
          BY <3>3, NewCommand DEF Begins, Stages
        <4> QED BY <1>6, <4>1
      <3>4. CASE Reads(u)
        <4>1. /\ cmd[u].stage = "read" /\ IsUploading(u) /\ cmd'[u].key = cmd[u].key
              /\ cmd'[u].at = cmd[u].at + 1 /\ cmd'[u].stage = "store" /\ cmd[u].at \in Nat
          BY <1>0, <3>4, Types DEF Reads, IsUploading
        <4>2. i \in 1 .. cmd[u].at
          BY <1>6, <4>1
        <4> QED BY <1>4, <1>6, <4>1, <4>2
      <3>5. CASE Moves(u)
        <4>1. /\ IsUploading(u) /\ cmd'[u].key = cmd[u].key /\ cmd'[u].at = cmd[u].at
              /\ cmd'[u].stage = "read" => \E sent, cut : StoreChunk(u, sent, cut)
          BY <3>5 DEF Moves, IsUploading
        <4>2. CASE i # cmd[u].at
          BY <1>4, <1>6, <4>1, <4>2
        <4>3. CASE i = cmd[u].at
          <5>1. PICK sent, cut : StoreChunk(u, sent, cut)
            BY <1>6, <4>1, <4>3
          <5>2. sent # {}
            BY <1>0, <2>0, <5>1, ChunkStored, IdleCommand
          <5> QED BY <1>6, <4>1, <4>3, <5>1, <5>2, SentIsPresent
        <4> QED BY <4>2, <4>3
      <3>6. CASE Looks(u) \/ Finds(u) \/ Writes(u) \/ Waits(u)
        <4>1. cmd'[u].stage \in {"find", "fetch", "receive", "downloaded"}
          <5>1. CASE Looks(u)
            <6>1. PICK x \in handles : cmd'[u] = Command("find", x)
              BY <5>1 DEF Looks
            <6> QED BY <1>0, <6>1, NewCommand DEF Stages, TypeOK
          <5> QED BY <3>6, <5>1 DEF Finds, Writes, Waits
        <4> QED BY <2>0, <4>1
      <3> QED BY <3>1, <3>2, <3>3, <3>4, <3>5, <3>6 DEF Acts
    <2> QED BY <2>1, <2>2
  <1>7. ASSUME NEW u \in Users, IsUploading(u)', NEW i \in 1 .. cmd'[u].at,
               i # cmd'[u].at \/ cmd'[u].stage = "read"
        PROVE  Present(cmd[u].key, i)'
    BY <1>6, <1>7 DEF Present, Somebody, Hash, Seal
  <1> QED BY <1>5, <1>7 DEF SentArePresent

------------------------------------------------------------------------------
(* As long as nothing fails: what is where. *)

\* A node's store changes when it has received a chunk, and useless ports stay.
LEMMA StoresMove ==
  ASSUME IInv, Next, faults' = 0
  PROVE  /\ \/ UNCHANGED <<kept, offered>>
            \/ \E n \in Nodes, p \in Ports : HandleTcpUpload(n, p, FALSE)
         /\ \A n \in Nodes : left[n] \subseteq left'[n]
  <1> USE Constants
  <1>0. TypeOK /\ left \in [Nodes -> SUBSET Ports]
    BY DEF IInv, TypeOK
  <1>1. \/ UNCHANGED <<kept, offered, left>>
        \/ \E n \in Nodes, p \in Ports, b \in BOOLEAN : HandleTcpUpload(n, p, b)
        \/ \E n \in Nodes, p \in Ports : AcceptTimesOut(n, p)
        \/ \E n \in Nodes : \E h \in pending[n], b \in BOOLEAN : Flush(n, h, b)
        \/ \E n \in Nodes : \E lost \in SUBSET pending[n] : Restart(n, lost)
    BY CommandKeepsStores DEF Next, StartUpload, StartDownload, StoreStep, ValueStep,
           HandleGetValue, LoseGetValue, stores
  <1>2. ASSUME NEW n \in Nodes, NEW lost, Restart(n, lost) PROVE FALSE
    <2>1. Fault(TRUE)
      BY <1>2 DEF Restart
    <2> QED BY <1>0, <2>1, NoFault
  <1>3. ASSUME NEW n \in Nodes, NEW p \in Ports, NEW b \in BOOLEAN, HandleTcpUpload(n, p, b)
        PROVE  HandleTcpUpload(n, p, FALSE) /\ \A m \in Nodes : left[m] \subseteq left'[m]
    <2>1. Fault(b)
      BY <1>3 DEF HandleTcpUpload
    <2>2. ~b
      BY <1>0, <2>1, NoFault
    <2>3. b = FALSE
      BY <2>2
    <2>4. UNCHANGED left \/ left' = [left EXCEPT ![n] = @ \cup {p}]
      BY <1>3 DEF HandleTcpUpload
    <2>5. \A m \in Nodes : left[m] \subseteq left'[m]
      BY <1>0, <2>4
    <2> QED BY <1>3, <2>3, <2>5
  <1>4. ASSUME NEW n \in Nodes, NEW p \in Ports, AcceptTimesOut(n, p)
        PROVE  UNCHANGED <<kept, offered>> /\ \A m \in Nodes : left[m] \subseteq left'[m]
    <2>1. UNCHANGED <<kept, offered>> /\ left' = [left EXCEPT ![n] = @ \cup {p}]
      BY <1>4 DEF AcceptTimesOut
    <2> QED BY <1>0, <2>1
  <1>5. ASSUME NEW n \in Nodes, NEW h, NEW b, Flush(n, h, b)
        PROVE  UNCHANGED <<kept, offered, left>>
    <2>1. Fault(b)
      BY <1>5 DEF Flush
    <2>2. ~b
      BY <1>0, <2>1, NoFault
    <2> QED BY <1>5, <2>2 DEF Flush
  <1> QED BY <1>1, <1>2, <1>3, <1>4, <1>5

\* What a node does with a chunk it has received.
Puts(n, h, c) ==
    /\ \A m \in Nodes, x \in Hashes :
         kept'[m][x] = IF m = n /\ x = h THEN c ELSE kept[m][x]
    /\ \A m \in Nodes : offered'[m] = IF m = n THEN offered[n] \cup {h} ELSE offered[m]

LEMMA ChunkPut ==
  ASSUME IInv, NEW n \in Nodes, NEW p \in Ports, HandleTcpUpload(n, p, FALSE),
         NEW s, s = socket[n][p]
  PROVE  /\ s # None /\ s.use \in Hashes /\ s.data \in Contents
         /\ UNCHANGED <<kept, offered>> \/ Puts(n, s.use, s.data)
  <1> USE Constants
  <1>1. s # None /\ s.use # Download /\ s.data # None
    BY DEF HandleTcpUpload
  <1>2. s \in Listeners
    BY <1>1, Types DEF IInv
  <1>3. s.use \in Hashes /\ s.data \in Contents
    BY <1>1, <1>2 DEF Listeners
  <1>4. \/ UNCHANGED <<kept, offered>>
        \/ /\ kept' = [kept EXCEPT ![n][s.use] = s.data]
           /\ offered' = [offered EXCEPT ![n] = @ \cup {s.use}]
    BY DEF HandleTcpUpload
  <1>5. /\ kept \in [Nodes -> [Hashes -> Contents \cup {None}]]
        /\ offered \in [Nodes -> SUBSET Hashes]
    BY DEF IInv, TypeOK
  <1>6. ASSUME kept' = [kept EXCEPT ![n][s.use] = s.data],
               offered' = [offered EXCEPT ![n] = @ \cup {s.use}]
        PROVE  Puts(n, s.use, s.data)
    BY <1>3, <1>5, <1>6 DEF Puts
  <1> QED BY <1>1, <1>3, <1>4, <1>6

\* What is in a store was there, or with a listener for that hash.
LEMMA KeptCameIn ==
  ASSUME IInv, Next, faults' = 0, NEW n \in Nodes, NEW h \in Hashes, kept'[n][h] # None
  PROVE  \/ kept'[n][h] = kept[n][h]
         \/ \E p \in Ports : /\ socket[n][p] # None /\ socket[n][p].use = h
                             /\ socket[n][p].data = kept'[n][h]
  <1>1. ASSUME NEW m \in Nodes, NEW p \in Ports, HandleTcpUpload(m, p, FALSE)
        PROVE  \/ kept'[n][h] = kept[n][h]
               \/ /\ m = n /\ socket[n][p] # None /\ socket[n][p].use = h
                  /\ socket[n][p].data = kept'[n][h]
    <2>1. PICK s : s = socket[m][p]
      OBVIOUS
    <2>2. /\ s # None
          /\ UNCHANGED <<kept, offered>> \/ Puts(m, s.use, s.data)
      BY <1>1, <2>1, ChunkPut
    <2> QED BY <2>1, <2>2 DEF Puts
  <1> QED BY <1>1, StoresMove

\* What a node offers is in its store.
LEMMA OfferedIsKept ==
  ASSUME IInv, Next, faults' = 0, NEW n \in Nodes, NEW h \in offered'[n]
  PROVE  kept'[n][h] # None
  <1> USE Constants
  <1>0. faults = 0 /\ TypeOK /\ h \in Hashes
    BY NextFaultsTyped, NextStoresTyped DEF IInv, StoresTyped
  <1>1. CASE h \in offered[n]
    <2>1. kept[n][h] # None
      BY <1>0, <1>1 DEF IInv, Filed
    <2> QED BY <1>0, <2>1, KeptGrows
  <1>2. CASE h \notin offered[n]
    <2>1. PICK m \in Nodes, p \in Ports : HandleTcpUpload(m, p, FALSE)
      BY <1>2, StoresMove
    <2>2. PICK s : s = socket[m][p]
      OBVIOUS
    <2>3. /\ s.use \in Hashes /\ s.data \in Contents
          /\ UNCHANGED <<kept, offered>> \/ Puts(m, s.use, s.data)
      BY <2>1, <2>2, ChunkPut
    <2>4. m = n /\ h = s.use /\ kept'[n][h] = s.data
      BY <1>0, <1>2, <2>3 DEF Puts
    <2> QED BY <2>3, <2>4
  <1> QED BY <1>1, <1>2

\* store_chunk reaches all its ports, and they are there for the chunk.
LEMMA SentToAll ==
  ASSUME IInv, Next, faults' = 0, NEW u \in Users, NEW sent, NEW cut, StoreChunk(u, sent, cut)
  PROVE  /\ cmd[u].stage = "send" /\ cmd[u].ports # {}
         /\ \A m \in Nodes, q \in Ports :
              socket'[m][q] =
                 IF <<m, q>> \in cmd[u].ports
                 THEN [use |-> Hash(cmd[u].key, cmd[u].at),
                       data |-> Seal(cmd[u].key, cmd[u].at)]
                 ELSE socket[m][q]
  <1> USE Constants
  <1> DEFINE live == {a \in cmd[u].ports : socket[a[1]][a[2]] # None}
             h == Hash(cmd[u].key, cmd[u].at)
             c == Seal(cmd[u].key, cmd[u].at)
  <1>0. TypeOK /\ cmd[u].stage = "send" /\ OwnPorts(u)
    BY PortsBefore DEF IInv, StoreChunk
  <1>1. live = cmd[u].ports /\ cmd[u].ports # {}
    BY <1>0 DEF OwnPorts
  <1>2. /\ Fault(sent # live) /\ sent \subseteq live /\ cut \subseteq live \ sent
    BY DEF StoreChunk
  <1>3. ~(sent # live)
    BY <1>0, <1>2, NoFault
  <1>4. sent = cmd[u].ports /\ cut = {}
    BY <1>1, <1>2, <1>3
  <1> HIDE DEF live, c, h
  <1>5. PICK f : /\ Connect(f)
                 /\ \A a \in DOMAIN f : (a \in sent \/ a \in cut) /\ f[a] \in Contents
                 /\ \A a \in sent : a \in DOMAIN f /\ f[a] = c
    BY ChunkSent DEF c
  <1>a. \A m \in Nodes, q \in Ports :
          /\ <<m, q>> \notin DOMAIN f => socket'[m][q] = socket[m][q]
          /\ socket[m][q] # None /\ socket[m][q].data = None /\ <<m, q>> \in DOMAIN f =>
               socket'[m][q] = [use |-> socket[m][q].use, data |-> f[<<m, q>>]]
    <2> HIDE Constants
    <2>1. \A a \in DOMAIN f : f[a] \in Contents
      BY <1>5
    <2> QED BY ZenonT(30), <1>0, <1>5, <2>1, Connected
  <1>6. ASSUME NEW m \in Nodes, NEW q \in Ports
        PROVE  socket'[m][q] = IF <<m, q>> \in cmd[u].ports THEN [use |-> h, data |-> c]
                               ELSE socket[m][q]
    <2>1. CASE <<m, q>> \in cmd[u].ports
      <3>1. socket[m][q] # None /\ socket[m][q] = Listener(h)
        BY <1>0, <2>1 DEF OwnPorts, h
      <3>2. socket[m][q].data = None /\ socket[m][q].use = h
        BY <3>1 DEF Listener
      <3>3. <<m, q>> \in DOMAIN f /\ f[<<m, q>>] = c
        BY <1>4, <1>5, <2>1
      <3>4. socket'[m][q] = [use |-> socket[m][q].use, data |-> f[<<m, q>>]]
        BY <1>a, <3>1, <3>2, <3>3
      <3> QED BY <2>1, <3>2, <3>3, <3>4
    <2>2. CASE <<m, q>> \notin cmd[u].ports
      <3>1. <<m, q>> \notin DOMAIN f
        BY <1>4, <1>5, <2>2
      <3>2. socket'[m][q] = socket[m][q]
        BY <1>a, <3>1
      <3> QED BY <2>2, <3>2
    <2> QED BY <2>1, <2>2
  <1> QED BY <1>0, <1>1, <1>6 DEF h, c

\* handle_get_value brings what is in a store, or a part of it, to a waiting download.
Fetched(m, q, c) ==
    \/ socket'[m][q] = [use |-> Download, data |-> c]
    \/ socket'[m][q] = [use |-> Download, data |-> Cut(c)]

LEMMA ValueToDownload ==
  ASSUME IInv, Next, faults' = 0, NEW r \in asked, NEW again \in BOOLEAN, NEW broken \in BOOLEAN,
         HandleGetValue(r, again, broken), NEW m \in Nodes, NEW q \in Ports,
         socket'[m][q] # socket[m][q]
  PROVE  \E n \in Nodes, h \in Hashes : kept[n][h] # None /\ Fetched(m, q, kept[n][h])
  <1> USE Constants
  <1>0. TypeOK /\ AskedOnce
    BY PortsBefore DEF IInv
  <1>1. r.to \in Nodes /\ r.from \in Users /\ r.port \in Ports /\ r.hash \in Hashes
    BY <1>0 DEF TypeOK
  <1>2. kept[r.to][r.hash] # None
    BY DEF HandleGetValue
  <1>3. PICK f : /\ Connect(f) /\ DOMAIN f = {<<r.from, r.port>>}
                 /\ \A a \in DOMAIN f : f[a] \in Contents
                 /\ \/ f[<<r.from, r.port>>] = kept[r.to][r.hash]
                    \/ f[<<r.from, r.port>>] = Cut(kept[r.to][r.hash])
    <2> DEFINE c == ReadChunk(r.to, r.hash)
               f == [a \in {<<r.from, r.port>>} |-> IF broken THEN Cut(c) ELSE c]
    <2>1. Fault(again \/ broken) /\ Connect(f)
      BY <1>2 DEF HandleGetValue
    <2>2. ~broken
      BY <1>0, <2>1, NoFault
    <2>3. /\ c \in Contents
          /\ c = kept[r.to][r.hash] \/ c = Cut(kept[r.to][r.hash])
      BY <1>1, <1>2, ChunkIsRead
    <2> HIDE DEF c
    <2>4. DOMAIN f = {<<r.from, r.port>>} /\ f[<<r.from, r.port>>] = c
      BY <2>2
    <2> HIDE DEF f
    <2>5. \A a \in DOMAIN f : f[a] \in Contents
      BY <2>3, <2>4
    <2>6. \/ f[<<r.from, r.port>>] = kept[r.to][r.hash]
          \/ f[<<r.from, r.port>>] = Cut(kept[r.to][r.hash])
      BY <2>3, <2>4
    <2> QED BY <2>1, <2>4, <2>5, <2>6
  <1>4. /\ socket[r.from][r.port] # None /\ socket[r.from][r.port].use = Download
        /\ socket[r.from][r.port].data = None
    <2> HIDE Constants
    <2> QED BY <1>0, <1>1, ReceivedChunk DEF AskedOnce
  <1>5. <<m, q>> \in DOMAIN f
    BY <1>0, <1>3, Connected
  <1>6. m = r.from /\ q = r.port
    BY <1>3, <1>5
  <1>7. socket'[m][q] = [use |-> socket[m][q].use, data |-> f[<<m, q>>]]
    BY <1>0, <1>3, <1>4, <1>5, <1>6, Connected
  <1>8. Fetched(m, q, kept[r.to][r.hash])
    BY <1>3, <1>4, <1>6, <1>7 DEF Fetched
  <1> QED BY <1>1, <1>2, <1>8

\* What is with a listener was there, or it was brought: by store_chunk, to a port of
\* its own, or by handle_get_value, to a download.
IsSending(u, k, i) ==
    \E sent, cut : StoreChunk(u, sent, cut) /\ k = cmd[u].key /\ i = cmd[u].at

Brought(n, p) ==
    \/ \E u \in Users : \E k, i :
         /\ IsSending(u, k, i)
         /\ socket'[n][p] = [use |-> Hash(k, i), data |-> Seal(k, i)]
    \/ \E m \in Nodes, h \in Hashes : kept[m][h] # None /\ Fetched(n, p, kept[m][h])

LEMMA DataCameIn ==
  ASSUME IInv, Next, faults' = 0, NEW n \in Nodes, NEW p \in Ports,
         socket'[n][p] # socket[n][p], socket'[n][p] # None, socket'[n][p].data # None
  PROVE  Brought(n, p)
  <1> USE Constants
  <1>0. TypeOK
    BY DEF IInv
  <1>1. ASSUME NEW m \in Nodes, NEW q \in Ports, Close(m, q)
        PROVE  FALSE
    BY <1>0, <1>1, Closed
  <1>2. ASSUME NEW h, socket'[n][p] = Listener(h)
        PROVE  FALSE
    BY <1>2 DEF Listener
  <1>3. ASSUME NEW u \in Users, NEW sent, NEW cut, StoreChunk(u, sent, cut)
        PROVE  Brought(n, p)
    <2>1. PICK k, i : k = cmd[u].key /\ i = cmd[u].at
      OBVIOUS
    <2>2. socket'[n][p] = IF <<n, p>> \in cmd[u].ports
                          THEN [use |-> Hash(k, i), data |-> Seal(k, i)]
                          ELSE socket[n][p]
      BY <1>3, <2>1, SentToAll
    <2>3. socket'[n][p] = [use |-> Hash(k, i), data |-> Seal(k, i)]
      BY <2>2
    <2>4. IsSending(u, k, i)
      BY <1>3, <2>1 DEF IsSending
    <2> QED BY <2>3, <2>4 DEF Brought
  <1>4. ASSUME NEW r \in asked, NEW again \in BOOLEAN, NEW broken \in BOOLEAN,
               HandleGetValue(r, again, broken)
        PROVE  Brought(n, p)
    BY <1>4, ValueToDownload DEF Brought
  <1>5. ASSUME NEW u \in Users, NEW reached \in SUBSET cmd[u].nodes, NEW answered,
               NEW ps \in [reached -> Ports], GetPortsForNodes(u, reached, answered, ps)
        PROVE  FALSE
    <2>1. socket'[n][p] = Listener(Hash(cmd[u].key, cmd[u].at))
      BY <1>5, PortsOpened
    <2> QED BY <1>2, <2>1
  <1>6. ASSUME NEW u \in Users, NEW q \in Ports, SendGetValue(u, q)
        PROVE  FALSE
    <2>1. socket' = [socket EXCEPT ![u][q] = Listener(Download)]
      BY <1>6 DEF SendGetValue
    <2>2. socket'[n][p] = Listener(Download)
      BY <1>0, <2>1 DEF TypeOK
    <2> QED BY <1>2, <2>2
  <1>7. ASSUME NEW m \in Nodes, NEW lost, Restart(m, lost)
        PROVE  FALSE
    <2>1. Fault(TRUE)
      BY <1>7 DEF Restart
    <2> QED BY <1>0, <2>1, NoFault
  <1>8. ASSUME NEW u \in Users, CommandStep(u)
        PROVE  Brought(n, p)
    <2>1. \/ UNCHANGED socket
          \/ \E reached \in SUBSET cmd[u].nodes : \E answered \in SUBSET reached :
               \E ps \in [reached -> Ports] : GetPortsForNodes(u, reached, answered, ps)
          \/ \E sent \in SUBSET cmd[u].ports : \E cut \in SUBSET (cmd[u].ports \ sent) :
               StoreChunk(u, sent, cut)
          \/ \E q \in Ports : SendGetValue(u, q)
          \/ \E q \in Ports : Close(u, q)
      BY <1>8 DEF CommandStep, GetNextChunkEncrypt, ResolveAlphaClosestNodes, FinishUpload,
             ReadOwnChunk, FindStorers, FindStorersFails, CreateOutput, ReceiveTimesOut,
             ReceiveData
    <2> QED BY <1>1, <1>3, <1>5, <1>6, <2>1
  <1>9. \/ UNCHANGED socket
        \/ \E m \in Nodes, q \in Ports : Close(m, q)
        \/ \E m \in Nodes : \E lost \in SUBSET pending[m] : Restart(m, lost)
        \/ \E u \in Users : CommandStep(u)
        \/ \E r \in asked, again, broken \in BOOLEAN : HandleGetValue(r, again, broken)
    BY DEF Next, StartUpload, StartDownload, StoreStep, ValueStep, LoseGetValue,
           HandleTcpUpload, AcceptTimesOut, Flush
  <1> QED BY <1>1, <1>4, <1>7, <1>8, <1>9

\* The chunk store_chunk sends is a block of the upload's file.
LEMMA SendingFacts ==
  ASSUME IInv, NEW u \in Users, NEW k, NEW i, IsSending(u, k, i)
  PROVE  /\ IsUploading(u) /\ cmd[u].stage = "send" /\ k = cmd[u].key /\ i = cmd[u].at
         /\ k \in Begun /\ i \in DOMAIN source[k]
         /\ Hash(k, i) \in Hashes /\ Seal(k, i) \in Contents
  <1>1. IsUploading(u) /\ cmd[u].stage = "send" /\ k = cmd[u].key /\ i = cmd[u].at
    BY DEF IsSending, StoreChunk, IsUploading
  <1>2. k \in Begun /\ i \in DOMAIN source[k]
    BY <1>1, UploadFacts
  <1> QED BY <1>1, <1>2, SourceFacts DEF IInv

\* What is said of a ciphertext when nothing has failed.
LEMMA FiledFacts ==
  ASSUME IInv, faults = 0
  PROVE  /\ \A n \in Nodes, h \in Hashes : kept[n][h] # None =>
              /\ kept[n][h] \in Contents /\ Authentic(kept[n][h]) /\ Sealed(kept[n][h])
              /\ Hash(kept[n][h].key, kept[n][h].nonce) = h
         /\ \A n \in Nodes, p \in Ports : socket[n][p] # None /\ socket[n][p].data # None =>
              /\ socket[n][p] \in Listeners
              /\ socket[n][p].data \in Contents /\ Authentic(socket[n][p].data)
              /\ socket[n][p].use # Download =>
                   /\ Sealed(socket[n][p].data)
                   /\ socket[n][p].use = Hash(socket[n][p].data.key, socket[n][p].data.nonce)
         /\ \A n \in Nodes : \A h \in offered[n] : h \in Hashes /\ kept[n][h] # None
  <1> USE Constants
  <1>0. Filed /\ TypeOK /\ ContentsAuthentic
    BY DEF IInv
  <1>1. ASSUME NEW n \in Nodes, NEW h \in Hashes, kept[n][h] # None
        PROVE  /\ kept[n][h] \in Contents /\ Authentic(kept[n][h]) /\ Sealed(kept[n][h])
               /\ Hash(kept[n][h].key, kept[n][h].nonce) = h
    BY <1>0, <1>1 DEF TypeOK, ContentsAuthentic, Filed
  <1>2. ASSUME NEW n \in Nodes, NEW p \in Ports, socket[n][p] # None, socket[n][p].data # None
        PROVE  /\ socket[n][p] \in Listeners
               /\ socket[n][p].data \in Contents /\ Authentic(socket[n][p].data)
               /\ socket[n][p].use # Download =>
                    /\ Sealed(socket[n][p].data)
                    /\ socket[n][p].use = Hash(socket[n][p].data.key, socket[n][p].data.nonce)
    <2>1. socket[n][p] \in Listeners
      BY <1>0, <1>2, Types
    <2>2. socket[n][p].data \in Contents
      BY <1>2, <2>1 DEF Listeners
    <2>3. Authentic(socket[n][p].data)
      BY <1>0, <1>2 DEF ContentsAuthentic
    <2>4. socket[n][p].use # Download =>
            /\ Sealed(socket[n][p].data)
            /\ socket[n][p].use = Hash(socket[n][p].data.key, socket[n][p].data.nonce)
      BY <1>0, <1>2 DEF Filed
    <2> QED BY <2>1, <2>2, <2>3, <2>4
  <1>3. \A n \in Nodes : \A h \in offered[n] : h \in Hashes /\ kept[n][h] # None
    BY <1>0 DEF TypeOK, Filed
  <1> QED BY <1>1, <1>2, <1>3

\* A chunk that was not there has just been sent.
LEMMA KeptBefore ==
  ASSUME IInv, Next, faults' = 0, NEW n \in Nodes, NEW h \in Hashes, NEW c,
         c = kept'[n][h], c # None
  PROVE  /\ There(c.key, c.nonce) /\ c \in Contents /\ Authentic(c) /\ Sealed(c)
         /\ Hash(c.key, c.nonce) = h
         /\ \/ kept[n][h] = c
            \/ \E p \in Ports : socket[n][p] = [use |-> h, data |-> c]
  <1> USE Constants
  <1>0. faults = 0
    BY PortsBefore
  <1>1. CASE c = kept[n][h]
    BY <1>0, <1>1, FiledFacts DEF There, IsPart
  <1>2. ASSUME NEW p \in Ports, socket[n][p] # None, socket[n][p].use = h,
               socket[n][p].data = c
        PROVE  /\ There(c.key, c.nonce) /\ c \in Contents /\ Authentic(c) /\ Sealed(c)
               /\ Hash(c.key, c.nonce) = h
               /\ socket[n][p] = [use |-> h, data |-> c]
    <2>1. There(c.key, c.nonce)
      BY <1>2 DEF There, IsPart
    <2>2. /\ socket[n][p] \in Listeners /\ c \in Contents /\ Authentic(c)
          /\ h # Download => Sealed(c) /\ h = Hash(c.key, c.nonce)
      BY <1>0, <1>2, FiledFacts
    <2>3. h # Download
      OBVIOUS
    <2>4. socket[n][p] = [use |-> socket[n][p].use, data |-> socket[n][p].data]
      BY <2>2 DEF Listeners
    <2>5. socket[n][p] = [use |-> h, data |-> c]
      BY <1>2, <2>4
    <2> QED BY <2>1, <2>2, <2>3, <2>5
  <1> QED BY <1>1, <1>2, KeptCameIn

LEMMA ArrivedBefore ==
  ASSUME IInv, Next, faults' = 0, NEW n \in Nodes, NEW p \in Ports, NEW c,
         socket'[n][p] # None, c = socket'[n][p].data, c # None
  PROVE  /\ \/ There(c.key, c.nonce)
            \/ \E u \in Users : \E k, i : IsSending(u, k, i) /\ c = Seal(k, i)
         /\ c \in Contents /\ Authentic(c)
         /\ socket'[n][p].use # Download =>
              Sealed(c) /\ socket'[n][p].use = Hash(c.key, c.nonce)
  <1> USE Constants
  <1>0. faults = 0
    BY PortsBefore
  <1>1. CASE socket'[n][p] = socket[n][p]
    <2>1. There(c.key, c.nonce)
      BY <1>1 DEF There, IsPart
    <2> QED BY <1>0, <1>1, <2>1, FiledFacts
  <1>2. ASSUME NEW u \in Users, NEW k, NEW i, IsSending(u, k, i),
               socket'[n][p] = [use |-> Hash(k, i), data |-> Seal(k, i)]
        PROVE  /\ c = Seal(k, i) /\ c \in Contents /\ Authentic(c) /\ Sealed(c)
               /\ socket'[n][p].use = Hash(c.key, c.nonce)
    <2>1. k \in Begun /\ i \in DOMAIN source[k] /\ Seal(k, i) \in Contents
      BY <1>2, SendingFacts
    <2>2. c = Seal(k, i) /\ socket'[n][p].use = Hash(k, i)
      BY <1>2
    <2>3. c.key = k /\ c.nonce = i /\ c.plain = source[k][i]
      BY <2>2 DEF Seal
    <2>4. Authentic(c) /\ Sealed(c)
      BY <2>1, <2>2, <2>3 DEF Authentic, Sealed
    <2> QED BY <2>1, <2>2, <2>3, <2>4
  <1>3. ASSUME NEW m \in Nodes, NEW h \in Hashes, kept[m][h] # None, Fetched(n, p, kept[m][h])
        PROVE  /\ There(c.key, c.nonce) /\ c \in Contents /\ Authentic(c)
               /\ socket'[n][p].use = Download
    <2>1. c = kept[m][h] \/ c = Cut(kept[m][h])
      BY <1>3 DEF Fetched
    <2>2. socket'[n][p].use = Download
      BY <1>3 DEF Fetched
    <2>3. /\ c \in Contents /\ Authentic(c)
          /\ c.key = kept[m][h].key /\ c.nonce = kept[m][h].nonce
      BY <1>3, <2>1, ChunkIsRead
    <2>4. There(c.key, c.nonce)
      BY <1>3, <2>3 DEF There, IsPart
    <2> QED BY <2>2, <2>3, <2>4
  <1>4. CASE socket'[n][p] # socket[n][p]
    <2>1. Brought(n, p)
      BY <1>4, DataCameIn
    <2>2. CASE \E u \in Users : \E k, i :
                  /\ IsSending(u, k, i)
                  /\ socket'[n][p] = [use |-> Hash(k, i), data |-> Seal(k, i)]
      BY <1>2, <2>2
    <2>3. CASE \E m \in Nodes, h \in Hashes : kept[m][h] # None /\ Fetched(n, p, kept[m][h])
      BY <1>3, <2>3
    <2> QED BY <2>1, <2>2, <2>3 DEF Brought
  <1> QED BY <1>1, <1>4

LEMMA NextFiled ==
  ASSUME IInv, Next, faults' = 0
  PROVE  Filed'
  <1> USE Constants
  <1>1. ASSUME NEW c, Authentic(c), Sealed(c)
        PROVE  /\ Sealed(c)'
               /\ Hash(c.key, c.nonce)' = Hash(c.key, c.nonce)
    BY <1>1, UploadsGrow DEF Authentic, Sealed
  <1>2. ASSUME NEW n \in Nodes, NEW h \in Hashes, kept'[n][h] # None
        PROVE  (Sealed(kept[n][h]) /\ Hash(kept[n][h].key, kept[n][h].nonce) = h)'
    <2>1. PICK c : c = kept'[n][h]
      OBVIOUS
    <2>a. Authentic(c) /\ Sealed(c) /\ Hash(c.key, c.nonce) = h
      <3> HIDE Constants
      <3>1. c # None
        BY <1>2, <2>1
      <3> QED BY ZenonT(30), <2>1, <3>1, KeptBefore
    <2>2. Sealed(c)' /\ Hash(c.key, c.nonce)' = h
      BY <1>1, <2>a
    <2> QED BY <2>1, <2>2 DEF Sealed, Seal, Hash
  <1>3. ASSUME NEW n \in Nodes, NEW p \in Ports, socket'[n][p] # None,
               socket'[n][p].data # None, socket'[n][p].use # Download
        PROVE  (LET c == socket[n][p].data IN
                Sealed(c) /\ socket[n][p].use = Hash(c.key, c.nonce))'
    <2>1. PICK c : c = socket'[n][p].data
      OBVIOUS
    <2>2. Authentic(c) /\ Sealed(c) /\ socket'[n][p].use = Hash(c.key, c.nonce)
      BY <1>3, <2>1, ArrivedBefore
    <2>3. Sealed(c)' /\ socket'[n][p].use = Hash(c.key, c.nonce)'
      BY <1>1, <2>2
    <2> QED BY <2>1, <2>3 DEF Sealed, Seal, Hash
  <1>4. \A n \in Nodes : \A h \in offered'[n] : kept'[n][h] # None
    BY OfferedIsKept
  <1> QED BY <1>2, <1>3, <1>4 DEF Filed

\* What is there is the ciphertext of a block of an upload that has begun.
LEMMA ThereFacts ==
  ASSUME IInv, NEW k, NEW i, There(k, i)
  PROVE  k \in Begun
  BY DEF There, IsPart, IInv, ContentsAuthentic, Authentic

LEMMA ThereBefore ==
  ASSUME IInv, Next, faults' = 0, NEW k, NEW i, There(k, i)'
  PROVE  There(k, i) \/ \E u \in Users : IsSending(u, k, i)
  <1>1. ASSUME NEW n \in Nodes, NEW h \in Hashes, kept'[n][h] # None,
               kept'[n][h].key = k, kept'[n][h].nonce = i
        PROVE  There(k, i)
    <2>1. PICK c : c = kept'[n][h]
      OBVIOUS
    <2> QED BY <1>1, <2>1, KeptBefore
  <1>2. ASSUME NEW n \in Nodes, NEW p \in Ports, socket'[n][p] # None,
               socket'[n][p].data # None,
               socket'[n][p].data.key = k, socket'[n][p].data.nonce = i
        PROVE  There(k, i) \/ \E u \in Users : IsSending(u, k, i)
    <2>1. PICK c : c = socket'[n][p].data
      OBVIOUS
    <2>2. \/ There(c.key, c.nonce)
          \/ \E u \in Users : \E j, x : IsSending(u, j, x) /\ c = Seal(j, x)
      BY <1>2, <2>1, ArrivedBefore
    <2>3. ASSUME NEW u \in Users, NEW j, NEW x, IsSending(u, j, x), c = Seal(j, x)
          PROVE  IsSending(u, k, i)
      <3>1. c.key = j /\ c.nonce = x
        BY <2>3 DEF Seal
      <3> QED BY <1>2, <2>1, <2>3, <3>1
    <2> QED BY <1>2, <2>1, <2>2, <2>3
  <1>3. \/ \E n \in Nodes, h \in Hashes :
             kept'[n][h] # None /\ kept'[n][h].key = k /\ kept'[n][h].nonce = i
        \/ \E n \in Nodes, p \in Ports :
             /\ socket'[n][p] # None /\ socket'[n][p].data # None
             /\ socket'[n][p].data.key = k /\ socket'[n][p].data.nonce = i
    BY DEF There, IsPart
  <1> QED BY <1>1, <1>2, <1>3

\* What a command may be about to do when it uploads after a step.
LEMMA UploadMoves ==
  ASSUME IInv, Next, NEW n \in Users, IsUploading(n)'
  PROVE  \/ cmd'[n] = cmd[n] /\ IsUploading(n)
         \/ Begins(n)
         \/ Reads(n) /\ IsUploading(n)
         \/ Moves(n) /\ IsUploading(n)
  <1>0. cmd'[n].stage \in {"read", "store", "port", "send"}
    BY DEF IsUploading
  <1>1. CASE cmd'[n] = cmd[n]
    BY <1>0, <1>1 DEF IsUploading
  <1>2. CASE cmd'[n] # cmd[n]
    <2>1. Acts(n)
      BY <1>2, Effect DEF Alone
    <2>2. CASE Stops(n) \/ Finishes(n)
      BY <1>0, <2>2, IdleCommand DEF Stops, Finishes
    <2>3. CASE Looks(n)
      <3>1. PICK x \in handles : cmd'[n] = Command("find", x)
        BY <2>3 DEF Looks
      <3>2. cmd'[n].stage = "find"
        BY <3>1 DEF Command
      <3> QED BY <1>0, <3>2
    <2>4. CASE Finds(n) \/ Writes(n) \/ Waits(n)
      BY <1>0, <2>4 DEF Finds, Writes, Waits
    <2>5. CASE Reads(n) \/ Moves(n)
      BY <2>5 DEF Reads, Moves, IsUploading
    <2> QED BY <2>1, <2>2, <2>3, <2>4, <2>5 DEF Acts
  <1> QED BY <1>1, <1>2

\* The chunk being sent is the one its command is at, and no other command's.
LEMMA SenderAlone ==
  ASSUME IInv, NEW n \in Users, IsUploading(n), NEW u \in Users, NEW k, NEW i,
         k = cmd[n].key, IsSending(u, k, i)
  PROVE  u = n /\ cmd[n].stage = "send" /\ i = cmd[n].at
  <1>1. /\ IsUploading(u) /\ cmd[u].stage = "send" /\ cmd[n].key = cmd[u].key
        /\ i = cmd[u].at
    BY DEF IsSending, StoreChunk, IsUploading
  <1>2. u = n
    BY <1>1 DEF IInv, UploadersApart
  <1> QED BY <1>1, <1>2

LEMMA NextUnsent ==
  ASSUME IInv, Next, faults' = 0
  PROVE  NothingSentAhead'
  <1> USE Constants
  <1>0. TypeOK /\ faults = 0 /\ NothingSentAhead
    BY PortsBefore DEF IInv
  <1> SUFFICES ASSUME NEW n \in Users, IsUploading(n)', NEW i \in Indices,
                      NEW k, k = cmd'[n].key, There(k, i)'
               PROVE  HasSent(n, i)'
    BY DEF NothingSentAhead, There, IsPart
  <1>1. i \in Nat /\ cmd[n].at \in Nat
    BY <1>0, Types DEF Indices
  <1>2. ASSUME IsUploading(n), There(k, i), k = cmd[n].key
        PROVE  i < cmd[n].at \/ (i = cmd[n].at /\ cmd[n].stage = "read")
    BY <1>0, <1>2 DEF NothingSentAhead, HasSent
  <1>3. ASSUME IsUploading(n), ~There(k, i), k = cmd[n].key
        PROVE  /\ cmd[n].stage = "send" /\ i = cmd[n].at
               /\ cmd'[n] = Idle \/ cmd'[n].stage = "read"
    <2>1. PICK u \in Users : IsSending(u, k, i)
      BY <1>3, ThereBefore
    <2>2. u = n /\ cmd[n].stage = "send" /\ i = cmd[n].at
      BY <1>3, <2>1, SenderAlone
    <2>3. PICK sent, cut : StoreChunk(n, sent, cut)
      BY <2>1, <2>2 DEF IsSending
    <2>4. cmd'[n] = Idle \/ cmd'[n].stage = "read"
      BY <2>3, ChunkStored
    <2> QED BY <2>2, <2>4
  <1>4. cmd'[n].stage # "idle"
    BY DEF IsUploading
  <1>5. CASE cmd'[n] = cmd[n] /\ IsUploading(n)
    BY <1>2, <1>3, <1>4, <1>5, IdleCommand DEF HasSent
  <1>6. CASE Begins(n)
    <2>1. PICK j \in Uploads \ Begun : cmd'[n] = Command("read", j)
      BY <1>6 DEF Begins
    <2>2. k = j
      BY <2>1 DEF Command
    <2>3. CASE There(k, i)
      BY <2>1, <2>2, <2>3, ThereFacts
    <2>4. CASE ~There(k, i)
      <3>1. PICK u \in Users : IsSending(u, k, i)
        BY <2>4, ThereBefore
      <3>2. k \in Begun
        BY <3>1, SendingFacts
      <3> QED BY <2>1, <2>2, <3>2
    <2> QED BY <2>3, <2>4
  <1>7. CASE Reads(n) /\ IsUploading(n)
    <2>1. /\ cmd[n].stage = "read" /\ cmd'[n].key = cmd[n].key
          /\ cmd'[n].at = cmd[n].at + 1
      BY <1>7 DEF Reads
    <2>2. i < cmd[n].at \/ i = cmd[n].at
      BY <1>2, <1>3, <1>7, <2>1
    <2>3. i < cmd'[n].at
      BY <1>1, <2>1, <2>2
    <2> QED BY <2>3 DEF HasSent
  <1>8. CASE Moves(n) /\ IsUploading(n)
    <2>1. /\ cmd[n].stage # "read" /\ cmd'[n].key = cmd[n].key /\ cmd'[n].at = cmd[n].at
      BY <1>8 DEF Moves
    <2> QED BY <1>2, <1>3, <1>4, <1>8, <2>1, IdleCommand DEF HasSent
  <1> QED BY <1>5, <1>6, <1>7, <1>8, UploadMoves

------------------------------------------------------------------------------
(* As long as also no node is full and no port is useless: a block of one's own. *)

LEMMA CalmBefore ==
  ASSUME IInv, Next, Calm'
  PROVE  /\ Calm /\ faults' = 0 /\ faults = 0 /\ ~SomebodyFull
         /\ \A n \in Nodes : left[n] = {}
         /\ Filed /\ NothingSentAhead /\ TargetsChosen /\ TargetsHold
  <1>1. faults' = 0 /\ ~SomebodyFull' /\ \A n \in Nodes : left'[n] = {}
    BY DEF Calm
  <1>2. faults = 0 /\ ~SomebodyFull
    BY <1>1, NotFullBefore, NextFaultsTyped DEF IInv
  <1>3. \A n \in Nodes : left[n] = {}
    BY <1>1, StoresMove
  <1>4. Calm
    BY <1>2, <1>3 DEF Calm
  <1> QED BY <1>1, <1>2, <1>3, <1>4 DEF IInv

LEMMA UnsharedBefore ==
  ASSUME IInv, Next, NEW k \in Begun, NEW i \in DOMAIN source[k], Unshared(k, i)'
  PROVE  Unshared(k, i)
  <1> SUFFICES ASSUME NEW j \in Uploads, source[j] # None, NEW x \in DOMAIN source[j],
                      Hash(j, x) = Hash(k, i)
               PROVE  j = k /\ x = i
    BY DEF Unshared
  <1>1. j \in Begun
    BY DEF Begun
  <1>2. source'[j] = source[j] /\ Hash(j, x)' = Hash(j, x) /\ Hash(k, i)' = Hash(k, i)
    BY <1>1, UploadsGrow
  <1> QED BY <1>2 DEF Unshared

\* What has the hash of a block that nobody else uploads is this upload's chunk.
LEMMA OnlyOwn ==
  ASSUME NEW k, NEW i, Unshared(k, i), NEW c, Authentic(c), Sealed(c),
         Hash(c.key, c.nonce) = Hash(k, i)
  PROVE  c = Seal(k, i)
  <1>1. c.key \in Uploads /\ source[c.key] # None /\ c.nonce \in DOMAIN source[c.key]
    BY DEF Authentic, Begun
  <1>2. c.key = k /\ c.nonce = i
    BY <1>1 DEF Unshared
  <1> QED BY <1>2 DEF Sealed

LEMMA KeptIsOwn ==
  ASSUME IInv, faults = 0, NEW k, NEW i, Hash(k, i) \in Hashes, Unshared(k, i),
         NEW n \in Nodes, kept[n][Hash(k, i)] # None
  PROVE  kept[n][Hash(k, i)] = Seal(k, i)
  <1>1. PICK h, c : h = Hash(k, i) /\ c = kept[n][h]
    OBVIOUS
  <1>2. Authentic(c) /\ Sealed(c) /\ Hash(c.key, c.nonce) = h
    BY <1>1, FiledFacts
  <1>3. c = Seal(k, i)
    BY <1>1, <1>2, OnlyOwn
  <1> QED BY <1>1, <1>3

\* Before an upload has sent a chunk it is nowhere.
LEMMA NotYetThere ==
  ASSUME IInv, faults = 0, NEW n \in Users, IsUploading(n), cmd[n].stage # "read"
  PROVE  ~There(cmd[n].key, cmd[n].at)
  <1> USE Constants
  <1>1. PICK k, i : k = cmd[n].key /\ i = cmd[n].at
    OBVIOUS
  <1>2. k \in Begun /\ i \in DOMAIN source[k] /\ i \in Nat
    BY <1>1, UploadFacts, Types DEF IInv
  <1>3. i \in Indices
    BY <1>2, SourceFacts DEF IInv
  <1>4. ~HasSent(n, i)
    BY <1>1, <1>2 DEF HasSent
  <1>5. ~There(k, i)
    BY <1>1, <1>3, <1>4 DEF IInv, NothingSentAhead
  <1> QED BY <1>1, <1>5

\* STORE to all others: none of them owns a chunk that nobody has sent.
LEMMA ChosenNodes ==
  ASSUME IInv, Next, Calm', NEW n \in Users, NEW answering \in SUBSET (Nodes \ {n}),
         ResolveAlphaClosestNodes(n, answering), cmd'[n].stage = "port",
         Unshared(cmd[n].key, cmd[n].at)
  PROVE  cmd'[n].nodes = Targets(n)
  <1> USE Constants
  <1> DEFINE h == Hash(cmd[n].key, cmd[n].at)
             ready == {m \in answering : h \notin offered[m]}
  <1>0. TypeOK /\ faults' = 0 /\ faults = 0
    BY CalmBefore DEF IInv
  <1>1. /\ IsUploading(n) /\ cmd[n].stage = "store" /\ Fault(answering # Nodes \ {n})
        /\ Fail(n) \/ cmd' = [cmd EXCEPT ![n] =
                                [@ EXCEPT !.stage = "port", !.nodes = Nearest(ready)]]
    BY DEF ResolveAlphaClosestNodes, IsUploading
  <1>2. answering = Nodes \ {n}
    BY <1>0, <1>1, NoFault
  <1>3. h \in Hashes /\ ~There(cmd[n].key, cmd[n].at)
    BY <1>0, <1>1, UploadFacts, SourceFacts, NotYetThere
  <1>4. ASSUME NEW m \in Nodes, h \in offered[m]
        PROVE  FALSE
    <2>1. kept[m][h] # None
      BY <1>0, <1>4, FiledFacts
    <2>2. kept[m][h] = Seal(cmd[n].key, cmd[n].at)
      BY <1>0, <1>3, <2>1, KeptIsOwn
    <2>3. kept[m][h].key = cmd[n].key /\ kept[m][h].nonce = cmd[n].at
      BY <2>2 DEF Seal
    <2> QED BY <1>3, <2>1, <2>3 DEF There, IsPart
  <1>5. ready = Nodes \ {n}
    BY <1>2, <1>4
  <1>6. ~Fail(n)
    BY <1>0, Failed, IdleCommand
  <1>7. PICK near : near = Nearest(ready)
    OBVIOUS
  <1>8. cmd' = [cmd EXCEPT ![n] = [@ EXCEPT !.stage = "port", !.nodes = near]]
    BY <1>1, <1>6, <1>7
  <1>9. cmd \in [Users -> Commands]
    BY <1>0 DEF TypeOK
  <1>10. cmd'[n].nodes = near
    BY <1>8, <1>9 DEF Commands
  <1> QED BY <1>5, <1>7, <1>10 DEF Targets

\* GET_PORT to all of them: each opens a listener and answers.
LEMMA ChosenPorts ==
  ASSUME IInv, Next, Calm', NEW n \in Users, NEW reached \in SUBSET cmd[n].nodes,
         NEW answered \in SUBSET reached, NEW p \in [reached -> Ports],
         GetPortsForNodes(n, reached, answered, p), cmd'[n].stage = "send"
  PROVE  cmd[n].stage = "port" /\ {a[1] : a \in cmd'[n].ports} = cmd[n].nodes
  <1> USE Constants
  <1> DEFINE opened == {m \in reached : p[m] \notin left[m]}
             ps == {<<m, p[m]>> : m \in answered}
  <1>0. TypeOK /\ faults' = 0 /\ \A m \in Nodes : left[m] = {}
    BY CalmBefore DEF IInv
  <1>1. /\ cmd[n].stage = "port"
        /\ Fault(reached # cmd[n].nodes \/ answered # opened)
        /\ Fail(n) \/ cmd' = [cmd EXCEPT ![n] = [@ EXCEPT !.stage = "send", !.nodes = {},
                                                          !.ports = ps]]
    BY DEF GetPortsForNodes
  <1>2. reached = cmd[n].nodes /\ answered = opened
    BY <1>0, <1>1, NoFault
  <1>3. reached \subseteq Nodes
    BY <1>0, Types
  <1>4. opened = reached
    BY <1>0, <1>3
  <1>5. ~Fail(n)
    BY <1>0, Failed, IdleCommand
  <1>6. PICK qs : qs = ps
    OBVIOUS
  <1>7. cmd' = [cmd EXCEPT ![n] = [@ EXCEPT !.stage = "send", !.nodes = {}, !.ports = qs]]
    BY <1>1, <1>5, <1>6
  <1>8. cmd \in [Users -> Commands]
    BY <1>0 DEF TypeOK
  <1>9. cmd'[n].ports = qs
    BY <1>7, <1>8 DEF Commands
  <1>10. answered = cmd[n].nodes
    BY <1>2, <1>4
  <1>11. {a[1] : a \in ps} = answered
    <2>1. \A m \in answered : <<m, p[m]>> \in ps /\ <<m, p[m]>>[1] = m
      OBVIOUS
    <2>2. \A a \in ps : a[1] \in answered
      OBVIOUS
    <2> HIDE DEF ps
    <2>3. \A m \in answered : \E a \in ps : m = a[1]
      BY <2>1
    <2> QED BY <2>2, <2>3
  <1> QED BY <1>1, <1>6, <1>9, <1>10, <1>11

LEMMA NextChosen ==
  ASSUME IInv, Next, Calm'
  PROVE  TargetsChosen'
  <1>0. TargetsChosen
    BY CalmBefore
  <1>1. ASSUME NEW n \in Users, cmd'[n].stage \in {"port", "send"}, NEW k, NEW i,
               k = cmd'[n].key, i = cmd'[n].at, Unshared(k, i)'
        PROVE  Targets(n) = IF cmd'[n].stage = "port" THEN cmd'[n].nodes
                            ELSE {a[1] : a \in cmd'[n].ports}
    <2>0. IsUploading(n)'
      BY <1>1 DEF IsUploading
    <2>1. ASSUME cmd[n].key = k, cmd[n].at = i, IsUploading(n), cmd[n].stage # "read"
          PROVE  Unshared(k, i)
      BY <1>1, <2>1, UploadFacts, UnsharedBefore
    <2>2. CASE cmd'[n] = cmd[n] /\ IsUploading(n)
      BY <1>0, <1>1, <2>1, <2>2 DEF TargetsChosen
    <2>3. CASE Begins(n)
      BY <1>1, <2>3 DEF Begins, Command
    <2>4. CASE Reads(n)
      BY <1>1, <2>4 DEF Reads
    <2>5. CASE Moves(n) /\ IsUploading(n)
      <3>1. /\ cmd[n].key = k /\ cmd[n].at = i /\ cmd[n].stage # "read"
        BY <1>1, <2>5 DEF Moves
      <3>2. Unshared(k, i)
        BY <2>1, <2>5, <3>1
      <3>3. CASE cmd'[n].stage = "port"
        <4>1. PICK answering \in SUBSET (Nodes \ {n}) :
                ResolveAlphaClosestNodes(n, answering)
          BY <2>5, <3>3 DEF Moves
        <4>2. cmd'[n].nodes = Targets(n)
          BY <3>1, <3>2, <3>3, <4>1, ChosenNodes
        <4> QED BY <3>3, <4>2
      <3>4. CASE cmd'[n].stage = "send"
        <4>1. \E reached \in SUBSET cmd[n].nodes : \E answered \in SUBSET reached :
                \E p \in [reached -> Ports] : GetPortsForNodes(n, reached, answered, p)
          BY <2>5, <3>4 DEF Moves
        <4>2. cmd[n].stage = "port" /\ {a[1] : a \in cmd'[n].ports} = cmd[n].nodes
          BY <3>4, <4>1, ChosenPorts
        <4>3. Targets(n) = cmd[n].nodes
          BY <1>0, <3>1, <3>2, <4>2 DEF TargetsChosen
        <4> QED BY <3>4, <4>2, <4>3
      <3> QED BY <1>1, <3>3, <3>4
    <2> QED BY <2>0, <2>2, <2>3, <2>4, <2>5, UploadMoves
  <1>2. ASSUME NEW n \in Users, cmd'[n].stage \in {"port", "send"},
               Unshared(cmd[n].key, cmd[n].at)'
        PROVE  Targets(n) = IF cmd'[n].stage = "port" THEN cmd'[n].nodes
                            ELSE {a[1] : a \in cmd'[n].ports}
    <2>1. PICK k, i : k = cmd'[n].key /\ i = cmd'[n].at
      OBVIOUS
    <2>2. Unshared(k, i)'
      BY <1>2, <2>1 DEF Unshared, Hash
    <2> QED BY <1>1, <1>2, <2>1, <2>2
  <1> QED BY <1>2 DEF TargetsChosen, Targets, Nearest

\* A block that counts as sent did so before, or it has just been sent.
LEMMA SentBefore ==
  ASSUME IInv, Next, TypeOK', NEW k \in Begun', NEW i \in DOMAIN source'[k], Sent(k, i)'
  PROVE  /\ k \in Begun
         /\ Sent(k, i) \/ \E u \in Users : IsSending(u, k, i) /\ cmd'[u].stage = "read"
  <1> USE Constants
  <1>0. TypeOK /\ \A x \in handles : x \in Begun
    BY DEF IInv, MetadataTrue
  <1>1. i \in Nat /\ i # 0
    <2>1. source'[k] \in Seq(Blocks)
      BY DEF TypeOK, Begun
    <2> QED BY <2>1
  <1>2. CASE k \in handles
    BY <1>0, <1>2 DEF Sent
  <1>3. CASE k \in handles' /\ k \notin handles
    <2>1. PICK n \in Users : Finishes(n) /\ k = cmd[n].key
      BY <1>3, Effect DEF Acts, Quiet, Stops, Begins, Reads, Moves, Finishes, Looks,
         Finds, Writes, Waits
    <2>2. /\ IsUploading(n) /\ cmd[n].stage = "read" /\ source' = source
          /\ cmd[n].at = Len(source[k])
      BY <2>1 DEF Finishes, IsUploading
    <2>3. k \in Begun
      BY <2>1, <2>2, UploadFacts
    <2>4. DOMAIN source[k] = 1 .. Len(source[k]) /\ Len(source[k]) \in Nat
      BY <1>0, <2>3, SourceFacts
    <2>5. i < cmd[n].at \/ i = cmd[n].at
      BY <2>2, <2>4
    <2> QED BY <2>1, <2>2, <2>3, <2>5 DEF Sent, HasSent
  <1>4. ASSUME NEW n \in Users, IsUploading(n)', cmd'[n].key = k, HasSent(n, i)'
        PROVE  /\ k \in Begun
               /\ Sent(k, i) \/ (IsSending(n, k, i) /\ cmd'[n].stage = "read")
    <2>0. i < cmd'[n].at \/ (i = cmd'[n].at /\ cmd'[n].stage = "read")
      BY <1>4 DEF HasSent
    <2>1. CASE cmd'[n] = cmd[n] /\ IsUploading(n)
      BY <1>4, <2>0, <2>1, UploadFacts DEF Sent, HasSent
    <2>2. CASE Begins(n)
      <3>1. cmd'[n].at = 0
        BY <2>2 DEF Begins, Command
      <3> QED BY <1>1, <2>0, <3>1
    <2>3. CASE Reads(n) /\ IsUploading(n)
      <3>1. /\ cmd[n].stage = "read" /\ cmd'[n].stage = "store" /\ cmd[n].key = k
            /\ cmd'[n].at = cmd[n].at + 1 /\ cmd[n].at \in Nat
        BY <1>0, <1>4, <2>3, Types DEF Reads
      <3>2. i < cmd[n].at \/ i = cmd[n].at
        BY <1>1, <2>0, <3>1
      <3> QED BY <2>3, <3>1, <3>2, UploadFacts DEF Sent, HasSent
    <2>4. CASE Moves(n) /\ IsUploading(n)
      <3>1. /\ cmd[n].key = k /\ cmd'[n].at = cmd[n].at
            /\ cmd'[n].stage = "read" => \E sent, cut : StoreChunk(n, sent, cut)
        BY <1>4, <2>4 DEF Moves
      <3>2. k \in Begun
        BY <2>4, <3>1, UploadFacts
      <3>3. CASE i < cmd[n].at
        BY <2>4, <3>1, <3>2, <3>3 DEF Sent, HasSent
      <3>4. CASE i = cmd[n].at /\ cmd'[n].stage = "read"
        BY <3>1, <3>2, <3>4 DEF IsSending
      <3> QED BY <2>0, <3>1, <3>3, <3>4
    <2> QED BY <1>4, <2>1, <2>2, <2>3, <2>4, UploadMoves
  <1>5. \/ k \in handles'
        \/ \E n \in Users : IsUploading(n)' /\ cmd'[n].key = k /\ HasSent(n, i)'
    BY DEF Sent
  <1> QED BY <1>2, <1>3, <1>4, <1>5

\* Who keeps a chunk or is about to, with its hash and ciphertext named.
LEMMA HoldersMean ==
  ASSUME NEW k, NEW i, NEW h, NEW c, h = Hash(k, i), c = Seal(k, i)
  PROVE  \A n : n \in Holders(k, i) <=>
           n \in Nodes /\ (kept[n][h] = c \/ \E p \in Ports : socket[n][p] = [use |-> h, data |-> c])
  BY DEF Holders, Copies

LEMMA HoldersMeanNext ==
  ASSUME NEW k, NEW i, NEW h, NEW c, h = Hash(k, i)', c = Seal(k, i)'
  PROVE  \A n : n \in Holders(k, i)' <=>
           n \in Nodes /\ (kept'[n][h] = c \/ \E p \in Ports : socket'[n][p] = [use |-> h, data |-> c])
  BY DEF Holders, Copies

\* What the same upload, the hash and the ciphertext of a block are after a step.
LEMMA BlockFacts ==
  ASSUME IInv, Next, NEW k \in Begun, NEW i \in DOMAIN source[k], NEW h, NEW c,
         h = Hash(k, i), c = Seal(k, i)
  PROVE  /\ h = Hash(k, i)' /\ c = Seal(k, i)'
         /\ h \in Hashes /\ h # Download /\ c \in Contents /\ c # None
         /\ c.key = k /\ c.nonce = i
         /\ [use |-> h, data |-> c] # None
  <1> USE Constants
  <1>1. h = Hash(k, i)' /\ c = Seal(k, i)'
    BY UploadsGrow
  <1>2. h \in Hashes /\ c \in Contents
    BY SourceFacts DEF IInv
  <1>3. [use |-> h, data |-> c] \in Listeners
    BY <1>2 DEF Listeners
  <1>4. c.key = k /\ c.nonce = i
    BY DEF Seal
  <1> QED BY <1>1, <1>2, <1>3, <1>4

\* A chunk of one's own stays where it is, and is nowhere else, until it is sent.
LEMMA HoldersStay ==
  ASSUME IInv, Next, faults' = 0, ~SomebodyFull, NEW k \in Begun, NEW i \in DOMAIN source[k],
         Unshared(k, i), ~\E u \in Users : IsSending(u, k, i)
  PROVE  Holders(k, i)' = Holders(k, i)
  <1> USE Constants
  <1>0. faults = 0
    BY PortsBefore
  <1>1. PICK h, c : h = Hash(k, i) /\ c = Seal(k, i)
    OBVIOUS
  <1>2. /\ h = Hash(k, i)' /\ c = Seal(k, i)'
        /\ h \in Hashes /\ h # Download /\ c \in Contents /\ c # None
        /\ c.key = k /\ c.nonce = i
        /\ [use |-> h, data |-> c] # None
    BY <1>1, BlockFacts
  <1>3. ASSUME NEW n \in Nodes, kept'[n][h] # None
        PROVE  kept'[n][h] = c
    <2>1. PICK d : d = kept'[n][h]
      OBVIOUS
    <2>a. h \in Hashes /\ d # None
      BY <1>2, <1>3, <2>1
    <2>2. Authentic(d) /\ Sealed(d) /\ Hash(d.key, d.nonce) = h
      <3> HIDE Constants
      <3> QED BY ZenonT(30), <2>1, <2>a, KeptBefore
    <2> QED BY <1>1, <2>1, <2>2, OnlyOwn
  <1>4. ASSUME NEW n \in Nodes, kept[n][h] = c
        PROVE  kept'[n][h] = c
    BY <1>2, <1>4, KeptGrows
  <1>5. ASSUME NEW n \in Nodes, NEW p \in Ports, socket[n][p] = [use |-> h, data |-> c]
        PROVE  kept'[n][h] = c \/ socket'[n][p] = [use |-> h, data |-> c]
    <2>1. socket[n][p] # None /\ socket[n][p].use = h /\ socket[n][p].data # None
      BY <1>2, <1>5
    <2>2. socket'[n][p] = socket[n][p] \/ kept'[n][h] # None
      BY <1>2, <2>1, ReceivedIsStored
    <2> QED BY <1>3, <1>5, <2>2
  <1>6. ASSUME NEW n \in Nodes, kept'[n][h] = c
        PROVE  kept[n][h] = c \/ \E p \in Ports : socket[n][p] = [use |-> h, data |-> c]
    BY <1>2, <1>6, KeptBefore
  <1>7. ASSUME NEW n \in Nodes, NEW p \in Ports, socket'[n][p] = [use |-> h, data |-> c]
        PROVE  socket[n][p] = [use |-> h, data |-> c]
    <2>1. socket'[n][p] # None /\ socket'[n][p].use = h /\ socket'[n][p].data = c
      BY <1>2, <1>7
    <2>2. ASSUME socket'[n][p] # socket[n][p]
          PROVE  FALSE
      <3>1. Brought(n, p)
        BY <1>2, <2>1, <2>2, DataCameIn
      <3>2. ASSUME NEW u \in Users, NEW j, NEW x, IsSending(u, j, x),
                   socket'[n][p] = [use |-> Hash(j, x), data |-> Seal(j, x)]
            PROVE  FALSE
        <4>1. Seal(j, x) = c
          BY <2>1, <3>2
        <4>2. j = k /\ x = i
          BY <1>2, <4>1 DEF Seal
        <4> QED BY <3>2, <4>2
      <3>3. ASSUME NEW d, Fetched(n, p, d)
            PROVE  FALSE
        BY <1>2, <2>1, <3>3 DEF Fetched
      <3> QED BY <3>1, <3>2, <3>3 DEF Brought
    <2> QED BY <1>7, <2>2
  <1>8. \A n : n \in Holders(k, i) <=> n \in Nodes /\
          (kept[n][h] = c \/ \E p \in Ports : socket[n][p] = [use |-> h, data |-> c])
    BY <1>1, HoldersMean
  <1>9. \A n : n \in Holders(k, i)' <=> n \in Nodes /\
          (kept'[n][h] = c \/ \E p \in Ports : socket'[n][p] = [use |-> h, data |-> c])
    BY <1>2, HoldersMeanNext
  <1>10. \A n : n \in Holders(k, i) => n \in Holders(k, i)'
    BY <1>4, <1>5, <1>8, <1>9
  <1>11. \A n : n \in Holders(k, i)' => n \in Holders(k, i)
    BY <1>6, <1>7, <1>8, <1>9
  <1> QED BY <1>10, <1>11

\* A chunk of one's own is with the nodes it was sent to, and with no others.
LEMMA HoldersNew ==
  ASSUME IInv, Next, Calm', NEW u \in Users, NEW k, NEW i, IsSending(u, k, i), Unshared(k, i)
  PROVE  Holders(k, i)' = Targets(u)
  <1> USE Constants
  <1>0. TypeOK /\ faults' = 0 /\ faults = 0 /\ TargetsChosen
    BY CalmBefore DEF IInv
  <1>1. /\ IsUploading(u) /\ cmd[u].stage = "send" /\ k = cmd[u].key /\ i = cmd[u].at
        /\ k \in Begun /\ i \in DOMAIN source[k]
    BY SendingFacts
  <1>2. PICK h, c : h = Hash(k, i) /\ c = Seal(k, i)
    OBVIOUS
  <1>3. /\ h = Hash(k, i)' /\ c = Seal(k, i)'
        /\ h \in Hashes /\ c \in Contents /\ c # None
        /\ c.key = k /\ c.nonce = i
        /\ [use |-> h, data |-> c] # None
    BY <1>1, <1>2, BlockFacts
  <1>4. ~There(k, i)
    BY <1>0, <1>1, <1>2, NotYetThere
  <1>5. PICK sent, cut : StoreChunk(u, sent, cut)
    BY DEF IsSending
  <1>6. UNCHANGED kept
    BY <1>5 DEF StoreChunk, stores
  <1>7. \A m \in Nodes, q \in Ports :
          socket'[m][q] = IF <<m, q>> \in cmd[u].ports THEN [use |-> h, data |-> c]
                          ELSE socket[m][q]
    <2> HIDE Constants
    <2> QED BY <1>0, <1>1, <1>2, <1>5, SentToAll
  <1>8. \A m \in Nodes : kept'[m][h] # c
    BY <1>3, <1>4, <1>6 DEF There, IsPart
  <1>9. ASSUME NEW m \in Nodes, NEW q \in Ports, socket[m][q] = [use |-> h, data |-> c]
        PROVE  FALSE
    <2>1. socket[m][q] # None /\ socket[m][q].data = c
      BY <1>3, <1>9
    <2> QED BY <1>3, <1>4, <2>1 DEF There, IsPart
  <1>10. \A n : n \in Holders(k, i)' <=> n \in Nodes /\
           (kept'[n][h] = c \/ \E p \in Ports : socket'[n][p] = [use |-> h, data |-> c])
    BY <1>3, HoldersMeanNext
  <1>11. \A n : n \in Holders(k, i)' <=>
           n \in Nodes /\ \E p \in Ports : <<n, p>> \in cmd[u].ports
    <2>1. ASSUME NEW n \in Nodes, NEW p \in Ports
          PROVE  socket'[n][p] = [use |-> h, data |-> c] <=> <<n, p>> \in cmd[u].ports
      BY <1>7, <1>9
    <2> QED BY <1>8, <1>10, <2>1
  <1>12. Targets(u) = {a[1] : a \in cmd[u].ports}
    BY <1>0, <1>1 DEF TargetsChosen
  <1>13. cmd[u].ports \subseteq Nodes \X Ports
    BY <1>0, Types
  <1>14. \A n : (n \in Nodes /\ \E p \in Ports : <<n, p>> \in cmd[u].ports) <=>
                \E a \in cmd[u].ports : n = a[1]
    <2>1. ASSUME NEW n \in Nodes, NEW p \in Ports, <<n, p>> \in cmd[u].ports
          PROVE  \E a \in cmd[u].ports : n = a[1]
      <3>1. <<n, p>>[1] = n
        OBVIOUS
      <3> QED BY <2>1, <3>1
    <2>2. ASSUME NEW a \in cmd[u].ports
          PROVE  a[1] \in Nodes /\ a[2] \in Ports /\ <<a[1], a[2]>> \in cmd[u].ports
      BY <1>13
    <2> QED BY <2>1, <2>2
  <1> QED BY <1>11, <1>12, <1>14

LEMMA NextHold ==
  ASSUME IInv, Next, Calm', TypeOK'
  PROVE  TargetsHold'
  <1>0. faults' = 0 /\ ~SomebodyFull /\ TargetsHold
    BY CalmBefore
  <1> SUFFICES ASSUME NEW k \in Begun', NEW i \in DOMAIN source'[k], Sent(k, i)', Unshared(k, i)'
               PROVE  \E n \in Users : Holders(k, i)' = Targets(n)
    BY DEF TargetsHold, Targets, Nearest
  <1>1. /\ k \in Begun
        /\ Sent(k, i) \/ \E u \in Users : IsSending(u, k, i)
    BY SentBefore
  <1>2. i \in DOMAIN source[k]
    BY <1>1, UploadsGrow
  <1>3. Unshared(k, i)
    BY <1>1, <1>2, UnsharedBefore
  <1>4. CASE \E u \in Users : IsSending(u, k, i)
    BY <1>3, <1>4, HoldersNew
  <1>5. CASE ~\E u \in Users : IsSending(u, k, i)
    <2>1. PICK n \in Users : Holders(k, i) = Targets(n)
      BY <1>0, <1>1, <1>2, <1>3, <1>5 DEF TargetsHold
    <2>2. Holders(k, i)' = Holders(k, i)
      BY <1>0, <1>1, <1>2, <1>3, <1>5, HoldersStay
    <2> QED BY <2>1, <2>2
  <1> QED BY <1>4, <1>5

\* The nearest of the other nodes are ALPHA, or all of them.
LEMMA TargetsCardinality ==
  ASSUME NEW n \in Users
  PROVE  /\ Cardinality(Targets(n)) \in {Alpha, Cardinality(Nodes) - 1}
         /\ Cardinality(Targets(n)) <= Alpha
  <1> USE Constants
  <1> DEFINE S == Nodes \ {n}
             R == {x \in S \X S : x[1] < x[2]}
             T == {m \in S : Cardinality({y \in S : <<y, m>> \in R}) < Alpha}
  <1>1. IsFiniteSet(S) /\ Cardinality(S) = Cardinality(Nodes) - 1
    BY FS_RemoveElement
  <1>2. S \subseteq Nat
    OBVIOUS
  <1>3. \A y, m \in S : <<y, m>> \in R <=> y < m
    OBVIOUS
  <1>4. T = Targets(n)
    <2>1. ASSUME NEW m \in S
          PROVE  {y \in S : <<y, m>> \in R} = {y \in S : y < m}
      BY <1>3
    <2> HIDE DEF R
    <2>2. T = {m \in S : Cardinality({y \in S : y < m}) < Alpha}
      BY <2>1
    <2> QED BY <2>2 DEF Targets, Nearest
  <1> HIDE DEF S
  <1>5. IsOrder(S, R)
    <2> HIDE DEF R
    <2> QED BY <1>2, <1>3 DEF IsOrder
  <1>6. T = {m \in S : Cardinality({y \in S : <<y, m>> \in R}) < Alpha}
    OBVIOUS
  <1> HIDE DEF R, T
  <1>7. Cardinality(T) = IF Alpha < Cardinality(S) THEN Alpha ELSE Cardinality(S)
    BY <1>1, <1>5, <1>6, FirstNCardinality
  <1>8. Cardinality(S) \in Nat
    BY <1>1, FS_CardinalityType
  <1> QED BY <1>1, <1>4, <1>7, <1>8

------------------------------------------------------------------------------
(* The theorems. *)

LEMMA InitIInv ==
  ASSUME Init
  PROVE  IInv
  <1> USE Constants
  <1>1. TypeOK
    BY IdleCommand DEF Init, TypeOK
  <1>2. Begun = {}
    BY DEF Init, Begun
  <1>3. KeysInOrder
    <2>1. 0 \in 0 .. MaxUploads /\ 1 .. 0 = {}
      OBVIOUS
    <2> QED BY <1>2, <2>1 DEF KeysInOrder
  <1>4. MetadataTrue
    BY <1>2 DEF Init, MetadataTrue
  <1>5. \A n \in Users : cmd[n] = Idle
    BY DEF Init
  <1>6. UploadersApart
    BY <1>5, IdleCommand DEF UploadersApart, IsUploading
  <1>7. ContentsAuthentic
    BY DEF Init, ContentsAuthentic
  <1>8. DownloadsTrue
    BY <1>5, IdleCommand DEF DownloadsTrue, DownloadTrue
  <1>9. \A n \in Nodes : IsFiniteSet(offered[n])
    BY FS_EmptySet DEF Init
  <1>10. PortsOwned
    BY <1>5, IdleCommand DEF PortsOwned, Init
  <1>11. SentArePresent
    BY <1>5, IdleCommand DEF SentArePresent, Init, IsUploading
  <1>12. /\ \A n \in Nodes, h \in Hashes : kept[n][h] = None
         /\ \A n \in Nodes, p \in Ports : socket[n][p] = None
         /\ \A n \in Nodes : offered[n] = {}
    BY DEF Init
  <1>13. Filed
    BY <1>12 DEF Filed
  <1>14. NothingSentAhead
    BY <1>5, IdleCommand DEF NothingSentAhead, IsUploading
  <1>15. TargetsChosen
    BY <1>5, IdleCommand DEF TargetsChosen
  <1>16. TargetsHold
    BY <1>2 DEF TargetsHold
  <1>17. PendingKept
    BY DEF Init, PendingKept
  <1> QED BY <1>1, <1>3, <1>4, <1>6, <1>7, <1>8, <1>9, <1>10, <1>11, <1>13, <1>14, <1>15,
          <1>16, <1>17 DEF IInv

LEMMA NextIInv ==
  ASSUME IInv, [Next]_vars
  PROVE  IInv'
  <1>1. CASE Next
    <2>1. TypeOK'
      BY <1>1, NextTypes
    <2>2. faults' = 0 => Filed' /\ NothingSentAhead'
      BY <1>1, NextFiled, NextUnsent
    <2>3. Calm' => TargetsChosen' /\ TargetsHold'
      BY <1>1, <2>1, NextChosen, NextHold
    <2>4. \A n \in Nodes : IsFiniteSet(offered'[n])
      BY <1>1, NextStoresTyped DEF StoresTyped
    <2> QED BY <1>1, <2>1, <2>2, <2>3, <2>4, NextKeys, NextMetadata, NextApart,
            NextAuthentic, NextDownloads, NextPending, NextPorts, NextPresent DEF IInv
  <1>2. CASE UNCHANGED vars
    <2> USE <1>2 DEF vars
    <2>1. TypeOK' /\ \A n \in Nodes : IsFiniteSet(offered'[n])
      BY DEF IInv, TypeOK
    <2>2. KeysInOrder' /\ MetadataTrue'
      BY DEF IInv, KeysInOrder, Begun, MetadataTrue, Hash
    <2>3. UploadersApart'
      BY DEF IInv, UploadersApart, IsUploading, Begun
    <2>4. ContentsAuthentic'
      BY DEF IInv, ContentsAuthentic, Authentic, Begun
    <2>5. DownloadsTrue' /\ PendingKept'
      BY DEF IInv, DownloadsTrue, DownloadTrue, PendingKept
    <2>6. faults' = 0 => PortsOwned'
      BY DEF IInv, PortsOwned, Hash
    <2>7. (faults' = 0 /\ ~SomebodyFull') => SentArePresent'
      <3>1. SomebodyFull' <=> SomebodyFull
        BY DEF SomebodyFull
      <3>2. SentArePresent => SentArePresent'
        BY DEF SentArePresent, IsUploading, Present, Somebody, Hash, Seal
      <3> QED BY <3>1, <3>2 DEF IInv
    <2>8. faults' = 0 => Filed' /\ NothingSentAhead'
      <3>1. Filed => Filed'
        BY DEF Filed, Sealed, Seal, Hash
      <3>2. NothingSentAhead => NothingSentAhead'
        BY DEF NothingSentAhead, There, IsPart, HasSent, IsUploading
      <3> QED BY <3>1, <3>2 DEF IInv
    <2>9. Calm' => TargetsChosen' /\ TargetsHold'
      <3>1. Calm' => Calm
        BY DEF Calm, SomebodyFull
      <3>2. TargetsChosen => TargetsChosen'
        BY DEF TargetsChosen, Targets, Nearest, Unshared, Hash
      <3>3. TargetsHold => TargetsHold'
        <4>1. ASSUME NEW k, NEW i
              PROVE  /\ Sent(k, i)' => Sent(k, i)
                     /\ Unshared(k, i)' => Unshared(k, i)
                     /\ Holders(k, i)' = Holders(k, i)
          <5>1. Sent(k, i)' => Sent(k, i)
            BY DEF Sent, HasSent, IsUploading
          <5>2. Unshared(k, i)' => Unshared(k, i)
            BY DEF Unshared, Hash
          <5>3. Holders(k, i)' = Holders(k, i)
            BY DEF Holders, Copies, Hash, Seal
          <5> QED BY <5>1, <5>2, <5>3
        <4>2. Begun' = Begun /\ \A n : Targets(n)' = Targets(n)
          BY DEF Begun, Targets, Nearest
        <4> QED BY <4>1, <4>2 DEF TargetsHold
      <3> QED BY <3>1, <3>2, <3>3 DEF IInv
    <2> QED BY <2>1, <2>2, <2>3, <2>4, <2>5, <2>6, <2>7, <2>8, <2>9 DEF IInv
  <1> QED BY <1>1, <1>2

\* The invariant of the uploads and downloads holds always, for any nodes, users,
\* ports, files and bounds, whatever is lost, cut, restarted or full.
THEOREM Invariance == Spec => []IInv
  BY InitIInv, NextIInv, PTL DEF Spec

\* What store_next_chunk_decrypt has written is a beginning of the uploaded file, and
\* a reported success of download_file means the whole file.
THEOREM OutputAlwaysFaithful == Spec => []OutputFaithful
  <1>1. ASSUME IInv, NEW n \in Users
        PROVE  LET c == cmd[n] IN
               /\ c.output # <<>> => c.output = SubSeq(source[c.key], 1, Len(c.output))
               /\ c.stage = "downloaded" => c.output = source[c.key]
    <2> DEFINE out == cmd[n].output
               src == source[cmd[n].key]
    <2>1. /\ \A i \in DOMAIN out : i \in DOMAIN src /\ out[i] = src[i]
          /\ cmd[n].stage = "downloaded" => Len(out) = Len(src)
          /\ cmd[n].stage \in {"find", "fetch", "receive", "downloaded"} \/ out = <<>>
      BY <1>1 DEF IInv, DownloadsTrue, DownloadTrue
    <2>2. out \in Seq(Blocks)
      BY <1>1, Types DEF IInv
    <2>3. CASE cmd[n].stage \in {"find", "fetch", "receive", "downloaded"}
      <3>1. src \in Seq(Blocks)
        BY <1>1, <2>3, DownloadFacts, SourceFacts DEF IInv
      <3> HIDE DEF out, src
      <3>2. Len(out) \in Nat /\ (out # <<>> => Len(out) # 0)
        BY <2>2
      <3>3. Len(out) <= Len(src)
        BY <2>1, <2>2, <3>1, <3>2
      <3>4. ASSUME out # <<>> PROVE out = SubSeq(src, 1, Len(out))
        <4> DEFINE sub == SubSeq(src, 1, Len(out))
        <4>1. /\ sub \in Seq(Blocks) /\ Len(sub) = Len(out)
              /\ \A i \in 1 .. Len(out) : sub[i] = src[i]
          BY <3>1, <3>2, <3>3
        <4> HIDE DEF sub
        <4>2. \A i \in 1 .. Len(out) : sub[i] = out[i]
          BY <2>1, <2>2, <4>1
        <4>3. sub = out
          BY <2>2, <4>1, <4>2
        <4> QED BY <4>3 DEF sub
      <3>5. ASSUME cmd[n].stage = "downloaded" PROVE out = src
        <4>1. Len(out) = Len(src) /\ \A i \in 1 .. Len(out) : out[i] = src[i]
          BY <2>1, <2>2, <3>5
        <4> QED BY <2>2, <3>1, <4>1
      <3> QED BY <3>4, <3>5 DEF out, src
    <2>4. CASE ~(cmd[n].stage \in {"find", "fetch", "receive", "downloaded"})
      BY <2>1, <2>4
    <2> QED BY <2>3, <2>4
  <1>2. IInv => OutputFaithful
    BY <1>1 DEF OutputFaithful
  <1> QED BY <1>2, Invariance, PTL

\* In a perfect network with room the handle of an upload means that of every block
\* somebody keeps a chunk, or the bytes have arrived where they will be kept.
THEOREM SuccessMeansPresent == Spec => []SuccessLeavesChunks
  <1>1. ASSUME IInv, faults = 0, ~SomebodyFull, NEW k \in handles, NEW i \in DOMAIN source[k]
        PROVE  Arriving(k, i) \/ Somebody(k, i) # {}
    <2>1. Present(k, i)
      BY <1>1 DEF IInv, SentArePresent
    <2>2. k \in Begun
      BY <1>1 DEF IInv, MetadataTrue
    <2>3. Hash(k, i) \in Hashes /\ Seal(k, i) \in Contents
      BY <1>1, <2>2, SourceFacts DEF IInv
    <2>4. ASSUME NEW n \in Nodes, NEW p \in Ports,
                 socket[n][p] = [use |-> Hash(k, i), data |-> Seal(k, i)]
          PROVE  socket[n][p] # None /\ socket[n][p].data = Seal(k, i)
      <3> DEFINE h == Hash(k, i)
                 c == Seal(k, i)
      <3>1. h \in Hashes /\ c \in Contents /\ socket[n][p] = [use |-> h, data |-> c]
        BY <2>3, <2>4
      <3> HIDE DEF h, c
      <3>2. [use |-> h, data |-> c] \in Listeners
        BY <3>1 DEF Listeners
      <3>3. socket[n][p] # None /\ socket[n][p].data = c
        BY <3>1, <3>2, Constants
      <3> QED BY <3>3 DEF c
    <2> QED BY <2>1, <2>4 DEF Present, Arriving
  <1>2. IInv => SuccessLeavesChunks
    BY <1>1 DEF SuccessLeavesChunks
  <1> QED BY <1>2, Invariance, PTL

\* In a perfect network with room and no useless port a block that nobody else uploads
\* is, once the handle is out and nothing is on its way, with exactly ALPHA nodes, or
\* all others, and whoever offers its hash to find_storer has this upload's ciphertext.
THEOREM UnsharedRetrievable == Spec => []UnsharedIsRetrievable
  <1>1. ASSUME IInv, faults = 0, ~SomebodyFull, \A n \in Nodes : left[n] = {},
               NEW k \in handles, NEW i \in DOMAIN source[k], Unshared(k, i), ~Arriving(k, i)
        PROVE  /\ Cardinality(Copies(k, i)) \in {Alpha, Cardinality(Nodes) - 1}
               /\ Cardinality(Copies(k, i)) <= Alpha
               /\ \A n \in Nodes : Hash(k, i) \in offered[n] => n \in Copies(k, i)
    <2>1. k \in Begun
      BY <1>1 DEF IInv, MetadataTrue
    <2>2. TargetsHold
      BY <1>1 DEF IInv, Calm
    <2>3. PICK u \in Users : Holders(k, i) = Targets(u)
      BY <1>1, <2>1, <2>2 DEF TargetsHold, Sent
    <2>4. Hash(k, i) \in Hashes /\ Seal(k, i) \in Contents
      BY <1>1, <2>1, SourceFacts DEF IInv
    <2>5. ASSUME NEW n \in Nodes, NEW p \in Ports,
                 socket[n][p] = [use |-> Hash(k, i), data |-> Seal(k, i)]
          PROVE  FALSE
      <3>1. PICK h, c : h = Hash(k, i) /\ c = Seal(k, i)
        OBVIOUS
      <3>2. [use |-> h, data |-> c] \in Listeners
        BY <2>4, <3>1 DEF Listeners
      <3>3. socket[n][p] # None /\ socket[n][p].data = c
        BY <2>5, <3>1, <3>2, Constants
      <3> QED BY <1>1, <3>1, <3>3 DEF Arriving
    <2>6. Copies(k, i) = Targets(u)
      BY <2>3, <2>5 DEF Holders
    <2>7. ASSUME NEW n \in Nodes, Hash(k, i) \in offered[n]
          PROVE  n \in Copies(k, i)
      <3>1. kept[n][Hash(k, i)] # None
        BY <1>1, <2>7, FiledFacts
      <3> QED BY <1>1, <2>4, <3>1, KeptIsOwn DEF Copies
    <2> QED BY <2>6, <2>7, TargetsCardinality
  <1>2. IInv => UnsharedIsRetrievable
    BY <1>1 DEF UnsharedIsRetrievable
  <1> QED BY <1>2, Invariance, PTL

\* A node loses a copy of a chunk only by a fault of its own between the offer of the
\* chunk and the end of the background write of store_chunk_for_shard, a write error or a
\* restart; a file that was written is not changed by any step, an upload of the same data
\* and the restart of the node included.
THEOREM CopiesStay == Spec => CopiesSurvive
  <1>1. ASSUME IInv, Next, NEW k \in Uploads, source[k] # None, NEW i \in DOMAIN source[k],
               NEW n \in Copies(k, i) \ Copies(k, i)'
        PROVE  faults' = faults + 1 /\ Hash(k, i) \in pending[n] \ pending'[n]
    <2> DEFINE h == Hash(k, i)
               c == Seal(k, i)
    <2>1. k \in Begun
      BY <1>1 DEF Begun
    <2>2. h \in Hashes /\ c \in Contents /\ Hash(k, i)' = h /\ Seal(k, i)' = c
      BY <1>1, <2>1, SourceFacts, UploadsGrow DEF IInv
    <2>3. n \in Nodes /\ kept[n][h] = c /\ kept'[n][h] # c
      BY <1>1, <2>2 DEF Copies
    <2> HIDE DEF h, c
    <2>4. kept[n][h] # None
      BY <2>2, <2>3, Constants
    <2>5. Shortened(n, h)
      BY <1>1, <2>2, <2>3, <2>4, KeptGrows DEF Grows
    <2> QED BY <2>5 DEF Shortened, h
  <1>2. ASSUME IInv, Next, NEW n \in Nodes, NEW h \in Hashes, kept[n][h] # None,
               h \notin pending[n]
        PROVE  kept'[n][h] = kept[n][h]
    BY <1>2, KeptGrows DEF Grows, Shortened
  <1> DEFINE Survive ==
        /\ \A k \in Uploads : source[k] # None =>
             \A i \in DOMAIN source[k] : \A n \in Copies(k, i) \ Copies(k, i)' :
                faults' = faults + 1 /\ Hash(k, i) \in pending[n] \ pending'[n]
        /\ \A n \in Nodes, h \in Hashes :
             kept[n][h] # None /\ h \notin pending[n] => kept'[n][h] = kept[n][h]
  <1>3. ASSUME IInv, Next
        PROVE  Survive
    BY <1>1, <1>2, <1>3
  <1>4. IInv /\ [Next]_vars => [Survive]_vars
    BY <1>3
  <1> QED BY <1>4, Invariance, PTL DEF Spec, CopiesSurvive
=============================================================================
