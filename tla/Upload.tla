------------------------------- MODULE Upload -------------------------------
(***************************************************************************)
(* BackupClient::upload (network/client.cpp) against handleUpload          *)
(* (network/session.cpp): the bytes of one upload, whole or as references  *)
(* to equal blocks of an earlier backup, over an authenticated connection  *)
(* that may break at any moment.  How the received file is published is    *)
(* the matter of BackupStore; here publication is one step that may fail.  *)
(*                                                                         *)
(* A file is a sequence of blocks of kChunkSize, a digest the sequence     *)
(* itself.  A connection is a FrameQueue in each direction, of bounded     *)
(* size.  There is one request in a connection after its login, so request *)
(* identifiers are left out.  A hash frame carries one hash.               *)
(***************************************************************************)
EXTENDS Integers, Sequences

CONSTANTS
  Blocks,      \* the contents of a block
  MaxBlocks,   \* bound: the length of a file
  NoFile,
  IndexLimit,  \* the blocks the server indexes: 1048576 in the code
  Capacity,    \* bound: the frames a connection holds in a direction
  Faults       \* whether files change, connections break and calls fail

ASSUME BoundsAssumption ==
  MaxBlocks \in Nat /\ Capacity \in Nat \ {0} /\ IndexLimit \in Nat /\ Faults \in BOOLEAN

Files == UNION {[1..n -> Blocks] : n \in 0..MaxBlocks}
ASSUME NoFileAssumption == NoFile \notin Files

VARIABLES
  local,      \* the archive on the client's disk
  base,       \* the backup it will be compared with, or NoFile: what its path
              \* leads to, and once it is opened, what is behind the stream
  \* the client
  client,
  delta,      \* whether a base identifier was found in the list
  hashed,     \* what the archive was when its size and digest were taken
  hashes,     \* baseHashes
  sent,       \* blocks sent
  \* the server
  server,
  declared,   \* [size, digest, delta] of UploadStart
  baseSize,   \* the size of the base when it was opened
  indexed,    \* blocks of it whose hashes have been sent
  file,       \* the staging file
  published,  \* the published archive, or NoFile
  \* the connection
  up, down, cut

disk == <<local, base>>
clientVars == <<client, delta, hashed, hashes, sent>>
serverVars == <<server, declared, baseSize, indexed, file, published>>
connection == <<up, down, cut>>
vars == <<disk, clientVars, serverVars, connection>>

ClientWorking == {"hash", "start", "ready", "hashes", "send", "result"}
ServerWorking == {"start", "ready", "index", "receive", "verify", "publish", "ack"}

TypeOK ==
  /\ local \in Files /\ base \in Files \cup {NoFile}
  /\ client \in ClientWorking \cup {"done", "failed"} /\ delta \in BOOLEAN
  /\ hashed \in Files /\ sent \in 0..MaxBlocks
  /\ hashes \in Seq(Blocks)
  /\ server \in ServerWorking \cup {"done", "failed"}
  /\ declared \in [size : 0..MaxBlocks, digest : Files, delta : BOOLEAN]
  /\ baseSize \in 0..MaxBlocks /\ indexed \in 0..MaxBlocks
  /\ file \in Files /\ Len(file) <= declared.size
  /\ published \in Files \cup {NoFile}
  /\ Len(up) <= Capacity /\ Len(down) <= Capacity /\ cut \in BOOLEAN

\* Both sides are connected and logged in when the client has its digest; the
\* list was read over another connection.
Init ==
  /\ local \in Files /\ base \in Files \cup {NoFile}
  /\ client = "hash" /\ delta \in {FALSE, base # NoFile}
  /\ hashed = <<>> /\ hashes = <<>> /\ sent = 0
  /\ server = "start" /\ declared = [size |-> 0, digest |-> <<>>, delta |-> FALSE]
  /\ baseSize = 0 /\ indexed = 0 /\ file = <<>> /\ published = NoFile
  /\ up = <<>> /\ down = <<>> /\ cut = FALSE

-----------------------------------------------------------------------------
(* Faults.                                                                 *)

\* Another program writes the archive. It may be anything when its digest is
\* taken, and is read again in the transfer only.
Rewrite ==
  /\ Faults /\ client = "send"
  /\ \E f \in Files : f # local /\ local' = f
  /\ UNCHANGED <<base, clientVars, serverVars, connection>>

\* The listed base was one whose publication is rolled back. A stream that is
\* open keeps its file.
LoseBase ==
  /\ Faults /\ server = "start" /\ base # NoFile /\ base' = NoFile
  /\ UNCHANGED <<local, clientVars, serverVars, connection>>

\* Another program writes the base or cuts it off while the server reads it.
\* Before it is opened it may be anything.
RewriteBase ==
  /\ Faults /\ declared.delta /\ server \in {"index", "receive"}
  /\ \E f \in Files : f # base /\ base' = f
  /\ UNCHANGED <<local, clientVars, serverVars, connection>>

\* The connection breaks; what is on the way is lost.
Cut ==
  /\ Faults /\ ~cut /\ cut' = TRUE
  /\ up' = <<>> /\ down' = <<>>
  /\ UNCHANGED <<disk, clientVars, serverVars>>

\* Any exception of the client, a timeout or a cancellation included.
ClientThrows ==
  /\ client' = "failed"
  /\ UNCHANGED <<disk, delta, hashed, hashes, sent, serverVars, connection>>

\* Any exception of the server; the error reaches the connection or does not.
ServerThrows ==
  /\ server' = "failed"
  /\ \/ UNCHANGED down
     \/ ~cut /\ Len(down) < Capacity /\ down' = Append(down, [type |-> "error"])
  /\ UNCHANGED <<disk, clientVars, declared, baseSize, indexed, file, published, up, cut>>

ClientFault == Faults /\ client \in ClientWorking /\ ClientThrows
ServerFault == Faults /\ server \in ServerWorking /\ ServerThrows

-----------------------------------------------------------------------------
(* The client.                                                             *)

\* Fields that a frame does not have are left empty.
Frame(type, block, offset) == [type |-> type, block |-> block, offset |-> offset]
SendUp(frame) == ~cut /\ Len(up) < Capacity /\ up' = Append(up, frame)
SendDown(frame) == ~cut /\ Len(down) < Capacity /\ down' = Append(down, frame)
FromServer(type) == down # <<>> /\ Head(down).type = type /\ down' = Tail(down)
FromClient(type) == up # <<>> /\ Head(up).type = type /\ up' = Tail(up)

Hash ==
  /\ client = "hash" /\ client' = "start" /\ hashed' = local
  /\ UNCHANGED <<disk, delta, hashes, sent, serverVars, connection>>

\* UploadStart or UploadDeltaStart.
SendStart ==
  /\ client = "start"
  /\ SendUp([type |-> "start", size |-> Len(hashed), digest |-> hashed, delta |-> delta])
  /\ client' = "ready"
  /\ UNCHANGED <<disk, delta, hashed, hashes, sent, serverVars, down, cut>>

AfterReady == IF delta THEN "hashes" ELSE "send"

ReceiveReady ==
  /\ client = "ready" /\ FromServer("ready")
  /\ client' = AfterReady
  /\ UNCHANGED <<disk, delta, hashed, hashes, sent, serverVars, up, cut>>

ReceiveHash ==
  /\ client = "hashes" /\ FromServer("hash") /\ Len(hashes) < IndexLimit
  /\ hashes' = Append(hashes, Head(down).block)
  /\ UNCHANGED <<disk, client, delta, hashed, sent, serverVars, up, cut>>
ReceiveHashEnd ==
  /\ client = "hashes" /\ FromServer("hashEnd")
  /\ client' = "send"
  /\ UNCHANGED <<disk, delta, hashed, hashes, sent, serverVars, up, cut>>

\* The archive is read again for the transfer, up to its end.
SendBlock ==
  /\ client = "send" /\ sent < Len(local)
  /\ LET block == local[sent + 1] IN
     SendUp(IF sent < Len(hashes) /\ hashes[sent + 1] = block
            THEN Frame("copy", NoFile, sent) ELSE Frame("chunk", block, NoFile))
  /\ sent' = sent + 1
  /\ UNCHANGED <<disk, client, delta, hashed, hashes, serverVars, down, cut>>
SendEnd ==
  /\ client = "send" /\ sent >= Len(local) /\ sent = Len(hashed)
  /\ SendUp(Frame("end", NoFile, NoFile))
  /\ client' = "result"
  /\ UNCHANGED <<disk, delta, hashed, hashes, sent, serverVars, down, cut>>

ReceiveResult ==
  /\ client = "result" /\ FromServer("result")
  /\ client' = "done"
  /\ UNCHANGED <<disk, delta, hashed, hashes, sent, serverVars, up, cut>>

ClientStep ==
  \/ Hash \/ SendStart \/ ReceiveReady \/ ReceiveHash \/ ReceiveHashEnd
  \/ SendBlock \/ SendEnd \/ ReceiveResult

\* What a side that cannot go on makes of it: nothing, while a peer may still
\* send or make room.
ClientError ==
  /\ client \in ClientWorking /\ ~ENABLED ClientStep
  /\ \/ cut \/ server \notin ServerWorking
     \/ client \in {"ready", "hashes", "result"} /\ down # <<>>
     \/ client = "send" /\ sent >= Len(local) /\ sent # Len(hashed)  \* it has changed
  /\ ClientThrows

-----------------------------------------------------------------------------
(* The server.                                                             *)

ReceiveStart ==
  /\ server = "start" /\ FromClient("start")
  /\ LET f == Head(up) IN
     /\ declared' = [size |-> f.size, digest |-> f.digest, delta |-> f.delta]
     /\ f.delta => base # NoFile
     /\ baseSize' = IF f.delta THEN Len(base) ELSE 0
  /\ server' = "ready"
  /\ UNCHANGED <<disk, clientVars, indexed, file, published, down, cut>>

SendReady ==
  /\ server = "ready" /\ SendDown(Frame("ready", NoFile, NoFile))
  /\ server' = IF declared.delta THEN "index" ELSE "receive"
  /\ UNCHANGED <<disk, clientVars, declared, baseSize, indexed, file, published, up, cut>>

Lesser(m, n) == IF m < n THEN m ELSE n
\* Up to where the base would be indexed as it is now.
Indexable == Lesser(Lesser(IndexLimit, declared.size), Len(base))

SendHash ==
  /\ server = "index" /\ indexed < Indexable
  /\ SendDown(Frame("hash", base[indexed + 1], NoFile))
  /\ indexed' = indexed + 1
  /\ UNCHANGED <<disk, clientVars, server, declared, baseSize, file, published, up, cut>>
SendHashEnd ==
  /\ server = "index" /\ indexed >= Indexable
  /\ SendDown(Frame("hashEnd", NoFile, NoFile))
  /\ server' = "receive"
  /\ UNCHANGED <<disk, clientVars, declared, baseSize, indexed, file, published, up, cut>>

\* Mutant of HasRoom: the declared size does not limit what is stored.
AnyRoom == Len(file) < MaxBlocks
\* "upload exceeds declared size"
HasRoom == Len(file) < declared.size

\* "invalid incremental block reference"
ValidReference(offset) == declared.delta /\ offset < baseSize
\* The block of the base at an offset is read again, as it is now; a read that
\* ends early is refused: "incremental base changed during upload".
Readable(offset) == offset < Len(base)
Referenced(offset) == base[offset + 1]

ReceiveChunk ==
  /\ server = "receive" /\ FromClient("chunk") /\ HasRoom
  /\ file' = Append(file, Head(up).block)
  /\ UNCHANGED <<disk, clientVars, server, declared, baseSize, indexed, published, down, cut>>
ReceiveCopy ==
  /\ server = "receive" /\ FromClient("copy") /\ HasRoom
  /\ ValidReference(Head(up).offset) /\ Readable(Head(up).offset)
  /\ file' = Append(file, Referenced(Head(up).offset))
  /\ UNCHANGED <<disk, clientVars, server, declared, baseSize, indexed, published, down, cut>>
ReceiveEnd ==
  /\ server = "receive" /\ FromClient("end")
  /\ server' = "verify"
  /\ UNCHANGED <<disk, clientVars, declared, baseSize, indexed, file, published, down, cut>>

\* Mutant of Matches: only the size is compared.
SizeMatches == Len(file) = declared.size
\* The staging file has the declared size and digest.
Matches == Len(file) = declared.size /\ file = declared.digest

Verify ==
  /\ server = "verify" /\ Matches
  /\ server' = "publish"
  /\ UNCHANGED <<disk, clientVars, declared, baseSize, indexed, file, published, connection>>

Publish ==
  /\ server = "publish"
  /\ published' = file /\ server' = "ack"
  /\ UNCHANGED <<disk, clientVars, declared, baseSize, indexed, file, connection>>

SendResult ==
  /\ server = "ack" /\ SendDown(Frame("result", NoFile, NoFile))
  /\ server' = "done"
  /\ UNCHANGED <<disk, clientVars, declared, baseSize, indexed, file, published, up, cut>>

ServerStep ==
  \/ ReceiveStart \/ SendReady \/ SendHash \/ SendHashEnd
  \/ ReceiveChunk \/ ReceiveCopy \/ ReceiveEnd \/ Verify \/ Publish \/ SendResult

ServerError ==
  /\ server \in ServerWorking /\ ~ENABLED ServerStep
  /\ \/ cut \/ client \notin ClientWorking
     \/ server \in {"start", "receive"} /\ up # <<>>
     \/ server = "verify"
  /\ ServerThrows

Next ==
  \/ Rewrite \/ LoseBase \/ RewriteBase \/ Cut \/ ClientFault \/ ServerFault
  \/ ClientStep \/ ClientError \/ ServerStep \/ ServerError

Spec == Init /\ [][Next]_vars

\* The client's call and the server's thread keep running.
FairSpec ==
  Spec /\ WF_vars(ClientStep \/ ClientError) /\ WF_vars(ServerStep \/ ServerError)

-----------------------------------------------------------------------------
\* What is published is what the client declared, byte for byte: neither a
\* connection that breaks, nor an archive that changes while it is sent, nor a
\* base that is written or cut off after it was indexed and before the server
\* copies from it, ever leads to the publication of anything else.
PublishedIsDeclared == published # NoFile => published = hashed

\* When upload() returns true, exactly that archive is stored.
SuccessIsStored == client = "done" => published = hashed

StoredIsDeclared == PublishedIsDeclared /\ SuccessIsStored

\* Without faults every upload succeeds, whatever the base: reusing blocks
\* never spoils a transfer, and neither side waits for the other for ever,
\* although both send without being asked.
Completes == <>(client = "done" /\ server = "done")

\* With faults, both sides still come to an end.
BothEnd == <>(client \notin ClientWorking /\ server \notin ServerWorking)
=============================================================================
