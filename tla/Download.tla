------------------------------ MODULE Download ------------------------------
(***************************************************************************)
(* BackupClient::download (network/client.cpp) against handleDownload      *)
(* (network/session.cpp): an archive is read on a disk that may fail to    *)
(* return what was stored, crosses a connection that may break, and is     *)
(* given a name on the client's side where other programs make files.      *)
(*                                                                         *)
(* A file is a sequence of blocks, a digest the sequence itself.           *)
(***************************************************************************)
EXTENDS Integers, Sequences

CONSTANTS Blocks, MaxBlocks, Nothing, Foreign, Capacity

BoundsAssumption == MaxBlocks \in Nat /\ Capacity \in Nat \ {0}
Files == UNION {[1..n -> Blocks] : n \in 0..MaxBlocks}
SentinelAssumption == Nothing \notin Files \cup {Foreign} /\ Foreign \notin Files

VARIABLES
  recorded,  \* size and digest in the metadata
  archive,   \* what reading the stored archive returns
  server, at,
  down, cut, \* the connection
  client,
  declared,  \* size and digest of DownloadStart, as a file
  staging,   \* the temporary file, or Nothing
  output     \* what the output path names: a file, Foreign or Nothing

storeVars == <<recorded, archive>>
serverVars == <<server, at>>
connection == <<down, cut>>
clientVars == <<client, declared, staging>>
vars == <<storeVars, serverVars, connection, clientVars, output>>

ServerWorking == {"check", "start", "send"}
ClientWorking == {"start", "receive", "verify", "commit"}

TypeOK ==
  /\ recorded \in Files /\ archive \in Files
  /\ server \in ServerWorking \cup {"done", "failed"} /\ at \in 0..MaxBlocks
  /\ Len(down) <= Capacity /\ cut \in BOOLEAN
  /\ client \in ClientWorking \cup {"done", "failed"} /\ declared \in Files
  /\ staging \in Files \cup {Nothing} /\ output \in Files \cup {Nothing, Foreign}
  /\ staging # Nothing => Len(staging) <= Len(declared) /\ client \in ClientWorking

\* The request has been sent: the identifier is valid, the client found no
\* file at the output path, the server found archive and metadata.
Init ==
  /\ recorded \in Files /\ archive \in Files
  /\ server = "check" /\ at = 0 /\ down = <<>> /\ cut = FALSE
  /\ client = "start" /\ declared = <<>> /\ staging = Nothing
  /\ output = Nothing

-----------------------------------------------------------------------------
Damage ==
  /\ server \in ServerWorking
  /\ \E f \in Files : f # archive /\ archive' = f
  /\ UNCHANGED <<recorded, serverVars, connection, clientVars, output>>

Cut ==
  /\ ~cut /\ cut' = TRUE /\ down' = <<>>
  /\ UNCHANGED <<storeVars, serverVars, clientVars, output>>

Interfere ==
  /\ client \in ClientWorking
  /\ output' = IF output = Nothing THEN Foreign ELSE Nothing
  /\ UNCHANGED <<storeVars, serverVars, connection, clientVars>>

SendDown(frame) == ~cut /\ Len(down) < Capacity /\ down' = Append(down, frame)

\* The whole archive is compared with the metadata before anything is sent.
CheckArchive ==
  /\ server = "check" /\ archive = recorded
  /\ server' = "start"
  /\ UNCHANGED <<storeVars, at, connection, clientVars, output>>

SendStart ==
  /\ server = "start" /\ SendDown([type |-> "start", block |-> recorded])
  /\ server' = "send"
  /\ UNCHANGED <<storeVars, at, cut, clientVars, output>>

\* The archive is read once more, for the transfer.
SendChunk ==
  /\ server = "send" /\ at < Len(archive)
  /\ SendDown([type |-> "chunk", block |-> archive[at + 1]])
  /\ at' = at + 1
  /\ UNCHANGED <<storeVars, server, cut, clientVars, output>>
SendEnd ==
  /\ server = "send" /\ at >= Len(archive)
  /\ SendDown([type |-> "end", block |-> Nothing])
  /\ server' = "done"
  /\ UNCHANGED <<storeVars, at, cut, clientVars, output>>

\* An exception: the archive does not match, cannot be read, a timeout.
ServerFails ==
  /\ server \in ServerWorking /\ server' = "failed"
  /\ \/ UNCHANGED down
     \/ SendDown([type |-> "error", block |-> Nothing])
  /\ UNCHANGED <<storeVars, at, cut, clientVars, output>>

-----------------------------------------------------------------------------
FromServer(type) == down # <<>> /\ Head(down).type = type /\ down' = Tail(down)

ReceiveStart ==
  /\ client = "start" /\ FromServer("start")
  /\ declared' = Head(down).block /\ staging' = <<>>
  /\ client' = "receive"
  /\ UNCHANGED <<storeVars, serverVars, cut, output>>

\* "download exceeds declared size"
HasRoom == Len(staging) < Len(declared)

ReceiveChunk ==
  /\ client = "receive" /\ FromServer("chunk") /\ HasRoom
  /\ staging' = Append(staging, Head(down).block)
  /\ UNCHANGED <<storeVars, serverVars, cut, client, declared, output>>

ReceiveEnd ==
  /\ client = "receive" /\ FromServer("end")
  /\ client' = "verify"
  /\ UNCHANGED <<storeVars, serverVars, cut, declared, staging, output>>

Matches == Len(staging) = Len(declared) /\ staging = declared

Verify ==
  /\ client = "verify" /\ Matches
  /\ client' = "commit"
  /\ UNCHANGED <<storeVars, serverVars, connection, declared, staging, output>>

\* commitFileNoReplace
Commit ==
  /\ client = "commit" /\ output = Nothing
  /\ output' = staging /\ staging' = Nothing /\ client' = "done"
  /\ UNCHANGED <<storeVars, serverVars, connection, declared>>

\* An exception, a timeout or a cancellation; TempFile is destroyed.
ClientFails ==
  /\ client \in ClientWorking
  /\ client' = "failed" /\ staging' = Nothing
  /\ UNCHANGED <<storeVars, serverVars, connection, declared, output>>

Next ==
  \/ Damage \/ Cut \/ Interfere
  \/ CheckArchive \/ SendStart \/ SendChunk \/ SendEnd \/ ServerFails
  \/ ReceiveStart \/ ReceiveChunk \/ ReceiveEnd \/ Verify \/ Commit \/ ClientFails

Spec == Init /\ [][Next]_vars

-----------------------------------------------------------------------------
\* Under the output path there is never a file of ours other than the archive
\* that was stored, complete, although the disk may return something else
\* after the server has checked it.
OutputIsRecorded == output \in Files => output = recorded

\* A file somebody else makes at the output path after the first look is kept.
ForeignIsKept == [][output = Foreign => output' \notin Files]_vars
=============================================================================
