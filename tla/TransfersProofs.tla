-------------------------- MODULE TransfersProofs --------------------------
(***************************************************************************)
(* What the exchanges of MCTransfers promise, for every value of the       *)
(* constants: an upload with every fault it has, then, each first on its   *)
(* own and then as part of the composition, a list of the history (H), a   *)
(* download (D) and one direction of a connection (F).                     *)
(***************************************************************************)
EXTENDS MCTransfers, SequenceTheorems, TLAPS

-----------------------------------------------------------------------------
(* The upload.  The strengthening follows the digest: once taken it does   *)
(* not change, a start frame carries it, the server declares what the      *)
(* frame carried, the staging file equals it before it is published, and a *)
(* result on its way means that it was.                                    *)


RequestFrames ==
  [type : {"start"}, size : Nat, digest : Files, delta : BOOLEAN]
    \cup [type : {"chunk", "copy", "end"}, block : Blocks \cup {NoFile}, offset : Nat \cup {NoFile}]
ReplyFrames ==
  [type : {"error"}]
    \cup [type : {"ready", "hash", "hashEnd", "result"}, block : Blocks \cup {NoFile},
          offset : {NoFile}]

\* What a frame may say, given the digest and what is published.
TrueUp(frame) ==
  /\ frame.type = "start" =>
       /\ frame.size = Len(hashed) /\ frame.digest = hashed /\ frame.delta \in BOOLEAN
  /\ frame.type = "chunk" => frame.block \in Blocks
  /\ frame.type = "copy" => frame.offset \in Nat
TrueDown(frame) ==
  /\ frame.type = "hash" => frame.block \in Blocks
  /\ frame.type = "result" => published = hashed

RequestsOK ==
  /\ up \in Seq(RequestFrames) /\ \A i \in 1..Len(up) : TrueUp(up[i])
  /\ client = "hash" => up = <<>>
RepliesOK == down \in Seq(ReplyFrames) /\ \A i \in 1..Len(down) : TrueDown(down[i])

ServerOK ==
  /\ server = "start" => file = <<>>
  /\ server \notin {"start", "failed"} =>
       /\ client # "hash"
       /\ declared.size = Len(hashed) /\ declared.digest = hashed
       /\ declared.delta => base \in Files
  /\ server = "index" => declared.delta
  /\ server = "publish" => file = hashed
  /\ server \in {"ack", "done"} => published = hashed

PublishedOK == published # NoFile => published = hashed /\ client # "hash"

UploadInv == TypeOK /\ RequestsOK /\ RepliesOK /\ ServerOK /\ PublishedOK /\ SuccessIsStored

-----------------------------------------------------------------------------
\* A file is a sequence of blocks of bounded length, and conversely.
LEMMA UploadedAreSequences ==
  ASSUME NEW f \in Files
  PROVE  f \in Seq(Blocks) /\ Len(f) \in 0..MaxBlocks
<1>1. PICK n \in 0..MaxBlocks : f \in [1..n -> Blocks]
  BY DEF Files
<1> QED
  BY <1>1, BoundsAssumption

LEMMA SequencesAreUploaded ==
  ASSUME NEW f \in Seq(Blocks), Len(f) <= MaxBlocks
  PROVE  f \in Files
<1>1. Len(f) \in 0..MaxBlocks /\ f \in [1..Len(f) -> Blocks]
  BY BoundsAssumption
<1> QED
  BY <1>1 DEF Files

LEMMA EmptyIsUploaded == <<>> \in Files /\ Len(<<>>) = 0
<1>1. <<>> \in Seq(Blocks) /\ Len(<<>>) <= MaxBlocks
  BY BoundsAssumption
<1> QED
  BY <1>1, SequencesAreUploaded

\* What a queue holds after a frame was taken or put.
LEMMA TakeFromQueue ==
  ASSUME NEW S, NEW q \in Seq(S), q # <<>>
  PROVE  /\ Head(q) = q[1] /\ 1 \in 1..Len(q) /\ Tail(q) \in Seq(S)
         /\ Len(Tail(q)) = Len(q) - 1
         /\ \A i \in 1..Len(Tail(q)) : i + 1 \in 1..Len(q) /\ Tail(q)[i] = q[i + 1]
  OBVIOUS

LEMMA PutIntoQueue ==
  ASSUME NEW S, NEW q \in Seq(S), NEW f \in S
  PROVE  /\ Append(q, f) \in Seq(S) /\ Len(Append(q, f)) = Len(q) + 1
         /\ \A i \in 1..Len(Append(q, f)) :
              Append(q, f)[i] = IF i = Len(q) + 1 THEN f ELSE q[i]
  OBVIOUS

\* The frame that is taken is true, and those that remain are.
LEMMA FromServerTrue ==
  ASSUME TypeOK, RepliesOK, NEW type, FromServer(type)
  PROVE  /\ Head(down).type = type /\ TrueDown(Head(down))
         /\ down' \in Seq(ReplyFrames) /\ Len(down') <= Capacity
         /\ \A i \in 1..Len(down') : TrueDown(down'[i])
<1>1. down \in Seq(ReplyFrames) /\ down # <<>> /\ down' = Tail(down) /\ Head(down).type = type
  BY DEF RepliesOK, FromServer
<1>2. /\ Head(down) = down[1] /\ 1 \in 1..Len(down) /\ Tail(down) \in Seq(ReplyFrames)
      /\ Len(Tail(down)) = Len(down) - 1
      /\ \A i \in 1..Len(Tail(down)) : i + 1 \in 1..Len(down) /\ Tail(down)[i] = down[i + 1]
  BY <1>1, TakeFromQueue
<1>3. \A i \in 1..Len(down) : TrueDown(down[i])
  BY DEF RepliesOK
<1>4. Len(down') <= Capacity
  BY <1>1, <1>2, BoundsAssumption DEF TypeOK
<1>5. TrueDown(Head(down))
  BY <1>2, <1>3
<1>6. \A i \in 1..Len(down') : TrueDown(down'[i])
  BY <1>1, <1>2, <1>3
<1> QED
  BY <1>1, <1>2, <1>4, <1>5, <1>6

LEMMA FromClientTrue ==
  ASSUME TypeOK, RequestsOK, NEW type, FromClient(type)
  PROVE  /\ Head(up).type = type /\ TrueUp(Head(up)) /\ client # "hash"
         /\ up' \in Seq(RequestFrames) /\ Len(up') <= Capacity
         /\ \A i \in 1..Len(up') : TrueUp(up'[i])
<1>1. /\ up \in Seq(RequestFrames) /\ up # <<>> /\ up' = Tail(up) /\ Head(up).type = type
      /\ client # "hash"
  BY DEF RequestsOK, FromClient
<1>2. /\ Head(up) = up[1] /\ 1 \in 1..Len(up) /\ Tail(up) \in Seq(RequestFrames)
      /\ Len(Tail(up)) = Len(up) - 1
      /\ \A i \in 1..Len(Tail(up)) : i + 1 \in 1..Len(up) /\ Tail(up)[i] = up[i + 1]
  BY <1>1, TakeFromQueue
<1>3. \A i \in 1..Len(up) : TrueUp(up[i])
  BY DEF RequestsOK
<1>4. Len(up') <= Capacity
  BY <1>1, <1>2, BoundsAssumption DEF TypeOK
<1>5. TrueUp(Head(up))
  BY <1>2, <1>3
<1>6. \A i \in 1..Len(up') : TrueUp(up'[i])
  BY <1>1, <1>2, <1>3
<1> QED
  BY <1>1, <1>2, <1>4, <1>5, <1>6

LEMMA SendUpTrue ==
  ASSUME TypeOK, RequestsOK, NEW frame \in RequestFrames, TrueUp(frame), SendUp(frame)
  PROVE  /\ up' \in Seq(RequestFrames) /\ Len(up') <= Capacity
         /\ \A i \in 1..Len(up') : TrueUp(up'[i])
<1>1. up \in Seq(RequestFrames) /\ up' = Append(up, frame) /\ Len(up) < Capacity
  BY DEF RequestsOK, SendUp
<1>2. /\ up' \in Seq(RequestFrames) /\ Len(up') = Len(up) + 1
      /\ \A i \in 1..Len(up') : up'[i] = IF i = Len(up) + 1 THEN frame ELSE up[i]
  BY <1>1, PutIntoQueue
<1>3. Len(up') <= Capacity
  BY <1>1, <1>2, BoundsAssumption
<1>4. \A i \in 1..Len(up) : TrueUp(up[i])
  BY DEF RequestsOK
<1>5. ASSUME NEW i \in 1..Len(up') PROVE TrueUp(up'[i])
  <2>1. CASE i = Len(up) + 1
    BY <2>1, <1>2
  <2>2. CASE i # Len(up) + 1
    BY <2>2, <1>1, <1>2, <1>4
  <2> QED
    BY <2>1, <2>2
<1> QED
  BY <1>2, <1>3, <1>5

LEMMA SendDownTrue ==
  ASSUME TypeOK, RepliesOK, NEW frame \in ReplyFrames, TrueDown(frame), SendDown(frame)
  PROVE  /\ down' \in Seq(ReplyFrames) /\ Len(down') <= Capacity
         /\ \A i \in 1..Len(down') : TrueDown(down'[i])
<1>1. down \in Seq(ReplyFrames) /\ down' = Append(down, frame) /\ Len(down) < Capacity
  BY DEF RepliesOK, SendDown
<1>2. /\ down' \in Seq(ReplyFrames) /\ Len(down') = Len(down) + 1
      /\ \A i \in 1..Len(down') : down'[i] = IF i = Len(down) + 1 THEN frame ELSE down[i]
  BY <1>1, PutIntoQueue
<1>3. Len(down') <= Capacity
  BY <1>1, <1>2, BoundsAssumption
<1>4. \A i \in 1..Len(down) : TrueDown(down[i])
  BY DEF RepliesOK
<1>5. ASSUME NEW i \in 1..Len(down') PROVE TrueDown(down'[i])
  <2>1. CASE i = Len(down) + 1
    BY <2>1, <1>2
  <2>2. CASE i # Len(down) + 1
    BY <2>2, <1>1, <1>2, <1>4
  <2> QED
    BY <2>1, <2>2
<1> QED
  BY <1>2, <1>3, <1>5

\* Queues that stay, while digest and publication do, stay true.
LEMMA UpKept ==
  ASSUME RequestsOK, UNCHANGED <<up, hashed>>, client' = "hash" => client = "hash"
  PROVE  RequestsOK'
  BY DEF RequestsOK, TrueUp
LEMMA DownKept ==
  ASSUME RepliesOK, UNCHANGED <<down, hashed, published>>
  PROVE  RepliesOK'
  BY DEF RepliesOK, TrueDown

LEMMA UpKeptBy ==
  ASSUME UNCHANGED hashed, client' # "hash", up' \in Seq(RequestFrames),
         \A i \in 1..Len(up') : TrueUp(up'[i])
  PROVE  RequestsOK'
  BY DEF RequestsOK, TrueUp
LEMMA DownKeptBy ==
  ASSUME UNCHANGED <<hashed, published>>, down' \in Seq(ReplyFrames),
         \A i \in 1..Len(down') : TrueDown(down'[i])
  PROVE  RepliesOK'
  BY DEF RepliesOK, TrueDown

-----------------------------------------------------------------------------
LEMMA InitInv == Init => UploadInv
<1> SUFFICES ASSUME Init PROVE UploadInv
  OBVIOUS
<1>1. <<>> \in Files /\ Len(<<>>) = 0
  BY EmptyIsUploaded
<1>2. /\ MaxBlocks \in Nat /\ 0 \in 0..MaxBlocks
      /\ Capacity \in Nat /\ IndexLimit \in Nat
  BY BoundsAssumption
<1>3. TypeOK
  <2>1. delta \in BOOLEAN
    BY Zenon DEF Init
  <2>2. <<>> \in Seq(Blocks)
    OBVIOUS
  <2>3. declared \in [size : 0..MaxBlocks, digest : Files, delta : BOOLEAN]
    BY <1>1, <1>2 DEF Init
  <2>4. Len(file) <= declared.size /\ Len(up) <= Capacity /\ Len(down) <= Capacity
    BY <1>1, <1>2 DEF Init
  <2>5. hashes \in Seq(Blocks) /\ hashed \in Files
    BY <1>1, <1>2, <2>2 DEF Init
  <2> QED
    BY <1>1, <1>2, <2>1, <2>3, <2>4, <2>5 DEF Init, TypeOK, ClientWorking, ServerWorking
<1>4. RequestsOK /\ RepliesOK
  BY DEF Init, RequestsOK, RepliesOK
<1>5. ServerOK /\ PublishedOK /\ SuccessIsStored
  BY DEF Init, ServerOK, PublishedOK, SuccessIsStored
<1> QED
  BY <1>3, <1>4, <1>5 DEF UploadInv

-----------------------------------------------------------------------------
\* A fault leaves what was said true, and takes frames from the connection at most.
LEMMA FaultsInv ==
  ASSUME UploadInv, Rewrite \/ LoseBase \/ RewriteBase \/ Cut \/ ClientThrows \/ ServerThrows
  PROVE  UploadInv'
<1> USE DEF UploadInv, disk, clientVars, serverVars, connection
<1>1. CASE Rewrite
  <2>1. TypeOK'
    BY <1>1 DEF Rewrite, TypeOK
  <2>2. RequestsOK' /\ RepliesOK'
    BY <1>1, UpKept, DownKept DEF Rewrite
  <2> QED
    BY <1>1, <2>1, <2>2 DEF Rewrite, ServerOK, PublishedOK, SuccessIsStored
<1>2. CASE LoseBase
  <2>1. TypeOK'
    BY <1>2 DEF LoseBase, TypeOK
  <2>2. RequestsOK' /\ RepliesOK'
    BY <1>2, UpKept, DownKept DEF LoseBase
  <2> QED
    BY <1>2, <2>1, <2>2 DEF LoseBase, ServerOK, PublishedOK, SuccessIsStored
<1>3. CASE Cut
  <2>1. TypeOK'
    BY <1>3, BoundsAssumption DEF Cut, TypeOK
  <2>2. RequestsOK' /\ RepliesOK'
    BY <1>3 DEF Cut, RequestsOK, RepliesOK
  <2> QED
    BY <1>3, <2>1, <2>2 DEF Cut, ServerOK, PublishedOK, SuccessIsStored
<1>4. CASE ClientThrows
  <2>1. TypeOK'
    BY <1>4 DEF ClientThrows, TypeOK, ClientWorking
  <2>2. RequestsOK' /\ RepliesOK'
    BY <1>4, UpKept, DownKept DEF ClientThrows
  <2> QED
    BY <1>4, <2>1, <2>2 DEF ClientThrows, ServerOK, PublishedOK, SuccessIsStored
<1>5. CASE ServerThrows
  <2> DEFINE error == [type |-> "error"]
  <2>1. error \in ReplyFrames /\ TrueDown(error)
    BY DEF ReplyFrames, TrueDown
  <2>2. RepliesOK' /\ Len(down') <= Capacity
    <3>1. CASE UNCHANGED down
      BY <1>5, <3>1, DownKept DEF ServerThrows, TypeOK
    <3>2. CASE SendDown(error)
      <4>1. /\ down' \in Seq(ReplyFrames) /\ Len(down') <= Capacity
            /\ \A i \in 1..Len(down') : TrueDown(down'[i])
        BY <3>2, <2>1, SendDownTrue
      <4> QED
        BY <4>1, <1>5, DownKeptBy DEF ServerThrows
    <3> QED
      BY <1>5, <3>1, <3>2 DEF ServerThrows, SendDown
  <2>3. TypeOK'
    BY <1>5, <2>2 DEF ServerThrows, TypeOK, ServerWorking
  <2>4. RequestsOK'
    BY <1>5, UpKept DEF ServerThrows
  <2> QED
    BY <1>5, <2>2, <2>3, <2>4 DEF ServerThrows, ServerOK, PublishedOK, SuccessIsStored
<1>6. CASE RewriteBase
  <2>1. base' \in Files
    BY <1>6 DEF RewriteBase
  <2>2. TypeOK'
    BY <1>6, <2>1 DEF RewriteBase, TypeOK
  <2>3. RequestsOK' /\ RepliesOK'
    BY <1>6, UpKept, DownKept DEF RewriteBase
  <2> QED
    BY <1>6, <2>1, <2>2, <2>3 DEF RewriteBase, ServerOK, PublishedOK, SuccessIsStored
<1> QED
  BY <1>1, <1>2, <1>3, <1>4, <1>5, <1>6

LEMMA ClientInv ==
  ASSUME UploadInv, ClientStep
  PROVE  UploadInv'
<1> USE DEF UploadInv, disk, clientVars, serverVars, connection
<1>0. Len(hashed) \in Nat /\ Len(local) \in 0..MaxBlocks /\ local \in Seq(Blocks)
  BY UploadedAreSequences DEF TypeOK
<1>1. CASE Hash
  <2>1. TypeOK'
    BY <1>1 DEF Hash, TypeOK, ClientWorking
  <2>2. RequestsOK'
    BY <1>1 DEF Hash, RequestsOK
  <2>3. published = NoFile /\ hashed' \in Files /\ NoFile \notin Files
    BY <1>1, NoFileAssumption DEF Hash, PublishedOK, TypeOK
  <2>4. RepliesOK'
    <3>1. \A i \in 1..Len(down) : down[i].type # "result"
      BY <2>3 DEF RepliesOK, TrueDown, TypeOK
    <3> QED
      BY <1>1, <3>1 DEF Hash, RepliesOK, TrueDown
  <2> QED
    BY <1>1, <2>1, <2>2, <2>3, <2>4 DEF Hash, ServerOK, PublishedOK, SuccessIsStored
<1>2. CASE SendStart
  <2> DEFINE frame == [type |-> "start", size |-> Len(hashed), digest |-> hashed, delta |-> delta]
  <2>1. frame \in RequestFrames /\ TrueUp(frame)
    BY <1>0 DEF RequestFrames, TrueUp, TypeOK
  <2>2. /\ up' \in Seq(RequestFrames) /\ Len(up') <= Capacity
        /\ \A i \in 1..Len(up') : TrueUp(up'[i])
    BY <1>2, <2>1, SendUpTrue DEF SendStart
  <2>3. RequestsOK' /\ RepliesOK'
    BY <1>2, <2>2, UpKeptBy, DownKept DEF SendStart
  <2>4. TypeOK'
    BY <1>2, <2>2 DEF SendStart, TypeOK, ClientWorking
  <2> QED
    BY <1>2, <2>3, <2>4 DEF SendStart, ServerOK, PublishedOK, SuccessIsStored
<1>3. CASE ReceiveReady
  <2>1. /\ down' \in Seq(ReplyFrames) /\ Len(down') <= Capacity
        /\ \A i \in 1..Len(down') : TrueDown(down'[i])
    BY <1>3, FromServerTrue DEF ReceiveReady
  <2>2. client' \in {"hashes", "send"}
    BY <1>3 DEF ReceiveReady, AfterReady
  <2>3. RequestsOK' /\ RepliesOK'
    BY <1>3, <2>1, <2>2, UpKept, DownKeptBy DEF ReceiveReady
  <2>4. TypeOK'
    BY <1>3, <2>1, <2>2 DEF ReceiveReady, TypeOK, ClientWorking
  <2> QED
    BY <1>3, <2>2, <2>3, <2>4 DEF ReceiveReady, ServerOK, PublishedOK, SuccessIsStored
<1>4. CASE ReceiveHash
  <2>1. /\ down' \in Seq(ReplyFrames) /\ Len(down') <= Capacity
        /\ \A i \in 1..Len(down') : TrueDown(down'[i])
        /\ Head(down).block \in Blocks
    BY <1>4, FromServerTrue DEF ReceiveHash, TrueDown
  <2>2. hashes' \in Seq(Blocks)
    BY <1>4, <2>1, BoundsAssumption DEF ReceiveHash, TypeOK
  <2>3. RequestsOK' /\ RepliesOK'
    BY <1>4, <2>1, UpKept, DownKeptBy DEF ReceiveHash
  <2>4. TypeOK'
    BY <1>4, <2>1, <2>2 DEF ReceiveHash, TypeOK
  <2> QED
    BY <1>4, <2>3, <2>4 DEF ReceiveHash, ServerOK, PublishedOK, SuccessIsStored
<1>5. CASE ReceiveHashEnd
  <2>1. /\ down' \in Seq(ReplyFrames) /\ Len(down') <= Capacity
        /\ \A i \in 1..Len(down') : TrueDown(down'[i])
    BY <1>5, FromServerTrue DEF ReceiveHashEnd
  <2>2. RequestsOK' /\ RepliesOK'
    BY <1>5, <2>1, UpKept, DownKeptBy DEF ReceiveHashEnd
  <2>3. TypeOK'
    BY <1>5, <2>1 DEF ReceiveHashEnd, TypeOK, ClientWorking
  <2> QED
    BY <1>5, <2>2, <2>3 DEF ReceiveHashEnd, ServerOK, PublishedOK, SuccessIsStored
<1>6. CASE SendBlock
  <2> DEFINE block == local[sent + 1]
             copied == sent < Len(hashes) /\ hashes[sent + 1] = block
             frame == IF copied THEN Frame("copy", NoFile, sent) ELSE Frame("chunk", block, NoFile)
  <2>1. block \in Blocks /\ sent \in Nat /\ sent' \in 0..MaxBlocks
    BY <1>6, <1>0, BoundsAssumption DEF SendBlock, TypeOK
  <2>2. frame \in RequestFrames /\ TrueUp(frame)
    <3>1. CASE copied
      BY <3>1, <2>1 DEF Frame, RequestFrames, TrueUp
    <3>2. CASE ~copied
      BY <3>2, <2>1 DEF Frame, RequestFrames, TrueUp
    <3> QED
      BY <3>1, <3>2
  <2>3. SendUp(frame)
    BY <1>6 DEF SendBlock
  <2> HIDE DEF frame
  <2>4. /\ up' \in Seq(RequestFrames) /\ Len(up') <= Capacity
        /\ \A i \in 1..Len(up') : TrueUp(up'[i])
    BY <2>2, <2>3, SendUpTrue
  <2>5. client' = "send" /\ hashed' = hashed
    BY <1>6 DEF SendBlock
  <2>6. RequestsOK'
    BY <2>4, <2>5, UpKeptBy
  <2>7. RepliesOK'
    BY <1>6, DownKept DEF SendBlock
  <2>8. TypeOK'
    BY <1>6, <2>1, <2>4 DEF SendBlock, TypeOK
  <2> QED
    BY <1>6, <2>6, <2>7, <2>8 DEF SendBlock, ServerOK, PublishedOK, SuccessIsStored
<1>7. CASE SendEnd
  <2>1. Frame("end", NoFile, NoFile) \in RequestFrames /\ TrueUp(Frame("end", NoFile, NoFile))
    BY DEF Frame, RequestFrames, TrueUp
  <2>2. /\ up' \in Seq(RequestFrames) /\ Len(up') <= Capacity
        /\ \A i \in 1..Len(up') : TrueUp(up'[i])
    BY <1>7, <2>1, SendUpTrue DEF SendEnd
  <2>3. RequestsOK' /\ RepliesOK'
    BY <1>7, <2>2, UpKeptBy, DownKept DEF SendEnd
  <2>4. TypeOK'
    BY <1>7, <2>2 DEF SendEnd, TypeOK, ClientWorking
  <2> QED
    BY <1>7, <2>3, <2>4 DEF SendEnd, ServerOK, PublishedOK, SuccessIsStored
<1>8. CASE ReceiveResult
  <2>1. /\ down' \in Seq(ReplyFrames) /\ Len(down') <= Capacity
        /\ \A i \in 1..Len(down') : TrueDown(down'[i])
        /\ published = hashed
    BY <1>8, FromServerTrue DEF ReceiveResult, TrueDown
  <2>2. RequestsOK' /\ RepliesOK'
    BY <1>8, <2>1, UpKept, DownKeptBy DEF ReceiveResult
  <2>3. TypeOK'
    BY <1>8, <2>1 DEF ReceiveResult, TypeOK
  <2> QED
    BY <1>8, <2>1, <2>2, <2>3 DEF ReceiveResult, ServerOK, PublishedOK, SuccessIsStored
<1> QED
  BY <1>1, <1>2, <1>3, <1>4, <1>5, <1>6, <1>7, <1>8 DEF ClientStep

LEMMA ServerInv ==
  ASSUME UploadInv, ServerStep
  PROVE  UploadInv'
<1> USE DEF UploadInv, disk, clientVars, serverVars, connection
<1>0. NoFile \notin Files /\ hashed \in Files
  BY NoFileAssumption DEF TypeOK
<1>1. CASE ReceiveStart
  <2>1. /\ up' \in Seq(RequestFrames) /\ Len(up') <= Capacity
        /\ \A i \in 1..Len(up') : TrueUp(up'[i])
        /\ client # "hash"
        /\ Head(up).size = Len(hashed) /\ Head(up).digest = hashed /\ Head(up).delta \in BOOLEAN
    BY <1>1, FromClientTrue DEF ReceiveStart, TrueUp
  <2>2. /\ declared' \in [size : 0..MaxBlocks, digest : Files, delta : BOOLEAN]
        /\ declared'.size = Len(hashed) /\ declared'.digest = hashed
        /\ declared'.delta = Head(up).delta
    BY <1>0, <1>1, <2>1, UploadedAreSequences DEF ReceiveStart
  <2>3. baseSize' \in 0..MaxBlocks /\ (declared'.delta => base \in Files)
    BY <1>1, <2>2, UploadedAreSequences, BoundsAssumption DEF ReceiveStart, TypeOK
  <2>4. file = <<>> /\ Len(file) <= declared'.size
    BY <1>0, <1>1, <2>2, EmptyIsUploaded, UploadedAreSequences DEF ReceiveStart, ServerOK
  <2>5. RequestsOK' /\ RepliesOK'
    BY <1>1, <2>1, UpKeptBy, DownKept DEF ReceiveStart
  <2>6. TypeOK'
    BY <1>1, <2>1, <2>2, <2>3, <2>4 DEF ReceiveStart, TypeOK, ServerWorking
  <2>7. ServerOK'
    BY <1>1, <2>1, <2>2, <2>3 DEF ReceiveStart, ServerOK
  <2> QED
    BY <1>1, <2>5, <2>6, <2>7 DEF ReceiveStart, PublishedOK, SuccessIsStored
<1>2. CASE SendReady
  <2>1. /\ Frame("ready", NoFile, NoFile) \in ReplyFrames
        /\ TrueDown(Frame("ready", NoFile, NoFile))
    BY DEF Frame, ReplyFrames, TrueDown
  <2>2. /\ down' \in Seq(ReplyFrames) /\ Len(down') <= Capacity
        /\ \A i \in 1..Len(down') : TrueDown(down'[i])
    BY <1>2, <2>1, SendDownTrue DEF SendReady
  <2>3. RequestsOK' /\ RepliesOK'
    BY <1>2, <2>2, UpKept, DownKeptBy DEF SendReady
  <2>4. server' \in {"index", "receive"} /\ (server' = "index" => declared.delta)
    BY <1>2 DEF SendReady
  <2>5. TypeOK'
    BY <1>2, <2>2, <2>4 DEF SendReady, TypeOK, ServerWorking
  <2>6. ServerOK'
    BY <1>2, <2>4 DEF SendReady, ServerOK
  <2> QED
    BY <1>2, <2>3, <2>5, <2>6 DEF SendReady, PublishedOK, SuccessIsStored
<1>3. CASE SendHash
  <2>1. base \in Seq(Blocks) /\ Len(base) \in Nat
    BY <1>3, UploadedAreSequences DEF SendHash, ServerOK
  <2>2. indexed \in Nat /\ indexed < Len(base) /\ indexed < declared.size
        /\ declared.size \in 0..MaxBlocks
    BY <1>3, <2>1, BoundsAssumption DEF SendHash, Indexable, Lesser, TypeOK
  <2>3. base[indexed + 1] \in Blocks /\ indexed + 1 \in 0..MaxBlocks
    BY <2>1, <2>2, BoundsAssumption
  <2> DEFINE frame == Frame("hash", base[indexed + 1], NoFile)
  <2>4. frame \in ReplyFrames /\ TrueDown(frame)
    BY <2>3 DEF Frame, ReplyFrames, TrueDown
  <2>5. /\ down' \in Seq(ReplyFrames) /\ Len(down') <= Capacity
        /\ \A i \in 1..Len(down') : TrueDown(down'[i])
    BY <1>3, <2>4, SendDownTrue DEF SendHash
  <2>6. RequestsOK' /\ RepliesOK'
    BY <1>3, <2>5, UpKept, DownKeptBy DEF SendHash
  <2>7. TypeOK'
    BY <1>3, <2>3, <2>5 DEF SendHash, TypeOK
  <2> QED
    BY <1>3, <2>6, <2>7 DEF SendHash, ServerOK, PublishedOK, SuccessIsStored
<1>4. CASE SendHashEnd
  <2>1. /\ Frame("hashEnd", NoFile, NoFile) \in ReplyFrames
        /\ TrueDown(Frame("hashEnd", NoFile, NoFile))
    BY DEF Frame, ReplyFrames, TrueDown
  <2>2. /\ down' \in Seq(ReplyFrames) /\ Len(down') <= Capacity
        /\ \A i \in 1..Len(down') : TrueDown(down'[i])
    BY <1>4, <2>1, SendDownTrue DEF SendHashEnd
  <2>3. RequestsOK' /\ RepliesOK'
    BY <1>4, <2>2, UpKept, DownKeptBy DEF SendHashEnd
  <2>4. TypeOK'
    BY <1>4, <2>2 DEF SendHashEnd, TypeOK, ServerWorking
  <2> QED
    BY <1>4, <2>3, <2>4 DEF SendHashEnd, ServerOK, PublishedOK, SuccessIsStored
<1>5. ASSUME NEW block \in Blocks, HasRoom, file' = Append(file, block),
             UNCHANGED <<disk, clientVars, server, declared, baseSize, indexed, published, cut>>,
             UNCHANGED down, server = "receive", RequestsOK', Len(up') <= Capacity
      PROVE  UploadInv'
  <2>1. /\ file \in Seq(Blocks) /\ Len(file) < declared.size
        /\ declared.size \in 0..MaxBlocks
    BY <1>5, UploadedAreSequences DEF HasRoom, TypeOK
  <2>2. /\ file' \in Seq(Blocks) /\ Len(file') <= declared.size /\ Len(file') <= MaxBlocks
    BY <1>5, <2>1, BoundsAssumption
  <2>3. file' \in Files
    BY <2>2, SequencesAreUploaded
  <2>4. RepliesOK'
    BY <1>5, DownKept
  <2>5. TypeOK'
    BY <1>5, <2>2, <2>3 DEF TypeOK
  <2> QED
    BY <1>5, <2>4, <2>5 DEF ServerOK, PublishedOK, SuccessIsStored
<1>6. CASE ReceiveChunk
  <2>1. /\ up' \in Seq(RequestFrames) /\ Len(up') <= Capacity
        /\ \A i \in 1..Len(up') : TrueUp(up'[i])
        /\ client # "hash" /\ Head(up).block \in Blocks
    BY <1>6, FromClientTrue DEF ReceiveChunk, TrueUp
  <2>2. RequestsOK'
    BY <1>6, <2>1, UpKeptBy DEF ReceiveChunk
  <2> QED
    BY <1>5, <1>6, <2>1, <2>2 DEF ReceiveChunk
<1>7. CASE ReceiveCopy
  <2>1. /\ up' \in Seq(RequestFrames) /\ Len(up') <= Capacity
        /\ \A i \in 1..Len(up') : TrueUp(up'[i])
        /\ client # "hash" /\ Head(up).offset \in Nat
    BY <1>7, FromClientTrue DEF ReceiveCopy, TrueUp
  <2>2. RequestsOK'
    BY <1>7, <2>1, UpKeptBy DEF ReceiveCopy
  <2>3. base \in Seq(Blocks) /\ Head(up).offset < Len(base)
    BY <1>7, UploadedAreSequences DEF ReceiveCopy, ValidReference, Readable, ServerOK
  <2>4. Referenced(Head(up).offset) \in Blocks
    BY <2>1, <2>3 DEF Referenced
  <2> QED
    BY <1>5, <1>7, <2>1, <2>2, <2>4 DEF ReceiveCopy
<1>8. CASE ReceiveEnd
  <2>1. /\ up' \in Seq(RequestFrames) /\ Len(up') <= Capacity
        /\ \A i \in 1..Len(up') : TrueUp(up'[i])
        /\ client # "hash"
    BY <1>8, FromClientTrue DEF ReceiveEnd
  <2>2. RequestsOK' /\ RepliesOK'
    BY <1>8, <2>1, UpKeptBy, DownKept DEF ReceiveEnd
  <2>3. TypeOK'
    BY <1>8, <2>1 DEF ReceiveEnd, TypeOK, ServerWorking
  <2> QED
    BY <1>8, <2>2, <2>3 DEF ReceiveEnd, ServerOK, PublishedOK, SuccessIsStored
<1>9. CASE Verify
  <2>1. RequestsOK' /\ RepliesOK'
    BY <1>9, UpKept, DownKept DEF Verify
  <2>2. TypeOK'
    BY <1>9 DEF Verify, TypeOK, ServerWorking
  <2> QED
    BY <1>9, <2>1, <2>2 DEF Verify, Matches, ServerOK, PublishedOK, SuccessIsStored
<1>10. CASE Publish
  <2>1. file = hashed /\ published' = hashed /\ client # "hash"
    BY <1>10 DEF Publish, ServerOK
  <2>2. RequestsOK'
    BY <1>10, UpKept DEF Publish
  <2>3. RepliesOK'
    BY <1>10, <2>1 DEF Publish, RepliesOK, TrueDown
  <2>4. TypeOK'
    BY <1>10 DEF Publish, TypeOK, ServerWorking
  <2> QED
    BY <1>10, <2>1, <2>2, <2>3, <2>4 DEF Publish, ServerOK, PublishedOK, SuccessIsStored
<1>11. CASE SendResult
  <2>1. /\ Frame("result", NoFile, NoFile) \in ReplyFrames
        /\ TrueDown(Frame("result", NoFile, NoFile))
    BY <1>11 DEF SendResult, ServerOK, Frame, ReplyFrames, TrueDown
  <2>2. /\ down' \in Seq(ReplyFrames) /\ Len(down') <= Capacity
        /\ \A i \in 1..Len(down') : TrueDown(down'[i])
    BY <1>11, <2>1, SendDownTrue DEF SendResult
  <2>3. RequestsOK' /\ RepliesOK'
    BY <1>11, <2>2, UpKept, DownKeptBy DEF SendResult
  <2>4. TypeOK'
    BY <1>11, <2>2 DEF SendResult, TypeOK
  <2> QED
    BY <1>11, <2>3, <2>4 DEF SendResult, ServerOK, PublishedOK, SuccessIsStored
<1> QED
  BY <1>1, <1>2, <1>3, <1>4, <1>6, <1>7, <1>8, <1>9, <1>10, <1>11 DEF ServerStep

LEMMA NextInv == UploadInv /\ [Next]_vars => UploadInv'
<1> SUFFICES ASSUME UploadInv, [Next]_vars PROVE UploadInv'
  OBVIOUS
<1>1. ClientFault \/ ClientError => ClientThrows
  BY Zenon DEF ClientFault, ClientError
<1>2. ServerFault \/ ServerError => ServerThrows
  BY Zenon DEF ServerFault, ServerError
<1>3. CASE UNCHANGED vars
  <2>1. RequestsOK' /\ RepliesOK'
    BY <1>3, UpKept, DownKept
       DEF UploadInv, vars, disk, clientVars, serverVars, connection
  <2> QED
    BY <1>3, <2>1 DEF UploadInv, vars, disk, clientVars, serverVars, connection, TypeOK,
       ServerOK, PublishedOK, SuccessIsStored
<1>4. Next => \/ Rewrite \/ LoseBase \/ RewriteBase \/ Cut
             \/ ClientThrows \/ ServerThrows \/ ClientStep \/ ServerStep
  BY <1>1, <1>2, Zenon DEF Next
<1> QED
  BY <1>3, <1>4, FaultsInv, ClientInv, ServerInv

LEMMA SpecInv == Spec => []UploadInv
  BY InitInv, NextInv, PTL DEF Spec

-----------------------------------------------------------------------------
\* The variables of an upload keep their types; the staging file of the server
\* never grows past the declared size, whatever the client sends.
THEOREM TypeCorrect == Spec => []TypeOK
  BY SpecInv, PTL DEF UploadInv

\* Whatever handleUpload publishes is, byte for byte, the archive whose digest
\* the client declared, and when upload() returns true it is published.
THEOREM StoredCorrect == Spec => []StoredIsDeclared
<1>1. UploadInv => StoredIsDeclared
  BY DEF UploadInv, PublishedOK, StoredIsDeclared, PublishedIsDeclared
<1> QED
  BY <1>1, SpecInv, PTL


-----------------------------------------------------------------------------
(* The history.  An upload whose metadata have ever been there is past the *)
(* point where it can be stamped; an acknowledged one stays; while the     *)
(* directory is read, a name that was returned has been read or is next.   *)

\* The handler has tried to commit the metadata.
Tried == {"stored", "answered", "unmeta", "unarchive", "failed"}

StoredOK ==
  \A u \in Uploads :
    /\ phase[u] = "meta" => u \in archive
    /\ phase[u] \in {"stored", "answered"} => u \in meta /\ u \in archive
    /\ u \in meta => phase[u] \in Tried

ListingOK ==
  /\ visited \subseteq Uploads /\ known \subseteq H!Acknowledged
  /\ \A u \in visited : phase[u] \in Tried
  /\ list = "idle" => visited = {} /\ current = None
  /\ list = "read" =>
       /\ \A u \in visited : u \in entries \/ u = current
       /\ current = None \/ current \in visited
  /\ list = "done" =>
       /\ known \subseteq entries
       /\ entries # {} => chosen \in entries
       /\ \A u \in entries : stamp[u] <= stamp[chosen]

HistoryInv == H!TypeOK /\ StoredOK /\ ListingOK

LEMMA HistoryInit ==
  ASSUME H!Init PROVE HistoryInv
  BY HistoryAssumption DEF H!NoneAssumption, H!Init, HistoryInv, H!TypeOK, H!Phases, H!Holding,
     StoredOK, ListingOK, H!Acknowledged

\* What a step of a handler changes: its own phase, and nothing of a listing.
LEMMA HandlerKeepsListing ==
  ASSUME HistoryInv, NEW u \in Uploads, NEW to \in H!Phases, phase' = [phase EXCEPT ![u] = to],
         phase[u] # "answered", phase[u] \in Tried => to \in Tried,
         H!Quiet \/ UNCHANGED <<clock, H!listing>>, UNCHANGED stamp
  PROVE  ListingOK'
  BY DEF HistoryInv, H!TypeOK, ListingOK, H!Quiet, H!listing, H!Acknowledged, Tried

LEMMA UploadKeepsHistory ==
  ASSUME HistoryInv, NEW u \in Uploads, H!Upload(u) PROVE HistoryInv'
<1> USE DEF H!Step, H!disk
<1>n. None \notin Uploads
  BY HistoryAssumption DEF H!NoneAssumption
<1>1. CASE H!Stamp(u)
  <2>1. phase[u] = "receive" /\ u \notin visited
    BY <1>1 DEF H!Stamp, HistoryInv, ListingOK, Tried
  <2>2. H!TypeOK'
    BY <1>1, <1>n DEF H!Stamp, H!Quiet, H!listing, HistoryInv, H!TypeOK, H!Phases, H!Holding
  <2>3. StoredOK'
    BY <1>1, <2>1 DEF H!Stamp, HistoryInv, H!TypeOK, StoredOK, Tried
  <2>4. ListingOK'
    BY <1>1, <2>1 DEF H!Stamp, H!Quiet, H!listing, HistoryInv, H!TypeOK, ListingOK,
       H!Acknowledged, Tried
  <2> QED
    BY <2>2, <2>3, <2>4 DEF HistoryInv
<1>2. CASE H!Lock(u)
  <2>1. H!TypeOK'
    BY <1>2, <1>n DEF H!Lock, H!Quiet, H!listing, HistoryInv, H!TypeOK, H!Phases, H!Holding
  <2>2. StoredOK'
    BY <1>2 DEF H!Lock, HistoryInv, H!TypeOK, StoredOK, Tried
  <2>3. ListingOK'
    BY <1>2, HandlerKeepsListing DEF H!Lock, H!Phases, H!Holding, Tried
  <2> QED
    BY <2>1, <2>2, <2>3 DEF HistoryInv
<1>3. CASE H!Admit(u)
  <2>1. H!TypeOK'
    BY <1>3, <1>n DEF H!Admit, H!Quiet, H!listing, HistoryInv, H!TypeOK, H!Phases, H!Holding
  <2>2. StoredOK'
    BY <1>3 DEF H!Admit, HistoryInv, H!TypeOK, StoredOK, Tried
  <2>3. ListingOK'
    BY <1>3, HandlerKeepsListing DEF H!Admit, H!Phases, H!Holding, Tried
  <2> QED
    BY <2>1, <2>2, <2>3 DEF HistoryInv
<1>4. CASE H!CommitArchive(u)
  <2>1. H!TypeOK'
    BY <1>4, <1>n DEF H!CommitArchive, H!Quiet, H!listing, HistoryInv, H!TypeOK, H!Phases, H!Holding
  <2>2. StoredOK'
    BY <1>4 DEF H!CommitArchive, HistoryInv, H!TypeOK, StoredOK, Tried
  <2>3. ListingOK'
    BY <1>4, HandlerKeepsListing DEF H!CommitArchive, H!Phases, H!Holding, Tried
  <2> QED
    BY <2>1, <2>2, <2>3 DEF HistoryInv
<1>5. CASE H!CommitMeta(u)
  <2>1. H!TypeOK'
    BY <1>5, <1>n DEF H!CommitMeta, H!Quiet, H!listing, HistoryInv, H!TypeOK, H!Phases, H!Holding
  <2>2. StoredOK'
    BY <1>5 DEF H!CommitMeta, HistoryInv, H!TypeOK, StoredOK, Tried
  <2>3. ListingOK'
    BY <1>5, HandlerKeepsListing DEF H!CommitMeta, H!Phases, H!Holding, Tried
  <2> QED
    BY <2>1, <2>2, <2>3 DEF HistoryInv
<1>6. CASE H!CommitFails(u)
  <2>1. H!TypeOK'
    BY <1>6, <1>n DEF H!CommitFails, H!Quiet, H!listing, HistoryInv, H!TypeOK, H!Phases, H!Holding
  <2>2. StoredOK'
    BY <1>6 DEF H!CommitFails, HistoryInv, H!TypeOK, StoredOK, Tried
  <2>3. ListingOK'
    BY <1>6, HandlerKeepsListing DEF H!CommitFails, H!Phases, H!Holding, Tried
  <2> QED
    BY <2>1, <2>2, <2>3 DEF HistoryInv
<1>7. CASE H!RemoveMeta(u)
  <2>1. H!TypeOK'
    BY <1>7, <1>n DEF H!RemoveMeta, H!Quiet, H!listing, HistoryInv, H!TypeOK, H!Phases, H!Holding
  <2>2. StoredOK'
    BY <1>7 DEF H!RemoveMeta, HistoryInv, H!TypeOK, StoredOK, Tried
  <2>3. ListingOK'
    BY <1>7, HandlerKeepsListing DEF H!RemoveMeta, H!Phases, H!Holding, Tried
  <2> QED
    BY <2>1, <2>2, <2>3 DEF HistoryInv
<1>8. CASE H!RemoveArchive(u)
  <2>1. H!TypeOK'
    BY <1>8, <1>n DEF H!RemoveArchive, H!Quiet, H!listing, HistoryInv, H!TypeOK, H!Phases, H!Holding
  <2>2. StoredOK'
    BY <1>8 DEF H!RemoveArchive, HistoryInv, H!TypeOK, StoredOK, Tried
  <2>3. ListingOK'
    BY <1>8, HandlerKeepsListing DEF H!RemoveArchive, H!Phases, H!Holding, Tried
  <2> QED
    BY <2>1, <2>2, <2>3 DEF HistoryInv
<1>9. CASE H!Answer(u)
  <2>1. H!TypeOK'
    BY <1>9, <1>n DEF H!Answer, H!listing, HistoryInv, H!TypeOK, H!Phases, H!Holding
  <2>2. StoredOK'
    BY <1>9 DEF H!Answer, HistoryInv, H!TypeOK, StoredOK, Tried
  <2>3. ListingOK'
    BY <1>9, HandlerKeepsListing DEF H!Answer, H!Phases, H!Holding, Tried
  <2> QED
    BY <2>1, <2>2, <2>3 DEF HistoryInv
<1> QED
  BY <1>1, <1>2, <1>3, <1>4, <1>5, <1>6, <1>7, <1>8, <1>9 DEF H!Upload

\* The listing takes no part in what the handlers do.
LEMMA ListingKeepsStored ==
  ASSUME HistoryInv, H!Uploading PROVE StoredOK'
  BY DEF H!Uploading, H!disk, HistoryInv, StoredOK

LEMMA HistoryNext ==
  ASSUME HistoryInv, [H!Next]_(H!vars) PROVE HistoryInv'
<1>n. None \notin Uploads
  BY HistoryAssumption DEF H!NoneAssumption
<1>1. CASE H!Tick
  BY <1>1 DEF H!Tick, H!disk, H!listing, HistoryInv, H!TypeOK, StoredOK, ListingOK, H!Acknowledged
<1>2. ASSUME NEW u \in Uploads, H!Upload(u) PROVE HistoryInv'
  BY <1>2, UploadKeepsHistory
<1>3. CASE H!OpenDirectory
  <2>1. H!TypeOK'
    BY <1>3, <1>n DEF H!OpenDirectory, H!Uploading, H!disk, HistoryInv, H!TypeOK, StoredOK, ListingOK,
       H!Acknowledged, Tried
  <2>2. ListingOK'
    BY <1>3, <1>n DEF H!OpenDirectory, H!Uploading, H!disk, HistoryInv, H!TypeOK, StoredOK, ListingOK,
       H!Acknowledged, Tried
  <2> QED
    BY <1>3, <2>1, <2>2, ListingKeepsStored DEF H!OpenDirectory, HistoryInv
<1>4. CASE H!NextName
  <2>1. H!TypeOK'
    BY <1>4, <1>n DEF H!NextName, H!Uploading, H!disk, HistoryInv, H!TypeOK, StoredOK, ListingOK,
       H!Acknowledged, Tried
  <2>2. ListingOK'
    BY <1>4, <1>n DEF H!NextName, H!Uploading, H!disk, HistoryInv, H!TypeOK, StoredOK, ListingOK,
       H!Acknowledged, Tried
  <2> QED
    BY <1>4, <2>1, <2>2, ListingKeepsStored DEF H!NextName, HistoryInv
<1>5. CASE H!ReadMeta
  <2>1. \/ current \in meta /\ entries' = entries \cup {current} /\ list' = "read"
        \/ entries' = entries /\ list' = "failed"
    BY <1>5 DEF H!ReadMeta
  <2>2. /\ current # None /\ list = "read" /\ current' = None
        /\ UNCHANGED <<visited, known, newest, chosen>> /\ H!Uploading
    BY <1>5 DEF H!ReadMeta
  <2>3. current \in visited
    BY <2>2 DEF HistoryInv, ListingOK
  <2>4. H!TypeOK'
    BY <2>1, <2>2, <2>3 DEF H!Uploading, H!disk, HistoryInv, H!TypeOK
  <2>5. ListingOK'
    BY <2>1, <2>2 DEF H!Uploading, HistoryInv, ListingOK, H!Acknowledged
  <2> QED
    BY <2>2, <2>4, <2>5, ListingKeepsStored DEF HistoryInv
<1>6. CASE H!ListEnd
  <2>1. H!TypeOK'
    <3>1. chosen' \in Uploads \cup {None}
      BY <1>6 DEF H!ListEnd, HistoryInv, H!TypeOK, ListingOK
    <3>2. list' = "done" /\ UNCHANGED <<visited, current, entries, known, newest>> /\ H!Uploading
      BY <1>6 DEF H!ListEnd
    <3> QED
      BY <3>1, <3>2 DEF H!Uploading, H!disk, HistoryInv, H!TypeOK
  <2>2. visited = entries /\ known \subseteq meta
    <3>1. visited = entries
      BY <1>6, <1>n DEF H!ListEnd, HistoryInv, H!TypeOK, ListingOK
    <3>2. known \subseteq meta
      BY DEF HistoryInv, StoredOK, ListingOK, H!Acknowledged
    <3> QED
      BY <3>1, <3>2
  <2>3. known \subseteq entries
    BY <1>6, <2>2 DEF H!ListEnd, H!DirectoryEnd
  <2>4. entries # {} => chosen' \in entries /\ \A u \in entries : ~(stamp[u] > stamp[chosen'])
    BY <1>6 DEF H!ListEnd, H!Newer
  <2>5. \A u \in entries : stamp[u] \in Nat
    BY <2>2, HistoryAssumption DEF H!NoneAssumption, HistoryInv, ListingOK, H!TypeOK
  <2>6. \A u \in entries : stamp[u] <= stamp[chosen']
    BY <2>4, <2>5
  <2>7. ListingOK'
    BY <1>6, <2>3, <2>4, <2>6 DEF H!ListEnd, H!Uploading, HistoryInv, ListingOK, H!Acknowledged
  <2> QED
    BY <1>6, <2>1, <2>7, ListingKeepsStored DEF H!ListEnd, HistoryInv
<1>7. CASE UNCHANGED H!vars
  BY <1>7 DEF H!vars, H!disk, H!listing, HistoryInv, H!TypeOK, StoredOK, ListingOK, H!Acknowledged
<1> QED
  BY <1>1, <1>2, <1>3, <1>4, <1>5, <1>6, <1>7 DEF H!Next

LEMMA HistoryPromises ==
  ASSUME HistoryInv PROVE H!TypeOK /\ H!ListIsComplete /\ H!ListedIsStored /\ H!BaseIsNotOlder
<1>1. H!ListIsComplete
  BY DEF HistoryInv, ListingOK, H!ListIsComplete
<1>2. H!ListedIsStored
  BY DEF HistoryInv, H!TypeOK, StoredOK, ListingOK, H!ListedIsStored, Tried
<1>3. H!BaseIsNotOlder
  BY HistoryAssumption DEF H!NoneAssumption, HistoryInv, H!TypeOK, ListingOK, H!BaseIsNotOlder
<1> QED
  BY <1>1, <1>2, <1>3 DEF HistoryInv

-----------------------------------------------------------------------------
(* A download.  The strengthening follows the recorded file through the    *)
(* connection: a start frame carries it, what the client has taken from    *)
(* one is it, and the temporary file equals it by the time it is given its *)
(* name.                                                                   *)

DownFrames ==
  [type : {"start", "chunk", "end", "error"}, block : D!Files \cup Blocks \cup {Nothing}]

DownOK ==
  /\ toClient \in Seq(DownFrames)
  /\ \A i \in 1..Len(toClient) :
       /\ toClient[i].type = "start" => toClient[i].block = recorded
       /\ toClient[i].type = "chunk" => toClient[i].block \in Blocks

ClientOK ==
  /\ receiving \in {"receive", "verify", "commit"} => expected = recorded /\ staging # Nothing
  /\ receiving = "commit" => staging = recorded

DownloadInv == D!TypeOK /\ DownOK /\ ClientOK /\ D!OutputIsRecorded

-----------------------------------------------------------------------------
\* A file is a sequence of blocks of bounded length, and conversely.
LEMMA FilesAreSequences ==
  ASSUME NEW f \in D!Files
  PROVE  f \in Seq(Blocks) /\ Len(f) \in 0..MaxBlocks
<1>1. PICK n \in 0..MaxBlocks : f \in [1..n -> Blocks]
  BY DEF D!Files
<1> QED
  BY <1>1, DownloadAssumption DEF D!BoundsAssumption

LEMMA SequencesAreFiles ==
  ASSUME NEW f \in Seq(Blocks), Len(f) <= MaxBlocks
  PROVE  f \in D!Files
<1>1. Len(f) \in 0..MaxBlocks /\ f \in [1..Len(f) -> Blocks]
  BY DownloadAssumption DEF D!BoundsAssumption
<1> QED
  BY <1>1 DEF D!Files

LEMMA EmptyIsFile ==
  <<>> \in D!Files /\ Len(<<>>) = 0
<1>1. <<>> \in Seq(Blocks) /\ Len(<<>>) <= MaxBlocks
  BY DownloadAssumption DEF D!BoundsAssumption
<1> QED
  BY <1>1, SequencesAreFiles

\* A frame is taken from the head of the queue, one is put at its end.
LEMMA TakeKeepsDown ==
  ASSUME DownOK, NEW type, D!FromServer(type), recorded' = recorded
  PROVE  DownOK' /\ Head(toClient) = toClient[1] /\ Head(toClient) \in DownFrames
          /\ 1 \in 1..Len(toClient)
  BY DEF DownOK, D!FromServer

LEMMA SendKeepsDown ==
  ASSUME DownOK, NEW frame \in DownFrames, D!SendDown(frame), recorded' = recorded,
         frame.type = "start" => frame.block = recorded,
         frame.type = "chunk" => frame.block \in Blocks
  PROVE  DownOK' /\ Len(toClient') <= Capacity
<1>1. toClient' = Append(toClient, frame) /\ Len(toClient) < Capacity /\ Len(toClient) \in Nat
  BY DEF D!SendDown, DownOK
<1>2. toClient' \in Seq(DownFrames) /\ Len(toClient') = Len(toClient) + 1
  BY <1>1 DEF DownOK
<1>3. \A i \in 1..Len(toClient') :
        toClient'[i] = IF i = Len(toClient) + 1 THEN frame ELSE toClient[i]
  BY <1>1, <1>2 DEF DownOK
<1>4. DownOK'
  BY <1>2, <1>3, <1>1 DEF DownOK
<1> QED
  BY <1>4, <1>1, <1>2, DownloadAssumption DEF D!BoundsAssumption

-----------------------------------------------------------------------------
LEMMA DownloadInit ==
  ASSUME D!Init PROVE DownloadInv
<1>1. <<>> \in D!Files /\ Len(<<>>) = 0
  BY EmptyIsFile
<1>2. D!TypeOK
  <2>1. MaxBlocks \in Nat /\ 0 \in 0..MaxBlocks /\ Capacity \in Nat
    BY DownloadAssumption DEF D!BoundsAssumption
  <2>2. Len(toClient) <= Capacity
    BY <1>1, <2>1 DEF D!Init
  <2> QED
    BY <1>1, <2>1, <2>2 DEF D!Init, D!TypeOK, D!ServerWorking, D!ClientWorking
<1>3. DownOK /\ ClientOK
  BY DEF D!Init, DownOK, ClientOK
<1>4. D!OutputIsRecorded
  BY DownloadAssumption DEF D!SentinelAssumption, D!Init, D!OutputIsRecorded
<1> QED
  BY <1>2, <1>3, <1>4 DEF DownloadInv

LEMMA DownloadNext ==
  ASSUME DownloadInv, [D!Next]_(D!vars) PROVE DownloadInv'
<1> USE DEF DownloadInv, D!storeVars, D!serverVars, D!connection, D!clientVars, D!ServerWorking,
   D!ClientWorking
<1>1. CASE D!Damage
  BY <1>1 DEF D!Damage, D!TypeOK, DownOK, ClientOK, D!OutputIsRecorded
<1>2. CASE D!Cut
  <2>1. D!TypeOK'
    BY <1>2, DownloadAssumption DEF D!BoundsAssumption, D!Cut, D!TypeOK
  <2> QED
    BY <1>2, <2>1 DEF D!Cut, DownOK, ClientOK, D!OutputIsRecorded
<1>3. CASE D!Interfere
  BY <1>3, DownloadAssumption DEF D!SentinelAssumption, D!Interfere, D!TypeOK, DownOK, ClientOK,
     D!OutputIsRecorded
<1>4. CASE D!CheckArchive
  BY <1>4 DEF D!CheckArchive, D!TypeOK, DownOK, ClientOK, D!OutputIsRecorded
<1>5. CASE D!SendStart
  <2>1. [type |-> "start", block |-> recorded] \in DownFrames
    BY DEF D!TypeOK, DownFrames
  <2>2. DownOK' /\ Len(toClient') <= Capacity
    BY <1>5, <2>1, SendKeepsDown DEF D!SendStart
  <2> QED
    BY <1>5, <2>2 DEF D!SendStart, D!TypeOK, ClientOK, D!OutputIsRecorded
<1>6. CASE D!SendChunk
  <2>1. Len(archive) \in 0..MaxBlocks /\ archive \in Seq(Blocks)
    BY FilesAreSequences DEF D!TypeOK
  <2>2. archive[at + 1] \in Blocks /\ at' \in 0..MaxBlocks
    BY <1>6, <2>1, DownloadAssumption DEF D!BoundsAssumption, D!SendChunk, D!TypeOK
  <2>3. [type |-> "chunk", block |-> archive[at + 1]] \in DownFrames
    BY <2>2 DEF DownFrames
  <2>4. DownOK' /\ Len(toClient') <= Capacity
    BY <1>6, <2>2, <2>3, SendKeepsDown DEF D!SendChunk
  <2> QED
    BY <1>6, <2>2, <2>4 DEF D!SendChunk, D!TypeOK, ClientOK, D!OutputIsRecorded
<1>7. CASE D!SendEnd
  <2>1. [type |-> "end", block |-> Nothing] \in DownFrames
    BY DEF DownFrames
  <2>2. DownOK' /\ Len(toClient') <= Capacity
    BY <1>7, <2>1, SendKeepsDown DEF D!SendEnd
  <2> QED
    BY <1>7, <2>2 DEF D!SendEnd, D!TypeOK, ClientOK, D!OutputIsRecorded
<1>8. CASE D!ServerFails
  <2>1. [type |-> "error", block |-> Nothing] \in DownFrames
    BY DEF DownFrames
  <2>2. DownOK' /\ Len(toClient') <= Capacity
    <3>1. CASE UNCHANGED toClient
      BY <1>8, <3>1 DEF D!ServerFails, DownOK, D!TypeOK
    <3>2. CASE D!SendDown([type |-> "error", block |-> Nothing])
      BY <1>8, <2>1, <3>2, SendKeepsDown DEF D!ServerFails
    <3> QED
      BY <1>8, <3>1, <3>2 DEF D!ServerFails
  <2> QED
    BY <1>8, <2>2 DEF D!ServerFails, D!TypeOK, ClientOK, D!OutputIsRecorded
<1>9. CASE D!ReceiveStart
  <2>1. DownOK' /\ Len(toClient') <= Capacity
    <3>1. DownOK'
      BY <1>9, TakeKeepsDown DEF D!ReceiveStart
    <3> QED
      BY <1>9, <3>1, DownloadAssumption DEF D!BoundsAssumption, D!ReceiveStart, D!FromServer,
         D!TypeOK, DownOK
  <2>2. Head(toClient).block = recorded
    BY <1>9, TakeKeepsDown DEF D!ReceiveStart, D!FromServer, DownOK
  <2>3. <<>> \in D!Files /\ Len(<<>>) = 0 /\ <<>> # Nothing
    BY EmptyIsFile, DownloadAssumption DEF D!SentinelAssumption
  <2>4. Len(recorded) >= 0
    BY FilesAreSequences DEF D!TypeOK
  <2>5. D!TypeOK'
    BY <1>9, <2>1, <2>2, <2>3, <2>4 DEF D!ReceiveStart, D!TypeOK
  <2> QED
    BY <1>9, <2>1, <2>2, <2>3, <2>5 DEF D!ReceiveStart, ClientOK, D!OutputIsRecorded
<1>10. CASE D!ReceiveChunk
  <2>1. DownOK'
    BY <1>10, TakeKeepsDown DEF D!ReceiveChunk
  <2>2. Len(toClient') <= Capacity
    BY <1>10, DownloadAssumption DEF D!BoundsAssumption, D!ReceiveChunk, D!FromServer, D!TypeOK,
       DownOK
  <2>3. Head(toClient).block \in Blocks
    BY <1>10, TakeKeepsDown DEF D!ReceiveChunk, D!FromServer, DownOK
  <2>4. staging \in D!Files /\ expected \in D!Files
    BY <1>10 DEF D!ReceiveChunk, D!TypeOK, ClientOK
  <2>5. /\ staging \in Seq(Blocks) /\ Len(staging) < Len(expected)
        /\ Len(expected) \in 0..MaxBlocks
    BY <1>10, <2>4, FilesAreSequences DEF D!ReceiveChunk, D!HasRoom
  <2>6. staging' \in Seq(Blocks) /\ Len(staging') <= Len(expected) /\ Len(staging') <= MaxBlocks
    BY <1>10, <2>3, <2>5, DownloadAssumption DEF D!BoundsAssumption, D!ReceiveChunk
  <2>7. staging' \in D!Files /\ staging' # Nothing
    BY <2>6, SequencesAreFiles, DownloadAssumption DEF D!SentinelAssumption
  <2>8. D!TypeOK'
    BY <1>10, <2>2, <2>6, <2>7 DEF D!ReceiveChunk, D!TypeOK
  <2> QED
    BY <1>10, <2>1, <2>7, <2>8 DEF D!ReceiveChunk, ClientOK, D!OutputIsRecorded
<1>11. CASE D!ReceiveEnd
  <2>1. DownOK'
    BY <1>11, TakeKeepsDown DEF D!ReceiveEnd
  <2>2. Len(toClient') <= Capacity
    BY <1>11, DownloadAssumption DEF D!BoundsAssumption, D!ReceiveEnd, D!FromServer, D!TypeOK,
       DownOK
  <2> QED
    BY <1>11, <2>1, <2>2 DEF D!ReceiveEnd, D!TypeOK, ClientOK, D!OutputIsRecorded
<1>12. CASE D!Verify
  BY <1>12 DEF D!Verify, D!Matches, D!TypeOK, DownOK, ClientOK, D!OutputIsRecorded
<1>13. CASE D!Commit
  BY <1>13 DEF D!Commit, D!TypeOK, DownOK, ClientOK, D!OutputIsRecorded
<1>14. CASE D!ClientFails
  BY <1>14 DEF D!ClientFails, D!TypeOK, DownOK, ClientOK, D!OutputIsRecorded
<1>15. CASE UNCHANGED D!vars
  BY <1>15 DEF D!vars, D!TypeOK, DownOK, ClientOK, D!OutputIsRecorded
<1> QED
  BY <1>1, <1>2, <1>3, <1>4, <1>5, <1>6, <1>7, <1>8, <1>9, <1>10, <1>11, <1>12, <1>13,
     <1>14, <1>15 DEF D!Next

LEMMA DownloadSpec ==
  D!Spec => []DownloadInv
<1>1. D!Init => DownloadInv
  BY DownloadInit
<1>2. DownloadInv /\ [D!Next]_(D!vars) => DownloadInv'
  BY DownloadNext
<1> QED
  BY <1>1, <1>2, PTL DEF D!Spec

-----------------------------------------------------------------------------
\* The variables of a download keep their types, and the temporary file never
\* grows past the declared size, whatever the server sends.
THEOREM DownloadTypeCorrect ==
  D!Spec => []D!TypeOK
  BY DownloadSpec, PTL DEF DownloadInv

\* BackupClient::download never leaves under the output path a file of its own
\* other than the archive the server recorded.
THEOREM OutputCorrect ==
  D!Spec => []D!OutputIsRecorded
  BY DownloadSpec, PTL DEF DownloadInv

\* A file made by another program at the output path is not replaced.
THEOREM DownloadKeepsForeign ==
  D!Spec => D!ForeignIsKept
<1>1. [D!Next]_(D!vars) => [output = Foreign => output' \notin D!Files]_(D!vars)
  <2> SUFFICES ASSUME D!Next, output = Foreign PROVE output' \notin D!Files \/ UNCHANGED D!vars
    OBVIOUS
  <2>1. Nothing \notin D!Files /\ Foreign \notin D!Files /\ Nothing # Foreign
    BY DownloadAssumption DEF D!SentinelAssumption
  <2>2. ~D!Commit
    BY <2>1 DEF D!Commit
  <2> QED
    BY <2>1, <2>2 DEF D!Next, D!Damage, D!Cut, D!Interfere, D!CheckArchive, D!SendStart,
       D!SendChunk, D!SendEnd, D!ServerFails, D!ReceiveStart, D!ReceiveChunk, D!ReceiveEnd,
       D!Verify, D!ClientFails, D!serverVars, D!clientVars, D!storeVars, D!connection
<1> QED
  BY <1>1, PTL DEF D!Spec, D!ForeignIsKept

-----------------------------------------------------------------------------
(* One direction of a connection.  The receiver is at an offset of the     *)
(* frame after those it has delivered.  The bytes in the connection follow *)
(* on from there, each from the one before it, up to where the sender is.  *)

At == Len(delivered) + 1
Got == (IF receiver = "payload" THEN Header ELSE 0) + Len(part)
Whole(frame) == Header + frames[frame]

\* Bytes follow each other within a frame, and frames follow each other.
WireOK ==
  /\ \A i \in 1..Len(wire) :
       /\ wire[i].frame \in 1..F!Number /\ wire[i].size = frames[wire[i].frame]
       /\ wire[i].offset \in 1..Whole(wire[i].frame)
       /\ wire[i].frame = F!Number => wire[i].offset <= taken
  /\ \A i, j \in 1..Len(wire) :
       i < j /\ wire[i].offset + (j - i) <= Whole(wire[i].frame) =>
         wire[j].frame = wire[i].frame /\ wire[j].offset = wire[i].offset + (j - i)
  /\ \A i, j \in 1..Len(wire) :
       j = i + 1 /\ wire[i].offset = Whole(wire[i].frame) =>
         wire[j].frame = wire[i].frame + 1 /\ wire[j].offset = 1

SenderOK ==
  /\ F!Number <= MaxFrames
  /\ F!Number > 0 => taken <= F!Total
  /\ sender \in {"sending", "failed"} => F!Number > 0 /\ taken < F!Total
  /\ sender \in {"idle", "closed"} /\ F!Number > 0 => taken = F!Total

\* The last byte in the connection is the last one that was sent.
LastIsSent ==
  IF taken > 0 THEN wire[Len(wire)].frame = F!Number /\ wire[Len(wire)].offset = taken
  ELSE /\ wire[Len(wire)].frame = F!Number - 1
       /\ wire[Len(wire)].offset = Whole(wire[Len(wire)].frame)

EndsOK ==
  /\ F!Waiting /\ wire # <<>> => wire[1].frame = At /\ wire[1].offset = Got + 1
  /\ open /\ wire # <<>> => LastIsSent
  /\ F!Waiting /\ wire = <<>> /\ open =>
       IF F!Number > 0 /\ taken < F!Total THEN At = F!Number /\ Got = taken
       ELSE At = F!Number + 1 /\ Got = 0

ReceiverOK ==
  /\ Len(delivered) <= F!Completed /\ \A i \in 1..Len(delivered) : delivered[i] = i
  /\ F!Waiting /\ Got > 0 => At <= F!Number
  /\ receiver = "payload" => size = frames[At]
  /\ part # <<>> => F!Waiting /\ part[1].frame = At /\ part[1].size = frames[At]
  /\ receiver = "ended" /\ open => sender \in {"closed", "failed"}

FramesInv ==
  F!TypeOK /\ SenderOK /\ WireOK /\ EndsOK /\ ReceiverOK /\ F!EndIsBetweenFrames

\* What is left of a sequence after its first elements, and the first elements.
LEMMA SplitSequence ==
  ASSUME NEW S, NEW q \in Seq(S), NEW n \in 0..Len(q)
  PROVE  /\ SubSeq(q, 1, n) \in Seq(S) /\ Len(SubSeq(q, 1, n)) = n
         /\ \A i \in 1..n : SubSeq(q, 1, n)[i] = q[i]
         /\ SubSeq(q, n + 1, Len(q)) \in Seq(S) /\ Len(SubSeq(q, n + 1, Len(q))) = Len(q) - n
         /\ \A i \in 1..Len(q) - n : SubSeq(q, n + 1, Len(q))[i] = q[n + i]
<1>1. \A i \in 1..Len(q) : q[i] \in S
  BY ElementOfSeq
<1>2. Len(q) \in Nat
  OBVIOUS
<1>3. \A i \in 1..n : q[i] \in S
  BY <1>1, <1>2
<1>4. \A i \in n + 1..Len(q) : q[i] \in S
  BY <1>1, <1>2
<1>5. /\ SubSeq(q, 1, n) \in Seq(S) /\ Len(SubSeq(q, 1, n)) = n
      /\ \A i \in 1..n : SubSeq(q, 1, n)[i] = q[i]
  BY <1>2, <1>3, SubSeqProperties
<1>6. /\ SubSeq(q, n + 1, Len(q)) \in Seq(S) /\ Len(SubSeq(q, n + 1, Len(q))) = Len(q) - n
      /\ \A i \in 1..Len(q) - n : SubSeq(q, n + 1, Len(q))[i] = q[n + i]
  <2>1. SubSeq(q, n + 1, Len(q)) \in Seq(S)
    BY <1>2, <1>4, SubSeqProperties
  <2>2. Len(SubSeq(q, n + 1, Len(q))) = Len(q) - n
    BY <1>2, <1>4, SubSeqProperties
  <2>3. \A i \in 1..Len(q) - (n + 1) + 1 : SubSeq(q, n + 1, Len(q))[i] = q[(n + 1) + i - 1]
    BY <1>2, <1>4, SubSeqProperties
  <2> QED
    BY <1>2, <2>1, <2>2, <2>3
<1> QED
  BY <1>5, <1>6

LEMMA FramesInit ==
  ASSUME F!Init PROVE FramesInv
<1> USE FramesAssumption DEF F!HeaderAssumption, F!BoundsAssumption, F!Init, F!Number
<1>1. F!TypeOK
  BY DEF F!TypeOK
<1>2. SenderOK /\ WireOK
  BY DEF SenderOK, WireOK
<1>3. EndsOK /\ ReceiverOK
  BY DEF EndsOK, ReceiverOK, At, Got, F!Completed, F!Waiting
<1>4. F!EndIsBetweenFrames
  BY DEF F!EndIsBetweenFrames
<1> QED
  BY <1>1, <1>2, <1>3, <1>4 DEF FramesInv

\* The numbers that the bytes of a connection are about.
FrameFacts ==
  /\ Header \in Nat \ {0} /\ Sizes \subseteq Nat /\ MaxFrames \in Nat /\ taken \in Nat
  /\ F!Number \in Nat /\ F!Number <= MaxFrames /\ F!Number = Len(frames)
  /\ \A i \in 1..F!Number : frames[i] \in Sizes /\ frames[i] \in Nat
  /\ \A i \in 1..F!Number : Whole(i) = Header + frames[i] /\ Whole(i) \in Nat /\ Whole(i) > 0
  /\ F!Number > 0 => F!Total = Whole(F!Number) /\ F!Total \in Nat /\ frames[F!Number] \in Nat
  /\ Len(part) \in Nat /\ Got \in Nat /\ Len(delivered) \in Nat /\ At \in Nat \ {0}
  /\ F!Completed \in 0..F!Number /\ At = Len(delivered) + 1

LEMMA FrameNumbers ==
  ASSUME FramesInv PROVE FrameFacts
<1>1. Len(frames) \in Nat /\ \A i \in 1..Len(frames) : frames[i] \in Sizes
  BY DEF FramesInv, F!TypeOK
<1>2. Header \in Nat \ {0} /\ Sizes \subseteq Nat /\ MaxFrames \in Nat
  BY FramesAssumption DEF F!HeaderAssumption, F!BoundsAssumption
<1>3. Len(part) \in Nat /\ Len(delivered) \in Nat /\ taken \in Nat
  BY DEF FramesInv, F!TypeOK
<1>4. F!Completed \in 0..F!Number
  BY <1>1, <1>2, <1>3 DEF F!Completed, F!Number, F!Total
<1>5. F!Number \in Nat /\ F!Number <= MaxFrames /\ F!Number = Len(frames)
  BY <1>1, <1>2 DEF F!Number, FramesInv, SenderOK
<1>6. \A i \in 1..F!Number : frames[i] \in Sizes /\ frames[i] \in Nat
  BY <1>1, <1>2 DEF F!Number
<1>7. \A i \in 1..F!Number : Whole(i) = Header + frames[i] /\ Whole(i) \in Nat /\ Whole(i) > 0
  BY <1>2, <1>6 DEF Whole
<1>8. F!Number > 0 => F!Total = Whole(F!Number) /\ F!Total \in Nat /\ frames[F!Number] \in Nat
  BY <1>2, <1>5, <1>6 DEF F!Total, Whole
<1>9. Got \in Nat /\ At \in Nat \ {0} /\ At = Len(delivered) + 1
  BY <1>2, <1>3 DEF At, Got
<1> QED
  BY <1>2, <1>3, <1>4, <1>5, <1>6, <1>7, <1>8, <1>9 DEF FrameFacts

\* What is known of each byte in the connection.
LEMMA WireBytes ==
  ASSUME FramesInv, NEW i \in 1..Len(wire)
  PROVE  /\ i \in Nat /\ wire[i].frame \in 1..F!Number /\ wire[i].frame \in Nat
         /\ wire[i].size = frames[wire[i].frame] /\ frames[wire[i].frame] \in Nat
         /\ wire[i].offset \in Nat \ {0} /\ wire[i].offset <= Whole(wire[i].frame)
         /\ Whole(wire[i].frame) \in Nat /\ Whole(wire[i].frame) = Header + frames[wire[i].frame]
         /\ wire[i].frame = F!Number => wire[i].offset <= taken
<1>1. /\ wire[i].frame \in 1..F!Number /\ wire[i].size = frames[wire[i].frame]
      /\ wire[i].offset \in 1..Whole(wire[i].frame)
      /\ wire[i].frame = F!Number => wire[i].offset <= taken
  BY DEF FramesInv, WireOK
<1>2. /\ \A f \in 1..F!Number : frames[f] \in Nat /\ Whole(f) \in Nat /\ Whole(f) = Header + frames[f]
      /\ F!Number \in Nat
  BY FrameNumbers DEF FrameFacts
<1>3. /\ frames[wire[i].frame] \in Nat /\ Whole(wire[i].frame) \in Nat
      /\ Whole(wire[i].frame) = Header + frames[wire[i].frame]
  BY <1>1, <1>2
<1> QED
  BY <1>1, <1>2, <1>3

LEMMA SendFrameKeeps ==
  ASSUME FramesInv, NEW n \in Sizes, F!SendFrame(n) PROVE FramesInv'
<1>0. FrameFacts
  BY FrameNumbers
<1>1. /\ sender = "idle" /\ F!Number < MaxFrames /\ frames' = Append(frames, n) /\ taken' = 0
      /\ sender' = "sending" /\ sendLeft' = Patience
      /\ UNCHANGED <<wire, open, part, size, receiver, receiveLeft, delivered>>
  BY DEF F!SendFrame, F!receiving
<1>2. /\ frames' \in Seq(Sizes) /\ F!Number' = F!Number + 1 /\ frames'[F!Number'] = n /\ n \in Nat
      /\ \A i \in 1..F!Number : frames'[i] = frames[i]
  BY <1>1, FramesAssumption DEF F!HeaderAssumption, FramesInv, F!TypeOK, F!Number
<1>3. F!Total' = Header + n /\ F!Total' > 0
  BY <1>2, <1>0 DEF FrameFacts, F!Total, F!Number
<1>4. F!Completed' = F!Number /\ F!Completed = F!Number
  BY <1>1, <1>2, <1>3, <1>0 DEF FrameFacts, F!Completed, FramesInv, SenderOK
<1>5. F!TypeOK'
  BY <1>1, <1>2, FramesAssumption DEF F!BoundsAssumption, FramesInv, F!TypeOK
<1>6. SenderOK'
  BY <1>1, <1>2, <1>3, <1>0 DEF FrameFacts, SenderOK
<1>w. \A i \in 1..Len(wire) :
        /\ wire[i].frame \in 1..F!Number /\ frames'[wire[i].frame] = frames[wire[i].frame]
        /\ wire[i].frame \in 1..F!Number' /\ wire[i].frame # F!Number'
        /\ Header + frames'[wire[i].frame] = Whole(wire[i].frame)
  <2> SUFFICES ASSUME NEW i \in 1..Len(wire)
               PROVE  /\ wire[i].frame \in 1..F!Number /\ frames'[wire[i].frame] = frames[wire[i].frame]
                      /\ wire[i].frame \in 1..F!Number' /\ wire[i].frame # F!Number'
                      /\ Header + frames'[wire[i].frame] = Whole(wire[i].frame)
    OBVIOUS
  <2>1. wire[i].frame \in 1..F!Number
    BY DEF FramesInv, WireOK
  <2>2. F!Number \in Nat /\ F!Number' = F!Number + 1
    BY <1>2, <1>0 DEF FrameFacts
  <2>3. wire[i].frame \in 1..F!Number' /\ wire[i].frame # F!Number'
    BY <2>1, <2>2
  <2> QED
    BY <1>2, <2>1, <2>3 DEF Whole
<1>7. WireOK'
  <2>1. \A i \in 1..Len(wire) :
          /\ wire[i].frame \in 1..F!Number' /\ wire[i].size = frames'[wire[i].frame]
          /\ wire[i].offset \in 1..Header + frames'[wire[i].frame]
          /\ wire[i].frame = F!Number' => wire[i].offset <= 0
    BY <1>w DEF FramesInv, WireOK
  <2>2. \A i, j \in 1..Len(wire) :
          i < j /\ wire[i].offset + (j - i) <= Header + frames'[wire[i].frame] =>
            wire[j].frame = wire[i].frame /\ wire[j].offset = wire[i].offset + (j - i)
    BY <1>w DEF FramesInv, WireOK
  <2>3. \A i, j \in 1..Len(wire) :
          j = i + 1 /\ wire[i].offset = Header + frames'[wire[i].frame] =>
            wire[j].frame = wire[i].frame + 1 /\ wire[j].offset = 1
    BY <1>w DEF FramesInv, WireOK
  <2> QED
    BY <1>1, <2>1, <2>2, <2>3 DEF WireOK, Whole
<1>8. EndsOK'
  <2>1. wire # <<>> => Len(wire) \in 1..Len(wire)
    BY DEF FramesInv, F!TypeOK
  <2>2. open' /\ wire' # <<>> => LastIsSent'
    <3> SUFFICES ASSUME open', wire' # <<>>
                 PROVE  LastIsSent'
      OBVIOUS
    <3>0. \E i \in 1..Len(wire) : wire[i].frame \in 1..F!Number
      BY <1>1, <1>w, <2>1
    <3>1. F!Number > 0 /\ taken = F!Total /\ taken > 0
      <4>1. F!Number > 0
        BY <1>0, <3>0 DEF FrameFacts
      <4>2. taken = F!Total
        BY <1>1, <4>1 DEF FramesInv, SenderOK
      <4>3. F!Total > 0
        BY <1>0, <4>1 DEF FrameFacts
      <4> QED
        BY ONLY <4>1, <4>2, <4>3
    <3>2. wire[Len(wire)].frame = F!Number /\ wire[Len(wire)].offset = Whole(F!Number)
      BY <1>1, <3>1, <1>0 DEF FrameFacts, FramesInv, EndsOK, LastIsSent
    <3>3. wire[Len(wire)].offset = Header + frames'[wire[Len(wire)].frame]
      BY <1>1, <1>w, <2>1, <3>2
    <3>4. F!Number' - 1 = F!Number /\ taken' = 0 /\ wire' = wire
      BY <1>1, <1>2, <1>0 DEF FrameFacts
    <3> QED
      BY <3>2, <3>3, <3>4 DEF LastIsSent, Whole
  <2>3. (F!Waiting /\ wire # <<>> => wire[1].frame = At /\ wire[1].offset = Got + 1)'
    BY <1>1 DEF FramesInv, EndsOK, F!Waiting, At, Got
  <2>4. (F!Waiting /\ wire = <<>> /\ open => At = F!Number /\ Got = taken)'
    BY <1>1, <1>2, <1>0 DEF FrameFacts, FramesInv, SenderOK, EndsOK, F!Waiting, At, Got
  <2>5. F!Number' > 0 /\ taken' < F!Total'
    BY <1>1, <1>2, <1>3, <1>0 DEF FrameFacts
  <2> QED
    BY <2>2, <2>3, <2>4, <2>5 DEF EndsOK
<1>9. ReceiverOK'
  <2>1. (F!Waiting /\ Got > 0 => At <= F!Number)'
    BY <1>1, <1>2, <1>0 DEF FrameFacts, FramesInv, ReceiverOK, F!Waiting, At, Got
  <2>2. F!Waiting /\ Got > 0 => frames'[At] = frames[At]
    BY <1>2, <1>0 DEF FrameFacts, FramesInv, ReceiverOK
  <2>3. (receiver = "payload" => size = frames[At])'
    BY <1>1, <2>2, <1>0 DEF FrameFacts, FramesInv, ReceiverOK, F!Waiting, At, Got
  <2>4. (part # <<>> => F!Waiting /\ part[1].frame = At /\ part[1].size = frames[At])'
    BY <1>1, <2>2, <1>0 DEF FrameFacts, FramesInv, ReceiverOK, F!TypeOK, F!Waiting, At, Got
  <2> QED
    BY <1>1, <1>4, <2>1, <2>3, <2>4 DEF FramesInv, ReceiverOK
<1>10. F!EndIsBetweenFrames'
  BY <1>1 DEF FramesInv, ReceiverOK, F!EndIsBetweenFrames
<1> QED
  BY <1>5, <1>6, <1>7, <1>8, <1>9, <1>10 DEF FramesInv

\* What the connection holds after the socket has taken n more bytes.
LEMMA SentBytes ==
  ASSUME FramesInv, NEW n \in 1..F!Total - taken, sender = "sending",
         wire' = wire \o [i \in 1..n |-> F!Mark(taken + i)]
  PROVE  /\ F!Number > 0 /\ taken < F!Total /\ F!Total = Whole(F!Number) /\ n \in Nat \ {0}
         /\ taken + n <= F!Total /\ Len(wire) \in Nat
         /\ wire' \in Seq(F!Bytes) /\ Len(wire') = Len(wire) + n
         /\ \A i \in 1..Len(wire) : wire'[i] = wire[i]
         /\ \A i \in Len(wire) + 1..Len(wire) + n :
              /\ wire'[i].frame = F!Number /\ wire'[i].size = frames[F!Number]
              /\ wire'[i].offset = taken + (i - Len(wire))
<1>0. FrameFacts
  BY FrameNumbers
<1>1. F!Number > 0 /\ taken < F!Total /\ F!Total = Whole(F!Number) /\ F!Total \in Nat
  BY <1>0 DEF FrameFacts, FramesInv, SenderOK
<1>2. /\ taken \in Nat /\ Len(wire) \in Nat /\ wire \in Seq(F!Bytes)
      /\ F!Number \in 1..MaxFrames /\ frames[F!Number] \in Nat
  <2>1. taken \in Nat /\ frames[F!Number] \in Nat
    BY <1>0, <1>1 DEF FrameFacts
  <2>2. F!Number \in Nat /\ F!Number <= MaxFrames /\ MaxFrames \in Nat
    BY <1>0 DEF FrameFacts
  <2>3. wire \in Seq(F!Bytes)
    BY DEF FramesInv, F!TypeOK
  <2>4. Len(wire) \in Nat
    BY ONLY <2>3
  <2>5. F!Number \in 1..MaxFrames
    BY ONLY <1>1, <2>2
  <2> QED
    BY <2>1, <2>3, <2>4, <2>5
<1>3. n \in Nat \ {0} /\ taken + n <= F!Total
  BY <1>1, <1>2
<1> DEFINE new == [i \in 1..n |-> F!Mark(taken + i)]
<1>4. \A i \in 1..n : F!Mark(taken + i) \in F!Bytes
  BY <1>2, <1>3 DEF F!Mark, F!Bytes
<1>5. new \in Seq(F!Bytes) /\ Len(new) = n
  BY <1>3, <1>4
<1>6. \A i \in 1..n : new[i] = F!Mark(taken + i)
  OBVIOUS
<1>7. wire' = wire \o new
  OBVIOUS
<1> HIDE DEF new
<1>8. /\ wire' \in Seq(F!Bytes) /\ Len(wire') = Len(wire) + n
      /\ \A i \in 1..Len(wire) + n :
           wire'[i] = IF i <= Len(wire) THEN wire[i] ELSE new[i - Len(wire)]
  <2>1. /\ wire \o new \in Seq(F!Bytes) /\ Len(wire \o new) = Len(wire) + Len(new)
        /\ \A i \in 1..Len(wire) + Len(new) :
             (wire \o new)[i] = IF i <= Len(wire) THEN wire[i] ELSE new[i - Len(wire)]
    <3>1. wire \in Seq(F!Bytes) /\ new \in Seq(F!Bytes)
      BY <1>2, <1>5
    <3> QED
      BY ONLY <3>1, ConcatProperties
  <2> QED
    BY <1>5, <1>7, <2>1
<1>9. ASSUME NEW i \in Len(wire) + 1..Len(wire) + n
      PROVE  /\ wire'[i].frame = F!Number /\ wire'[i].size = frames[F!Number]
             /\ wire'[i].offset = taken + (i - Len(wire))
  <2>1. i - Len(wire) \in 1..n /\ i \in 1..Len(wire) + n /\ ~(i <= Len(wire))
    BY <1>2, <1>3
  <2>2. wire'[i] = F!Mark(taken + (i - Len(wire)))
    BY <1>6, <1>8, <2>1
  <2> QED
    BY <2>2 DEF F!Mark
<1>10. ASSUME NEW i \in 1..Len(wire) PROVE wire'[i] = wire[i]
  <2>1. i \in 1..Len(wire) + n /\ i <= Len(wire)
    BY <1>2, <1>3
  <2> QED
    BY <1>8, <2>1
<1> QED
  BY <1>1, <1>2, <1>3, <1>8, <1>9, <1>10

LEMMA SendKeeps ==
  ASSUME FramesInv, F!Send PROVE FramesInv'
<1>0. FrameFacts
  BY FrameNumbers
<1>1. PICK n \in 1..F!Total - taken :
        /\ Len(wire) + n <= Buffer /\ taken' = taken + n
        /\ wire' = wire \o [i \in 1..n |-> F!Mark(taken + i)]
  BY DEF F!Send
<1>2. /\ sender = "sending" /\ open /\ sender' = IF taken' = F!Total THEN "idle" ELSE "sending"
      /\ UNCHANGED <<frames, sendLeft, open, part, size, receiver, receiveLeft, delivered>>
  BY DEF F!Send, F!receiving
<1> DEFINE L == Len(wire)
<1>3. /\ F!Number > 0 /\ taken < F!Total /\ F!Total = Whole(F!Number) /\ n \in Nat \ {0}
      /\ taken + n <= F!Total /\ L \in Nat
      /\ wire' \in Seq(F!Bytes) /\ Len(wire') = L + n
      /\ \A i \in 1..L : wire'[i] = wire[i]
      /\ \A i \in L + 1..L + n :
           /\ wire'[i].frame = F!Number /\ wire'[i].size = frames[F!Number]
           /\ wire'[i].offset = taken + (i - L)
  BY <1>1, <1>2, SentBytes
<1>4. L > 0 => LastIsSent
  <2>1. L > 0 => wire # <<>>
    BY <1>3
  <2> QED
    BY <1>2, <2>1 DEF FramesInv, EndsOK
<1>5. F!Total' = F!Total /\ F!Number' = F!Number
  BY <1>2 DEF F!Total, F!Number
<1>6. /\ taken \in Nat /\ F!Number \in Nat \ {0} /\ Header \in Nat \ {0}
      /\ frames[F!Number] \in Nat /\ Whole(F!Number) = Header + frames[F!Number]
  BY <1>0, <1>3 DEF FrameFacts, Whole
<1>7. F!TypeOK'
  BY <1>1, <1>2, <1>3, <1>6 DEF FramesInv, F!TypeOK
<1>8. SenderOK'
  <2>0. F!Number <= MaxFrames /\ F!Total \in Nat
    BY <1>0, <1>3 DEF FrameFacts
  <2>1. F!Number <= MaxFrames /\ taken' <= F!Total /\ taken' \in Nat /\ F!Total \in Nat
    BY ONLY <1>1, <1>3, <1>6, <2>0
  <2>2. IF taken' = F!Total THEN sender' = "idle" ELSE sender' = "sending" /\ taken' < F!Total
    BY <1>2, <2>1
  <2> QED
    BY <1>3, <1>5, <2>1, <2>2 DEF SenderOK
<1>9. WireOK'
  <2>1. ASSUME NEW i \in 1..L + n
        PROVE  /\ wire'[i].frame \in 1..F!Number /\ wire'[i].size = frames[wire'[i].frame]
               /\ wire'[i].offset \in 1..Whole(wire'[i].frame)
               /\ wire'[i].frame = F!Number => wire'[i].offset <= taken + n
    <3>1. CASE i <= L
      <4>1. i \in 1..L /\ wire'[i] = wire[i]
        BY <1>3, <3>1
      <4>2. /\ wire[i].frame \in 1..F!Number /\ wire[i].size = frames[wire[i].frame]
            /\ wire[i].offset \in 1..Whole(wire[i].frame)
            /\ wire[i].frame = F!Number => wire[i].offset <= taken /\ wire[i].offset \in Nat
        BY <4>1, WireBytes
      <4> QED
        BY <1>3, <1>6, <4>1, <4>2
    <3>2. CASE i > L
      <4>1. i \in L + 1..L + n /\ i - L \in 1..n
        BY <1>3, <3>2
      <4>2. wire'[i].frame = F!Number /\ wire'[i].size = frames[F!Number]
            /\ wire'[i].offset = taken + (i - L)
        BY <1>3, <4>1
      <4>3. taken + (i - L) \in 1..taken + n /\ taken + n <= Whole(F!Number)
        BY ONLY <1>3, <1>6, <4>1
      <4>4. wire'[i].offset \in 1..Whole(wire'[i].frame) /\ wire'[i].offset <= taken + n
        BY ONLY <1>3, <1>6, <4>2, <4>3
      <4> QED
        BY ONLY <1>6, <4>2, <4>4
    <3> QED
      BY <1>3, <3>1, <3>2
  <2>2. ASSUME NEW i \in 1..L + n, NEW j \in 1..L + n, i < j,
               wire'[i].offset + (j - i) <= Whole(wire'[i].frame)
        PROVE  wire'[j].frame = wire'[i].frame /\ wire'[j].offset = wire'[i].offset + (j - i)
    <3>0. i \in Nat /\ j \in Nat /\ L \in Nat /\ n \in Nat
      BY <1>3
    <3>1. CASE j <= L
      <4>1. i \in 1..L /\ j \in 1..L
        BY <2>2, <3>0, <3>1
      <4>2. wire'[i] = wire[i] /\ wire'[j] = wire[j]
        BY <1>3, <4>1
      <4> QED
        BY <2>2, <4>1, <4>2 DEF FramesInv, WireOK
    <3>2. CASE i > L
      <4>1. i \in L + 1..L + n /\ j \in L + 1..L + n
        BY <2>2, <3>0, <3>2
      <4>2. /\ wire'[i].frame = F!Number /\ wire'[i].offset = taken + (i - L)
            /\ wire'[j].frame = F!Number /\ wire'[j].offset = taken + (j - L)
        BY <1>3, <4>1
      <4> QED
        BY <1>6, <3>0, <4>2
    <3>3. CASE i <= L /\ j > L
      <4>1. i \in 1..L /\ L \in 1..L /\ j \in L + 1..L + n
        BY <3>0, <3>3
      <4>2. /\ wire'[i] = wire[i] /\ wire[i].offset \in Nat /\ Whole(wire[i].frame) \in Nat
            /\ wire[i].offset + (j - i) <= Whole(wire[i].frame)
        BY <1>3, <2>2, <4>1, WireBytes
      <4>3. PICK o \in Nat, w \in Nat : o = wire[i].offset /\ w = Whole(wire[i].frame)
        BY <4>2
      <4>4. o + (L - i) < w /\ o + (L - i) <= w
        <5>1. o + (j - i) <= w
          BY <4>2, <4>3
        <5> HIDE DEF L
        <5> QED
          BY <3>0, <3>3, <5>1
      <4>5. wire[L].frame = wire[i].frame /\ wire[L].offset = o + (L - i)
        <5>1. CASE i = L
          BY <3>0, <4>3, <5>1
        <5>2. CASE i < L
          <6>1. \A a, b \in 1..L :
                  a < b /\ wire[a].offset + (b - a) <= Whole(wire[a].frame) =>
                    wire[b].frame = wire[a].frame /\ wire[b].offset = wire[a].offset + (b - a)
            BY DEF FramesInv, WireOK
          <6> QED
            BY <4>1, <4>3, <4>4, <5>2, <6>1
        <5> QED
          BY <3>0, <3>3, <5>1, <5>2
      <4>6. L > 0 /\ wire[L].offset # Whole(wire[L].frame)
        BY <3>0, <3>3, <4>3, <4>4, <4>5
      <4>7. wire[L].frame = F!Number /\ wire[L].offset = taken
        BY <1>4, <4>6 DEF LastIsSent
      <4>8. wire'[j].frame = F!Number /\ wire'[j].offset = taken + (j - L)
        BY <1>3, <4>1
      <4>9. taken = o + (L - i)
        BY <4>5, <4>7
      <4>10. taken + (j - L) = o + (j - i)
        BY <3>0, <4>9
      <4> QED
        BY <4>2, <4>3, <4>5, <4>7, <4>8, <4>10
    <3> QED
      BY <3>0, <3>1, <3>2, <3>3
  <2>3. ASSUME NEW i \in 1..L + n, NEW j \in 1..L + n, j = i + 1,
               wire'[i].offset = Whole(wire'[i].frame)
        PROVE  wire'[j].frame = wire'[i].frame + 1 /\ wire'[j].offset = 1
    <3>0. i \in Nat /\ j \in Nat /\ L \in Nat /\ n \in Nat
      BY <1>3
    <3>1. CASE j <= L
      <4>1. i \in 1..L /\ j \in 1..L
        BY <2>3, <3>0, <3>1
      <4>2. wire'[i] = wire[i] /\ wire'[j] = wire[j]
        BY <1>3, <4>1
      <4> QED
        BY <2>3, <4>1, <4>2 DEF FramesInv, WireOK
    <3>2. CASE i > L
      <4>1. i \in L + 1..L + n
        BY <3>0, <3>2
      <4>2. wire'[i].frame = F!Number /\ wire'[i].offset = taken + (i - L)
        BY <1>3, <4>1
      <4> QED
        BY <1>3, <1>6, <2>3, <3>0, <3>2, <4>2
    <3>3. CASE i = L
      <4>1. i \in 1..L /\ L > 0 /\ j \in L + 1..L + n /\ j - L = 1
        BY <2>3, <3>0, <3>3
      <4>2. wire'[i] = wire[i] /\ wire[L].offset = Whole(wire[L].frame)
        BY <1>3, <2>3, <3>3, <4>1
      <4>3. wire'[j].frame = F!Number /\ wire'[j].offset = taken + 1
        BY <1>3, <4>1
      <4>4. taken = 0 /\ wire[L].frame = F!Number - 1
        BY <1>3, <1>4, <1>6, <4>1, <4>2 DEF LastIsSent
      <4> QED
        BY <1>6, <3>3, <4>2, <4>3, <4>4
    <3> QED
      BY <2>3, <3>0, <3>1, <3>2, <3>3
  <2>4. Len(wire') = L + n /\ taken' = taken + n /\ frames' = frames /\ F!Number' = F!Number
    BY <1>1, <1>2, <1>3, <1>5
  <2> QED
    BY <2>1, <2>2, <2>3, <2>4 DEF WireOK, Whole
<1>10. EndsOK'
  <2>1. (F!Waiting /\ wire # <<>> => wire[1].frame = At /\ wire[1].offset = Got + 1)'
    <3>1. CASE L > 0
      <4>1. wire # <<>> /\ 1 \in 1..L
        BY <1>3, <3>1
      <4>2. wire'[1] = wire[1]
        BY <1>3, <4>1
      <4> QED
        BY <1>2, <4>1, <4>2 DEF FramesInv, EndsOK, F!Waiting, At, Got
    <3>2. CASE L = 0
      <4>1. wire = <<>> /\ 1 \in L + 1..L + n /\ 1 - L = 1
        BY <1>3, <3>2 DEF FramesInv, F!TypeOK
      <4>2. wire'[1].frame = F!Number /\ wire'[1].offset = taken + 1
        BY <1>3, <4>1
      <4>3. F!Waiting => At = F!Number /\ Got = taken
        BY <1>2, <1>3, <4>1 DEF FramesInv, EndsOK
      <4> QED
        BY <1>2, <4>2, <4>3 DEF F!Waiting, At, Got
    <3> QED
      BY <1>3, <3>1, <3>2
  <2>2. wire' # <<>> /\ LastIsSent'
    <3>1. L + n \in L + 1..L + n /\ L + n > 0
      BY <1>3
    <3>2. wire'[L + n].frame = F!Number /\ wire'[L + n].offset = taken + ((L + n) - L)
      BY <1>3, <3>1
    <3>3. taken' > 0 /\ taken + ((L + n) - L) = taken' /\ Len(wire') # 0
      BY <1>1, <1>3, <1>6
    <3>4. wire' # <<>>
      BY <3>3
    <3> QED
      BY <1>3, <1>5, <3>2, <3>3, <3>4 DEF LastIsSent
  <2> QED
    BY <2>1, <2>2 DEF EndsOK
<1>11. F!Completed' >= F!Completed
  BY <1>1, <1>3, <1>5, <1>6 DEF F!Completed
<1>12. ReceiverOK'
  <2>1. Len(delivered) <= F!Completed'
    BY <1>0, <1>1, <1>3, <1>5, <1>6, <1>11 DEF FrameFacts, FramesInv, ReceiverOK, F!Completed
  <2> QED
    BY <1>2, <1>5, <2>1 DEF FramesInv, ReceiverOK, F!Waiting, At, Got
<1>13. F!EndIsBetweenFrames'
  BY <1>2 DEF FramesInv, ReceiverOK, F!EndIsBetweenFrames
<1> QED
  BY <1>7, <1>8, <1>9, <1>10, <1>12, <1>13 DEF FramesInv

\* A call that waits or gives up moves no byte.
LEMMA QuietSenderKeeps ==
  ASSUME FramesInv, F!SendWaits \/ F!SendFails \/ F!Close PROVE FramesInv'
<1>1. /\ UNCHANGED <<frames, taken, wire, open, part, size, receiver, receiveLeft, delivered>>
      /\ sendLeft' \in {sendLeft, sendLeft - 1} /\ sendLeft' \in 0..Patience
      /\ \/ sender' = sender
         \/ sender = "sending" /\ sender' = "failed"
         \/ sender = "idle" /\ sender' = "closed"
  BY FramesAssumption
     DEF F!BoundsAssumption, F!SendWaits, F!SendFails, F!Close, F!receiving, FramesInv, F!TypeOK
<1>2. F!TypeOK' /\ SenderOK'
  BY <1>1 DEF FramesInv, F!TypeOK, SenderOK, F!Number, F!Total
<1>3. WireOK' /\ EndsOK'
  BY <1>1 DEF FramesInv, WireOK, EndsOK, LastIsSent, F!Number, F!Total, F!Waiting, Whole, At, Got
<1>4. ReceiverOK' /\ F!EndIsBetweenFrames'
  BY <1>1 DEF FramesInv, ReceiverOK, F!EndIsBetweenFrames, F!Completed, F!Number, F!Total,
     F!Waiting, At, Got
<1> QED
  BY <1>2, <1>3, <1>4 DEF FramesInv

\* A stretch of the connection is as well ordered as the whole.
LEMMA StretchIsInOrder ==
  ASSUME WireOK, Len(wire) \in Nat, UNCHANGED <<frames, taken>>, NEW n \in Nat,
         Len(wire') \in Nat,
         \A i \in 1..Len(wire') : n + i \in 1..Len(wire) /\ wire'[i] = wire[n + i]
  PROVE  WireOK'
<1>1. F!Number' = F!Number
  BY DEF F!Number
<1>2. ASSUME NEW i \in 1..Len(wire')
      PROVE  /\ wire'[i].frame \in 1..F!Number /\ wire'[i].size = frames[wire'[i].frame]
             /\ wire'[i].offset \in 1..Whole(wire'[i].frame)
             /\ wire'[i].frame = F!Number => wire'[i].offset <= taken
  <2>1. n + i \in 1..Len(wire) /\ wire'[i] = wire[n + i]
    OBVIOUS
  <2> QED
    BY <2>1 DEF WireOK
<1>3. ASSUME NEW i \in 1..Len(wire'), NEW j \in 1..Len(wire'), i < j,
             wire'[i].offset + (j - i) <= Whole(wire'[i].frame)
      PROVE  wire'[j].frame = wire'[i].frame /\ wire'[j].offset = wire'[i].offset + (j - i)
  <2>1. /\ n + i \in 1..Len(wire) /\ wire'[i] = wire[n + i]
        /\ n + j \in 1..Len(wire) /\ wire'[j] = wire[n + j]
    OBVIOUS
  <2>2. n + i < n + j /\ (n + j) - (n + i) = j - i
    BY <1>3
  <2>3. \A a, b \in 1..Len(wire) :
          a < b /\ wire[a].offset + (b - a) <= Whole(wire[a].frame) =>
            wire[b].frame = wire[a].frame /\ wire[b].offset = wire[a].offset + (b - a)
    BY DEF WireOK
  <2>4. wire[n + i].offset + ((n + j) - (n + i)) <= Whole(wire[n + i].frame)
    BY <1>3, <2>1, <2>2
  <2>5. /\ wire[n + j].frame = wire[n + i].frame
        /\ wire[n + j].offset = wire[n + i].offset + ((n + j) - (n + i))
    BY <2>1, <2>2, <2>3, <2>4
  <2> QED
    BY <2>1, <2>2, <2>5
<1>4. ASSUME NEW i \in 1..Len(wire'), NEW j \in 1..Len(wire'), j = i + 1,
             wire'[i].offset = Whole(wire'[i].frame)
      PROVE  wire'[j].frame = wire'[i].frame + 1 /\ wire'[j].offset = 1
  <2>1. /\ n + i \in 1..Len(wire) /\ wire'[i] = wire[n + i]
        /\ n + j \in 1..Len(wire) /\ wire'[j] = wire[n + j] /\ n + j = (n + i) + 1
    BY <1>4
  <2> QED
    BY <1>4, <2>1 DEF WireOK
<1> QED
  BY <1>1, <1>2, <1>3, <1>4 DEF WireOK, Whole

LEMMA BreakKeeps ==
  ASSUME FramesInv, F!Break PROVE FramesInv'
<1>1. PICK n \in 0..Len(wire) : wire' = SubSeq(wire, 1, n)
  BY DEF F!Break
<1>2. /\ open' = FALSE
      /\ UNCHANGED <<frames, taken, sender, sendLeft, part, size, receiver, receiveLeft, delivered>>
  BY DEF F!Break, F!sending, F!receiving
<1>3. /\ wire' \in Seq(F!Bytes) /\ Len(wire') = n /\ n <= Len(wire) /\ n \in Nat
      /\ \A i \in 1..n : wire'[i] = wire[i] /\ i \in 1..Len(wire)
  BY <1>1, SplitSequence DEF FramesInv, F!TypeOK
<1>4. F!TypeOK' /\ SenderOK'
  BY <1>2, <1>3 DEF FramesInv, F!TypeOK, SenderOK, F!Number, F!Total
<1>5. WireOK'
  <2>1. /\ Len(wire') \in Nat /\ Len(wire) \in Nat /\ WireOK /\ UNCHANGED <<frames, taken>>
        /\ 0 \in Nat /\ \A i \in 1..Len(wire') : 0 + i \in 1..Len(wire) /\ wire'[i] = wire[0 + i]
    BY <1>2, <1>3 DEF FramesInv, F!TypeOK
  <2> QED
    BY ONLY <2>1, StretchIsInOrder
<1>6. EndsOK'
  <2>1. wire' # <<>> => wire # <<>> /\ wire'[1] = wire[1]
    BY <1>3 DEF FramesInv, F!TypeOK
  <2> QED
    BY <1>2, <2>1 DEF FramesInv, EndsOK, F!Waiting, At, Got
<1>7. ReceiverOK' /\ F!EndIsBetweenFrames'
  BY <1>2 DEF FramesInv, ReceiverOK, F!EndIsBetweenFrames, F!Completed, F!Number, F!Total,
     F!Waiting, At, Got
<1> QED
  BY <1>4, <1>5, <1>6, <1>7 DEF FramesInv

\* The bytes that are received belong to the frame the receiver is in, and go
\* on from where it is; they do not reach into the next frame.
LEMMA ReceivedBytes ==
  ASSUME FramesInv, F!Waiting, NEW n \in 1..Len(wire), n <= F!Needed
  PROVE  /\ n \in Nat \ {0} /\ Len(wire) \in Nat /\ Got \in Nat /\ Len(part) \in Nat
         /\ At \in 1..F!Number /\ At = Len(delivered) + 1 /\ frames[At] \in Nat
         /\ Whole(At) = Header + frames[At] /\ Whole(At) \in Nat /\ Got + n <= Whole(At)
         /\ \A i \in 1..n : wire[i].frame = At /\ wire[i].offset = Got + i
         /\ wire[1].size = frames[At] /\ F!Needed \in Nat
         /\ receiver = "header" => Got + F!Needed = Header
         /\ receiver # "header" => receiver = "payload" /\ Got + F!Needed = Whole(At)
<1>0. FrameFacts
  BY FrameNumbers
<1>1. /\ n \in Nat \ {0} /\ Len(wire) \in Nat /\ Got \in Nat /\ Len(part) \in Nat
      /\ At = Len(delivered) + 1 /\ Header \in Nat
  BY <1>0 DEF FrameFacts, FramesInv, F!TypeOK
<1>2. 1 \in 1..Len(wire) /\ wire # <<>>
  BY <1>1
<1>3. wire[1].frame = At /\ wire[1].offset = Got + 1
  BY <1>2 DEF FramesInv, EndsOK
<1>4. /\ At \in 1..F!Number /\ frames[At] \in Nat /\ Whole(At) = Header + frames[At]
      /\ Whole(At) \in Nat /\ wire[1].size = frames[At]
  <2>1. /\ wire[1].frame \in 1..F!Number /\ frames[wire[1].frame] \in Nat
        /\ Whole(wire[1].frame) \in Nat /\ Whole(wire[1].frame) = Header + frames[wire[1].frame]
        /\ wire[1].size = frames[wire[1].frame]
    BY <1>2, WireBytes
  <2> QED
    BY <1>3, <2>1
<1>5. /\ receiver = "header" => Got + F!Needed = Header /\ F!Needed \in Nat
      /\ receiver # "header" => receiver = "payload" /\ Got + F!Needed = Whole(At) /\ F!Needed \in Nat
  <2>1. receiver = "header" => Got = Len(part) /\ F!Needed = Header - Len(part) /\ Len(part) < Header
    BY <1>1 DEF Got, F!Needed, FramesInv, F!TypeOK
  <2>2. receiver # "header" =>
          /\ receiver = "payload" /\ Got = Header + Len(part) /\ F!Needed = frames[At] - Len(part)
          /\ Len(part) < frames[At]
    BY DEF Got, F!Needed, F!Waiting, FramesInv, F!TypeOK, ReceiverOK
  <2>3. receiver = "header" => Got + F!Needed = Header /\ F!Needed \in Nat
    BY <1>1, <2>1
  <2>4. receiver # "header" => Got + F!Needed = Whole(At) /\ F!Needed \in Nat
    BY <1>1, <1>4, <2>2
  <2> QED
    BY <2>2, <2>3, <2>4
<1>6. Got + n <= Whole(At)
  <2>1. Got + n <= Got + F!Needed /\ F!Needed \in Nat
    BY <1>1, <1>5
  <2>2. Got + F!Needed <= Whole(At)
    BY <1>1, <1>4, <1>5
  <2> QED
    BY <1>1, <1>4, <2>1, <2>2
<1>7. ASSUME NEW i \in 1..n PROVE wire[i].frame = At /\ wire[i].offset = Got + i
  <2>1. CASE i = 1
    BY <1>3, <2>1
  <2>2. CASE i > 1
    <3>1. i \in 1..Len(wire) /\ 1 < i /\ Got + 1 + (i - 1) <= Whole(At)
      BY <1>1, <1>4, <1>6, <2>2
    <3>2. \A a, b \in 1..Len(wire) :
            a < b /\ wire[a].offset + (b - a) <= Whole(wire[a].frame) =>
              wire[b].frame = wire[a].frame /\ wire[b].offset = wire[a].offset + (b - a)
      BY DEF FramesInv, WireOK
    <3>3. wire[i].frame = At /\ wire[i].offset = Got + 1 + (i - 1)
      BY <1>2, <1>3, <3>1, <3>2
    <3> QED
      BY <1>1, <3>3
  <2> QED
    BY <2>1, <2>2
<1> QED
  BY <1>1, <1>4, <1>5, <1>6, <1>7

\* What stays in the connection is still in order, and ends where it did.
LEMMA TailKeeps ==
  ASSUME FramesInv, NEW n \in 1..Len(wire), wire' = SubSeq(wire, n + 1, Len(wire)),
         UNCHANGED <<frames, taken, open>>
  PROVE  /\ WireOK' /\ wire' \in Seq(F!Bytes) /\ Len(wire') = Len(wire) - n
         /\ n < Len(wire) => wire' # <<>> /\ wire'[1] = wire[n + 1]
         /\ n = Len(wire) => wire' = <<>>
         /\ open' /\ wire' # <<>> => LastIsSent'
<1>1. wire \in Seq(F!Bytes) /\ Len(wire) \in Nat /\ n \in 0..Len(wire) /\ n \in Nat
  BY DEF FramesInv, F!TypeOK
<1>2. /\ wire' \in Seq(F!Bytes) /\ Len(wire') = Len(wire) - n
      /\ \A i \in 1..Len(wire) - n : wire'[i] = wire[n + i]
  BY <1>1, SplitSequence
<1> DEFINE M == Len(wire) - n
<1>3. M \in Nat /\ \A i \in 1..M : n + i \in 1..Len(wire)
  BY <1>1
<1> HIDE DEF M
<1>4. WireOK'
  <2>1. /\ Len(wire') \in Nat /\ WireOK /\ UNCHANGED <<frames, taken>>
        /\ \A i \in 1..Len(wire') : n + i \in 1..Len(wire) /\ wire'[i] = wire[n + i]
    BY <1>2, <1>3 DEF M, FramesInv
  <2> QED
    BY ONLY <1>1, <2>1, StretchIsInOrder
<1>5. n < Len(wire) => wire' # <<>> /\ wire'[1] = wire[n + 1]
  <2> SUFFICES ASSUME n < Len(wire) PROVE wire' # <<>> /\ wire'[1] = wire[n + 1]
    OBVIOUS
  <2>1. Len(wire') # 0 /\ 1 \in 1..Len(wire) - n
    BY <1>1, <1>2
  <2> QED
    BY <1>2, <2>1
<1>6. n = Len(wire) => wire' = <<>>
  BY <1>1, <1>2
<1>7. open' /\ wire' # <<>> => LastIsSent'
  <2> SUFFICES ASSUME open', wire' # <<>> PROVE LastIsSent'
    OBVIOUS
  <2>1. n < Len(wire) /\ Len(wire) - n \in 1..Len(wire) - n /\ n + (Len(wire) - n) = Len(wire)
    BY <1>1, <1>6
  <2>2. wire'[Len(wire')] = wire[Len(wire)]
    BY <1>2, <2>1
  <2>3. LastIsSent
    <3>1. wire # <<>>
      BY <1>1, <2>1
    <3> QED
      BY <3>1 DEF FramesInv, EndsOK
  <2> QED
    BY <2>2, <2>3 DEF LastIsSent, Whole, F!Number
<1> QED
  BY <1>2, <1>4, <1>5, <1>6, <1>7

\* What a call to recv does: it goes on with the header or the payload,
\* returns the frame, goes on to the payload, or refuses it.
GoesOn(n) ==
  /\ F!Waiting' /\ At' = At /\ Got' = Got + n /\ Got + n < Whole(At) /\ delivered' = delivered
  /\ receiver' = "payload" => size' = frames[At]
  /\ part' # <<>> => part'[1].frame = At /\ part'[1].size = frames[At]
Returns(n) ==
  /\ delivered' = Append(delivered, At) /\ receiver' = "header" /\ part' = <<>>
  /\ Got + n = Whole(At)
Refuses == receiver' = "failed" /\ part' = <<>> /\ delivered' = delivered

LEMMA ReceiveCases ==
  ASSUME FramesInv, F!Receive
  PROVE  \E n \in 1..Len(wire) :
           /\ n <= F!Needed /\ wire' = SubSeq(wire, n + 1, Len(wire))
           /\ UNCHANGED <<frames, taken, sender, sendLeft, open>>
           /\ GoesOn(n) \/ Returns(n) \/ Refuses
           /\ part' \in Seq(F!Bytes) /\ size' \in 0..MaxPayload /\ receiveLeft' \in 0..Patience
           /\ receiver' \in {"header", "payload", "failed"}
           /\ Len(part') < IF receiver' = "payload" THEN size' ELSE Header
<1>0. FrameFacts
  BY FrameNumbers
<1>1. PICK n \in 1..Len(wire) :
        /\ n <= F!Wanted /\ wire' = SubSeq(wire, n + 1, Len(wire))
        /\ LET got == part \o SubSeq(wire, 1, n) IN
           IF n < F!Needed THEN F!Keep(got) ELSE F!Complete(got[1])
  BY DEF F!Receive
<1>2. F!Waiting /\ n <= F!Needed /\ UNCHANGED <<frames, taken, sender, sendLeft, open>>
  BY <1>1 DEF F!Receive, F!Wanted, F!sending
<1>3. /\ n \in Nat \ {0} /\ Len(wire) \in Nat /\ Got \in Nat /\ Len(part) \in Nat
      /\ At \in 1..F!Number /\ At = Len(delivered) + 1 /\ frames[At] \in Nat
      /\ Whole(At) = Header + frames[At] /\ Whole(At) \in Nat /\ Got + n <= Whole(At)
      /\ \A i \in 1..n : wire[i].frame = At /\ wire[i].offset = Got + i
      /\ wire[1].size = frames[At] /\ F!Needed \in Nat
      /\ receiver = "header" => Got + F!Needed = Header
      /\ receiver # "header" => receiver = "payload" /\ Got + F!Needed = Whole(At)
  BY <1>2, ReceivedBytes
<1> DEFINE got == part \o SubSeq(wire, 1, n)
<1>4. /\ got \in Seq(F!Bytes) /\ Len(got) = Len(part) + n /\ got # <<>>
      /\ got[1].frame = At /\ got[1].size = frames[At]
  <2>1. wire \in Seq(F!Bytes) /\ part \in Seq(F!Bytes) /\ n \in 0..Len(wire)
    BY <1>3 DEF FramesInv, F!TypeOK
  <2>2. /\ SubSeq(wire, 1, n) \in Seq(F!Bytes) /\ Len(SubSeq(wire, 1, n)) = n
        /\ \A i \in 1..n : SubSeq(wire, 1, n)[i] = wire[i]
    BY ONLY <2>1, SplitSequence
  <2>3. /\ got \in Seq(F!Bytes) /\ Len(got) = Len(part) + n
        /\ \A i \in 1..Len(part) + n :
             got[i] = IF i <= Len(part) THEN part[i] ELSE SubSeq(wire, 1, n)[i - Len(part)]
    BY <2>1, <2>2, ConcatProperties
  <2>4. Len(got) # 0 /\ 1 \in 1..Len(part) + n /\ 1 \in 1..n
    BY <1>3, <2>3
  <2>5. CASE part = <<>>
    <3>1. Len(part) = 0 /\ 1 - Len(part) = 1 /\ ~(1 <= Len(part))
      BY <2>5
    <3>2. got[1] = wire[1]
      BY <2>2, <2>3, <2>4, <3>1
    <3> HIDE DEF got
    <3> QED
      BY <1>3, <2>3, <2>4, <3>2
  <2>6. CASE part # <<>>
    <3>1. 1 <= Len(part)
      BY <2>1, <2>6
    <3>2. got[1] = part[1]
      BY <2>3, <2>4, <3>1
    <3>3. part[1].frame = At /\ part[1].size = frames[At]
      BY <2>6 DEF FramesInv, ReceiverOK
    <3> HIDE DEF got
    <3> QED
      BY <2>3, <2>4, <3>2, <3>3
  <2> QED
    BY <2>5, <2>6
<1>5. /\ n < F!Needed => part' = got /\ UNCHANGED <<receiver, size, receiveLeft, delivered>>
      /\ ~(n < F!Needed) =>
           /\ part' = <<>>
           /\ \/ (receiver = "payload" \/ frames[At] = 0) /\ F!Return(At)
              \/ receiver # "payload" /\ receiver' = "failed"
                 /\ UNCHANGED <<size, receiveLeft, delivered>>
              \/ /\ receiver # "payload" /\ frames[At] # 0 /\ frames[At] <= MaxPayload
                 /\ receiver' = "payload" /\ size' = frames[At]
                 /\ receiveLeft' = Patience /\ UNCHANGED delivered
  <2>1. got[1].frame = At /\ got[1].size = frames[At]
    BY <1>4
  <2>2. IF n < F!Needed THEN F!Keep(got) ELSE F!Complete(got[1])
    BY <1>1
  <2> HIDE DEF got
  <2>3. CASE n < F!Needed
    BY <2>2, <2>3 DEF F!Keep
  <2>4. CASE ~(n < F!Needed)
    BY <2>1, <2>2, <2>4 DEF F!Complete, F!Acceptable
  <2> QED
    BY <2>3, <2>4
<1> HIDE DEF got
<1>6. /\ size \in 0..MaxPayload /\ receiveLeft \in 0..Patience /\ Patience \in Nat
      /\ MaxPayload \in Nat /\ Header \in Nat \ {0} /\ <<>> \in Seq(F!Bytes)
      /\ Len(part) < IF receiver = "payload" THEN size ELSE Header
      /\ receiver \in {"header", "payload"}
      /\ receiver = "payload" => size = frames[At]
  BY <1>2, FramesAssumption DEF F!HeaderAssumption, F!BoundsAssumption, F!Waiting, FramesInv, F!TypeOK,
     ReceiverOK
<1>7. CASE n < F!Needed
  <2>1. part' = got /\ UNCHANGED <<receiver, size, receiveLeft, delivered>>
    BY <1>5, <1>7
  <2>2. /\ At' = At /\ Got' = Got + n /\ Len(part') = Len(part) + n /\ F!Waiting'
    <3>1. Len(part') = Len(part) + n
      BY <1>4, <2>1
    <3>2. Got' = (IF receiver = "payload" THEN Header ELSE 0) + (Len(part) + n)
      BY <2>1, <3>1 DEF Got
    <3>3. Got = (IF receiver = "payload" THEN Header ELSE 0) + Len(part)
      BY DEF Got
    <3>4. Got' = Got + n
      <4> DEFINE h == IF receiver = "payload" THEN Header ELSE 0
      <4>1. h \in Nat /\ Got' = h + (Len(part) + n) /\ Got = h + Len(part)
        BY <1>6, <3>2, <3>3
      <4> HIDE DEF h
      <4> QED
        BY <1>3, <4>1
    <3> QED
      BY <1>2, <2>1, <3>1, <3>4 DEF At, F!Waiting
  <2>3. Got + n < Whole(At)
    <3>1. Got + n < Got + F!Needed
      BY <1>3, <1>7
    <3>2. Got + F!Needed <= Whole(At) /\ Got + F!Needed \in Nat
      BY <1>3, <1>6
    <3> QED
      BY <1>3, <3>1, <3>2
  <2>4. Len(part') < IF receiver' = "payload" THEN size' ELSE Header
    <3>1. F!Needed = (IF receiver = "payload" THEN size ELSE Header) - Len(part)
      BY <1>6 DEF F!Needed
    <3> DEFINE h == IF receiver = "payload" THEN size ELSE Header
    <3>2. h \in Nat /\ F!Needed = h - Len(part)
      BY <1>6, <3>1
    <3>3. Len(part) + n < h
      <4> HIDE DEF h
      <4> QED
        BY <1>3, <1>7, <3>2
    <3> QED
      BY <2>1, <2>2, <3>3
  <2>5. GoesOn(n)
    BY <1>4, <1>6, <2>1, <2>2, <2>3 DEF GoesOn
  <2>6. part' \in Seq(F!Bytes)
    BY <1>4, <2>1
  <2> QED
    BY <1>1, <1>2, <1>6, <2>1, <2>4, <2>5, <2>6
<1>8. CASE ~(n < F!Needed)
  <2>1. n = F!Needed /\ part' = <<>> /\ Len(part') = 0
    BY <1>2, <1>3, <1>5, <1>8
  <2>2. CASE (receiver = "payload" \/ frames[At] = 0) /\ F!Return(At)
    <3>1. Got + n = Whole(At)
      BY <1>3, <1>6, <2>1, <2>2
    <3>2. Returns(n) /\ receiver' = "header" /\ size' = 0 /\ receiveLeft' = Patience
      BY <2>1, <2>2, <3>1 DEF Returns, F!Return
    <3> QED
      BY <1>1, <1>2, <1>6, <2>1, <3>2
  <2>3. CASE receiver # "payload" /\ receiver' = "failed" /\ UNCHANGED <<size, receiveLeft, delivered>>
    <3>1. Refuses
      BY <2>1, <2>3 DEF Refuses
    <3>2. /\ size' \in 0..MaxPayload /\ receiveLeft' \in 0..Patience /\ part' \in Seq(F!Bytes)
          /\ Len(part') < IF receiver' = "payload" THEN size' ELSE Header
      BY <1>6, <2>1, <2>3
    <3> QED
      BY <1>1, <1>2, <2>3, <3>1, <3>2
  <2>4. CASE /\ receiver # "payload" /\ frames[At] # 0 /\ frames[At] <= MaxPayload
             /\ receiver' = "payload" /\ size' = frames[At]
             /\ receiveLeft' = Patience /\ UNCHANGED delivered
    <3>1. Got + n = Header /\ Header < Whole(At)
      <4>1. /\ receiver = "header" /\ Got + F!Needed = Header /\ frames[At] \in Nat
            /\ Header \in Nat /\ Whole(At) = Header + frames[At]
        BY <1>3, <1>6, <2>4
      <4> QED
        BY ONLY <2>1, <2>4, <4>1
    <3>2. Got' = Header /\ At' = At /\ F!Waiting'
      BY <1>6, <2>1, <2>4 DEF Got, At, F!Waiting
    <3>3. GoesOn(n)
      BY <2>1, <2>4, <3>1, <3>2 DEF GoesOn
    <3>4. size' \in 0..MaxPayload /\ Len(part') < size'
      <4>1. frames[At] \in Nat /\ MaxPayload \in Nat
        BY <1>3, <1>6, FramesAssumption DEF F!BoundsAssumption
      <4> QED
        BY ONLY <2>1, <2>4, <4>1
    <3> QED
      BY <1>1, <1>2, <1>6, <2>1, <2>4, <3>3, <3>4
  <2> QED
    BY <1>5, <1>8, <2>2, <2>3, <2>4
<1> QED
  BY <1>7, <1>8

LEMMA ReceiveKeeps ==
  ASSUME FramesInv, F!Receive PROVE FramesInv'
<1>0. FrameFacts
  BY FrameNumbers
<1>1. PICK n \in 1..Len(wire) :
        /\ n <= F!Needed /\ wire' = SubSeq(wire, n + 1, Len(wire))
        /\ UNCHANGED <<frames, taken, sender, sendLeft, open>>
        /\ GoesOn(n) \/ Returns(n) \/ Refuses
        /\ part' \in Seq(F!Bytes) /\ size' \in 0..MaxPayload /\ receiveLeft' \in 0..Patience
        /\ receiver' \in {"header", "payload", "failed"}
        /\ Len(part') < IF receiver' = "payload" THEN size' ELSE Header
  BY ReceiveCases
<1>2. F!Waiting
  BY DEF F!Receive
<1>3. /\ n \in Nat \ {0} /\ Len(wire) \in Nat /\ Got \in Nat
      /\ At \in 1..F!Number /\ At = Len(delivered) + 1
      /\ Whole(At) \in Nat /\ Got + n <= Whole(At)
      /\ \A i \in 1..n : wire[i].frame = At /\ wire[i].offset = Got + i
  BY <1>1, <1>2, ReceivedBytes
<1>4. /\ WireOK' /\ wire' \in Seq(F!Bytes)
      /\ n < Len(wire) => wire' # <<>> /\ wire'[1] = wire[n + 1]
      /\ n = Len(wire) => wire' = <<>>
      /\ open' /\ wire' # <<>> => LastIsSent'
  BY <1>1, TailKeeps
<1>5. /\ F!Number \in Nat /\ F!Number <= MaxFrames /\ MaxFrames \in Nat /\ taken \in Nat
      /\ Len(delivered) \in Nat /\ delivered \in Seq(1..MaxFrames)
      /\ F!Number > 0 => F!Total = Whole(F!Number)
  BY <1>0 DEF FrameFacts, FramesInv, F!TypeOK
<1>6. F!Number' = F!Number /\ F!Total' = F!Total /\ F!Completed' = F!Completed
  BY <1>1 DEF F!Number, F!Total, F!Completed
<1>7. Returns(n) => /\ delivered' \in Seq(1..MaxFrames) /\ Len(delivered') = At
                    /\ \A i \in 1..At : delivered'[i] = IF i = At THEN At ELSE delivered[i]
  <2> SUFFICES ASSUME delivered' = Append(delivered, At)
               PROVE  /\ delivered' \in Seq(1..MaxFrames) /\ Len(delivered') = At
                      /\ \A i \in 1..At : delivered'[i] = IF i = At THEN At ELSE delivered[i]
    BY DEF Returns
  <2>1. At \in 1..MaxFrames
    BY <1>3, <1>5
  <2> QED
    BY <1>3, <1>5, <2>1
<1>8. F!TypeOK'
  <2>1. delivered' \in Seq(1..MaxFrames)
    BY <1>1, <1>5, <1>7 DEF GoesOn, Refuses
  <2> QED
    BY <1>1, <1>4, <2>1 DEF FramesInv, F!TypeOK
<1>9. SenderOK'
  BY <1>1, <1>6 DEF FramesInv, SenderOK
<1>10. (F!Waiting /\ wire # <<>> => wire[1].frame = At /\ wire[1].offset = Got + 1)'
  <2> SUFFICES ASSUME F!Waiting', wire' # <<>>
               PROVE  wire'[1].frame = At' /\ wire'[1].offset = Got' + 1
    OBVIOUS
  <2>1. n < Len(wire) /\ n + 1 \in 1..Len(wire) /\ n \in 1..n /\ n + 1 # 1 /\ 1 \in 1..n
        /\ 1 \in 1..Len(wire)
    BY <1>3, <1>4
  <2>2. wire'[1] = wire[n + 1]
    BY <1>4, <2>1
  <2>3. CASE GoesOn(n)
    <3>1. \A a, b \in 1..Len(wire) :
            a < b /\ wire[a].offset + (b - a) <= Whole(wire[a].frame) =>
              wire[b].frame = wire[a].frame /\ wire[b].offset = wire[a].offset + (b - a)
      BY DEF FramesInv, WireOK
    <3>2. wire[1].frame = At /\ wire[1].offset = Got + 1
      BY <1>3, <2>1
    <3>3. 1 < n + 1 /\ Got + 1 + ((n + 1) - 1) <= Whole(At) /\ Got + 1 + ((n + 1) - 1) = Got + n + 1
      BY <1>3, <2>3 DEF GoesOn
    <3>4. wire[n + 1].frame = At /\ wire[n + 1].offset = Got + n + 1
      BY <2>1, <3>1, <3>2, <3>3
    <3> QED
      BY <2>2, <2>3, <3>4 DEF GoesOn
  <2>4. CASE Returns(n)
    <3>1. \A a, b \in 1..Len(wire) :
            b = a + 1 /\ wire[a].offset = Whole(wire[a].frame) =>
              wire[b].frame = wire[a].frame + 1 /\ wire[b].offset = 1
      BY DEF FramesInv, WireOK
    <3>2. wire[n].frame = At /\ wire[n].offset = Whole(At)
      BY <1>3, <2>1, <2>4 DEF Returns
    <3>3. wire[n + 1].frame = At + 1 /\ wire[n + 1].offset = 1
      BY <2>1, <3>1, <3>2
    <3>4. At' = At + 1 /\ Got' = 0
      BY <1>7, <2>4 DEF Returns, At, Got
    <3> QED
      BY <2>2, <3>3, <3>4
  <2>5. ~Refuses
    BY DEF Refuses, F!Waiting
  <2> QED
    BY <1>1, <2>3, <2>4, <2>5
<1>11. (F!Waiting /\ wire = <<>> /\ open =>
          IF F!Number > 0 /\ taken < F!Total THEN At = F!Number /\ Got = taken
          ELSE At = F!Number + 1 /\ Got = 0)'
  <2> SUFFICES ASSUME F!Waiting', wire' = <<>>, open
               PROVE  IF F!Number > 0 /\ taken < F!Total THEN At' = F!Number /\ Got' = taken
                      ELSE At' = F!Number + 1 /\ Got' = 0
    BY <1>1, <1>6
  <2>1. n = Len(wire) /\ n \in 1..n /\ wire # <<>>
    BY <1>3, <1>4
  <2>2. wire[Len(wire)].frame = At /\ wire[Len(wire)].offset = Got + n
    BY <1>3, <2>1
  <2>3. IF taken > 0 THEN At = F!Number /\ Got + n = taken
        ELSE At = F!Number - 1 /\ Got + n = Whole(At)
    BY <2>1, <2>2 DEF FramesInv, EndsOK, LastIsSent
  <2>4. F!Number > 0 /\ F!Total = Whole(F!Number) /\ F!Total \in Nat /\ F!Total > 0
    BY <1>0, <1>3 DEF FrameFacts
  <2>5. CASE GoesOn(n)
    BY <1>3, <1>5, <2>3, <2>4, <2>5 DEF GoesOn
  <2>6. CASE Returns(n)
    <3>1. At' = At + 1 /\ Got' = 0
      BY <1>7, <2>6 DEF Returns, At, Got
    <3>2. Got + n = Whole(At)
      BY <2>6 DEF Returns
    <3>3. CASE taken > 0
      <4>1. At = F!Number /\ taken = F!Total
        BY <2>3, <2>4, <3>2, <3>3
      <4> QED
        BY <1>5, <2>4, <3>1, <4>1
    <3>4. CASE ~(taken > 0)
      <4>1. taken = 0 /\ At = F!Number - 1 /\ taken < F!Total /\ At + 1 = F!Number
        BY <1>3, <1>5, <2>3, <2>4, <3>4
      <4> QED
        BY <2>4, <3>1, <4>1
    <3> QED
      BY <3>3, <3>4
  <2>7. ~Refuses
    BY DEF Refuses, F!Waiting
  <2> QED
    BY <1>1, <2>5, <2>6, <2>7
<1>12. EndsOK'
  BY <1>4, <1>10, <1>11 DEF EndsOK
<1>13. ReceiverOK'
  <2>1. /\ Len(delivered) <= F!Completed /\ \A i \in 1..Len(delivered) : delivered[i] = i
        /\ F!Completed \in 0..F!Number
    BY <1>0 DEF FrameFacts, FramesInv, ReceiverOK
  <2>2. CASE GoesOn(n)
    <3>1. frames'[At'] = frames[At] /\ At' <= F!Number
      BY <1>1, <1>3, <2>2 DEF GoesOn
    <3>2. receiver' # "ended"
      BY <1>1
    <3> QED
      BY <1>6, <2>1, <2>2, <3>1, <3>2 DEF GoesOn, ReceiverOK
  <2>3. CASE Returns(n)
    <3>1. At <= F!Completed
      <4>1. n \in 1..Len(wire) /\ wire[n].frame = At /\ wire[n].offset = Whole(At)
        BY <1>3, <2>3 DEF Returns
      <4>2. At = F!Number => Whole(At) <= taken
        BY <4>1 DEF FramesInv, WireOK
      <4>3. At = F!Number => ~(taken < F!Total)
        BY <1>3, <1>5, <4>2
      <4> QED
        BY <1>3, <1>5, <4>3 DEF F!Completed
    <3>2. \A i \in 1..At : delivered'[i] = i
      <4> SUFFICES ASSUME NEW i \in 1..At PROVE delivered'[i] = i
        OBVIOUS
      <4>1. i = At \/ i \in 1..Len(delivered)
        BY <1>3
      <4> QED
        BY <1>7, <2>1, <2>3, <4>1
    <3>3. Len(delivered') = At /\ receiver' = "header" /\ part' = <<>> /\ Got' = 0
      BY <1>7, <2>3 DEF Returns, Got
    <3> QED
      BY <1>6, <3>1, <3>2, <3>3 DEF ReceiverOK
  <2>4. CASE Refuses
    BY <1>6, <2>1, <2>4 DEF Refuses, ReceiverOK, F!Waiting
  <2> QED
    BY <1>1, <2>2, <2>3, <2>4
<1>14. F!EndIsBetweenFrames'
  BY <1>1 DEF F!EndIsBetweenFrames
<1> QED
  BY <1>4, <1>8, <1>9, <1>12, <1>13, <1>14 DEF FramesInv

LEMMA QuietReceiverKeeps ==
  ASSUME FramesInv, F!ReceiveWaits \/ F!EndOfStream \/ F!ReceiveFails PROVE FramesInv'
<1>0. FrameFacts
  BY FrameNumbers
<1>1. UNCHANGED <<frames, taken, sender, sendLeft, wire, open, delivered>>
  BY DEF F!ReceiveWaits, F!EndOfStream, F!ReceiveFails, F!sending
<1>2. F!Number' = F!Number /\ F!Total' = F!Total /\ F!Completed' = F!Completed /\ At' = At
  BY <1>1 DEF F!Number, F!Total, F!Completed, At
<1>3. SenderOK' /\ WireOK'
  BY <1>1, <1>2 DEF FramesInv, SenderOK, WireOK, Whole
<1>4. LastIsSent' = LastIsSent
  BY <1>1, <1>2 DEF LastIsSent, Whole
<1>5. CASE F!ReceiveWaits
  <2>1. /\ UNCHANGED <<part, size, receiver>> /\ receiveLeft' \in 0..Patience
    BY <1>5, FramesAssumption DEF F!BoundsAssumption, F!ReceiveWaits, FramesInv, F!TypeOK
  <2>2. F!TypeOK'
    BY <1>1, <2>1 DEF FramesInv, F!TypeOK
  <2>3. Got' = Got /\ F!Waiting' = F!Waiting
    BY <2>1 DEF Got, F!Waiting
  <2>4. EndsOK' /\ ReceiverOK'
    BY <1>1, <1>2, <1>4, <2>1, <2>3 DEF FramesInv, EndsOK, ReceiverOK
  <2>5. F!EndIsBetweenFrames'
    BY <1>1, <1>2, <2>1 DEF FramesInv, F!EndIsBetweenFrames
  <2> QED
    BY <1>3, <2>2, <2>4, <2>5 DEF FramesInv
<1>6. CASE F!EndOfStream \/ F!ReceiveFails
  <2>1. /\ receiver' \in {"ended", "failed"} /\ part' = <<>> /\ size' = 0 /\ receiveLeft' = receiveLeft
        /\ receiver' = "ended" => F!EndOfStream /\ F!CleanEnd /\ F!PeerGone
    BY <1>6 DEF F!EndOfStream, F!ReceiveFails
  <2>2. F!TypeOK'
    BY <1>1, <2>1, FramesAssumption DEF F!HeaderAssumption, FramesInv, F!TypeOK
  <2>3. ~F!Waiting'
    BY <2>1 DEF F!Waiting
  <2>4. EndsOK'
    BY <1>1, <1>4, <2>3 DEF FramesInv, EndsOK
  <2>5. receiver' = "ended" /\ open' => sender' \in {"closed", "failed"}
    BY <1>1, <2>1 DEF F!PeerGone
  <2>6. ReceiverOK'
    BY <1>1, <1>2, <2>1, <2>3, <2>5 DEF FramesInv, ReceiverOK
  <2>7. F!EndIsBetweenFrames'
    <3> SUFFICES ASSUME receiver' = "ended", open
                 PROVE  Len(delivered) = IF F!Number > 0 /\ taken = 0 THEN F!Number - 1 ELSE F!Number
      BY <1>1, <1>2 DEF F!EndIsBetweenFrames
    <3>1. F!Waiting /\ wire = <<>> /\ Got = 0
      BY <2>1 DEF F!PeerGone, F!CleanEnd, F!Waiting, Got
    <3>2. IF F!Number > 0 /\ taken < F!Total THEN At = F!Number /\ Got = taken
          ELSE At = F!Number + 1 /\ Got = 0
      BY <3>1 DEF FramesInv, EndsOK
    <3>3. F!Number > 0 => F!Total \in Nat /\ F!Total > 0
      BY <1>0 DEF FrameFacts
    <3> QED
      BY <1>0, <3>1, <3>2, <3>3 DEF FrameFacts
  <2> QED
    BY <1>3, <2>2, <2>4, <2>6, <2>7 DEF FramesInv
<1> QED
  BY <1>5, <1>6

LEMMA FramesNext ==
  FramesInv /\ [F!Next]_(F!vars) => FramesInv'
<1> SUFFICES ASSUME FramesInv, [F!Next]_(F!vars) PROVE FramesInv'
  OBVIOUS
<1>1. CASE UNCHANGED F!vars
  BY <1>1 DEF F!vars, F!sending, F!receiving, FramesInv, F!TypeOK, SenderOK, WireOK, EndsOK,
     ReceiverOK, F!EndIsBetweenFrames, F!Number, F!Total, F!Completed, F!Waiting, At, Got, Whole,
     LastIsSent
<1>2. CASE F!Next
  BY <1>2, SendFrameKeeps, SendKeeps, QuietSenderKeeps, BreakKeeps, ReceiveKeeps,
     QuietReceiverKeeps DEF F!Next, F!SenderStep, F!Working
<1> QED
  BY <1>1, <1>2

LEMMA FramesSpec == F!Spec => []FramesInv
  BY FramesInit, FramesNext, PTL DEF F!Spec

-----------------------------------------------------------------------------
\* The queue that the connection implements.
Sent == SubSeq(frames, 1, F!Completed)
Received == [i \in DOMAIN delivered |-> frames[delivered[i]]]

QueueFacts ==
  /\ Sent \in Seq(Sizes) /\ Len(Sent) = F!Completed
  /\ \A i \in 1..F!Completed : Sent[i] = frames[i]
  /\ Received \in Seq(Sizes) /\ Len(Received) = Len(delivered)
  /\ \A i \in 1..Len(delivered) : Received[i] = frames[i]
  /\ Len(delivered) <= F!Completed

LEMMA QueueHolds == FramesInv => QueueFacts
<1> SUFFICES ASSUME FramesInv PROVE QueueFacts
  OBVIOUS
<1>1. FrameFacts
  BY FrameNumbers
<1>2. /\ frames \in Seq(Sizes) /\ F!Completed \in 0..Len(frames) /\ Len(delivered) \in Nat
      /\ Len(frames) \in Nat /\ delivered \in Seq(1..MaxFrames)
  BY <1>1 DEF FrameFacts, FramesInv, F!TypeOK
<1>3. Len(delivered) <= F!Completed /\ \A i \in 1..Len(delivered) : delivered[i] = i
  BY DEF FramesInv, ReceiverOK
<1>4. Sent \in Seq(Sizes) /\ Len(Sent) = F!Completed /\ \A i \in 1..F!Completed : Sent[i] = frames[i]
  BY <1>2, SplitSequence DEF Sent
<1>5. ASSUME NEW i \in 1..Len(delivered) PROVE frames[delivered[i]] = frames[i] /\ frames[i] \in Sizes
  <2>1. i \in 1..Len(frames)
    BY <1>2, <1>3
  <2> QED
    BY <1>2, <1>3, <2>1
<1>6. DOMAIN delivered = 1..Len(delivered)
  BY <1>2
<1>7. Received = [i \in 1..Len(delivered) |-> frames[i]]
  BY <1>5, <1>6 DEF Received
<1>8. Received \in Seq(Sizes) /\ Len(Received) = Len(delivered)
  BY <1>2, <1>5, <1>7, IsASeq, LenProperties
<1> QED
  BY <1>3, <1>4, <1>7, <1>8 DEF QueueFacts

LEMMA QueueHoldsNext == FramesInv' => QueueFacts'
  BY QueueHolds, PTL

\* A frame being sent is not in the queue before its last byte is taken.
LEMMA SendFrameIsHidden ==
  ASSUME FramesInv, FramesInv', NEW n \in Sizes, F!SendFrame(n)
  PROVE  Sent' = Sent /\ Received' = Received /\ F!Waiting' = F!Waiting
<1>0. FrameFacts
  BY FrameNumbers
<1>1. QueueFacts /\ QueueFacts'
  BY QueueHolds, QueueHoldsNext
<1>2. /\ sender = "idle" /\ frames' = Append(frames, n) /\ taken' = 0
      /\ UNCHANGED <<receiver, delivered>> /\ frames \in Seq(Sizes) /\ Len(frames) = F!Number
  BY DEF F!SendFrame, F!receiving, FramesInv, F!TypeOK, F!Number
<1>3. F!Number' = F!Number + 1 /\ frames'[F!Number'] = n /\ n \in Nat /\ Header \in Nat \ {0}
  BY <1>0, <1>2 DEF FrameFacts, F!Number
<1>4. \A i \in 1..F!Number : frames'[i] = frames[i]
  BY <1>0, <1>2 DEF FrameFacts
<1>5. F!Completed' = F!Number /\ F!Completed = F!Number
  BY <1>0, <1>2, <1>3 DEF FrameFacts, F!Completed, F!Total, FramesInv, SenderOK
<1>6. Sent' = Sent
  <2>1. \A i \in 1..Len(Sent) : Sent'[i] = Sent[i]
    BY <1>1, <1>4, <1>5 DEF QueueFacts
  <2> QED
    BY <1>1, <1>5, <2>1, SeqEqual DEF QueueFacts
<1>7. Received' = Received
  <2>1. \A i \in 1..Len(delivered) : i \in 1..F!Number
    BY <1>0, <1>1, <1>5 DEF FrameFacts, QueueFacts
  <2>2. \A i \in 1..Len(Received) : Received'[i] = Received[i]
    BY <1>1, <1>2, <1>4, <2>1 DEF QueueFacts
  <2> QED
    BY <1>1, <1>2, <2>2, SeqEqual DEF QueueFacts
<1> QED
  BY <1>2, <1>6, <1>7 DEF F!Waiting

\* With its last byte a frame enters the queue.
LEMMA SendEnqueues ==
  ASSUME FramesInv, FramesInv', F!Send
  PROVE  /\ Received' = Received /\ F!Waiting' = F!Waiting
         /\ Sent' = Sent \/ \E f \in Sizes : Sent' = Append(Sent, f)
<1>0. FrameFacts
  BY FrameNumbers
<1>1. QueueFacts /\ QueueFacts'
  BY QueueHolds, QueueHoldsNext
<1>2. PICK n \in 1..F!Total - taken : taken' = taken + n
  BY DEF F!Send
<1>3. UNCHANGED <<frames, receiver, delivered>> /\ sender = "sending"
  BY DEF F!Send, F!receiving
<1>4. Received' = Received /\ F!Waiting' = F!Waiting /\ F!Total' = F!Total /\ F!Number' = F!Number
  BY <1>3 DEF Received, F!Waiting, F!Total, F!Number
<1>5. F!Number > 0 /\ taken < F!Total /\ F!Completed = F!Number - 1 /\ F!Number \in Nat
  BY <1>0, <1>3 DEF FrameFacts, FramesInv, SenderOK, F!Completed
<1>6. CASE F!Completed' = F!Completed
  BY <1>3, <1>4, <1>6 DEF Sent
<1>7. CASE F!Completed' # F!Completed
  <2>1. F!Completed' = F!Number
    BY <1>4, <1>5, <1>7 DEF F!Completed
  <2>2. frames[F!Number] \in Sizes
    BY <1>0, <1>5 DEF FrameFacts
  <2> DEFINE added == Append(Sent, frames[F!Number])
  <2>3. /\ added \in Seq(Sizes) /\ Len(added) = F!Number
        /\ \A i \in 1..F!Number : added[i] = IF i = F!Number THEN frames[F!Number] ELSE Sent[i]
    BY <1>1, <1>5, <2>2 DEF QueueFacts
  <2> HIDE DEF added
  <2>4. \A i \in 1..F!Number : added[i] = frames[i]
    BY <1>1, <1>5, <2>3 DEF QueueFacts
  <2>5. Sent' \in Seq(Sizes) /\ Len(Sent') = F!Number /\ \A i \in 1..F!Number : Sent'[i] = frames[i]
    BY <1>1, <1>3, <2>1 DEF QueueFacts
  <2>6. Sent' = added
    BY <2>3, <2>4, <2>5, SeqEqual
  <2> QED
    BY <1>4, <2>2, <2>6 DEF added
<1> QED
  BY <1>6, <1>7

\* Quiet steps leave the queue alone.
LEMMA QuietIsHidden ==
  ASSUME FramesInv, UNCHANGED <<frames, taken, delivered>>
  PROVE  Sent' = Sent /\ Received' = Received
  BY DEF Sent, Received, F!Completed, F!Number, F!Total

\* A frame that is returned is the next one of the queue.
LEMMA ReturnDequeues ==
  ASSUME FramesInv, FramesInv', NEW n, UNCHANGED <<frames, taken>>, Returns(n)
  PROVE  /\ Sent' = Sent /\ Len(Received) < Len(Sent)
         /\ Received' = Append(Received, Sent[Len(Received) + 1])
<1>1. QueueFacts /\ QueueFacts'
  BY QueueHolds, QueueHoldsNext
<1>2. Sent' = Sent /\ F!Completed' = F!Completed
  BY DEF Sent, F!Completed, F!Number, F!Total
<1>3. FrameFacts
  BY FrameNumbers
<1>4. Len(delivered) \in Nat /\ At = Len(delivered) + 1 /\ Len(delivered') = At
  <2>1. delivered \in Seq(1..MaxFrames) /\ delivered' = Append(delivered, At)
    BY DEF FramesInv, F!TypeOK, Returns
  <2> QED
    BY <1>3, <2>1 DEF FrameFacts
<1>5. Len(Received) < Len(Sent) /\ Len(Received) = Len(delivered) /\ At <= F!Completed
  BY <1>1, <1>2, <1>3, <1>4 DEF QueueFacts, FrameFacts
<1>6. Sent[Len(Received) + 1] = frames[At] /\ frames[At] \in Sizes /\ At \in 1..F!Completed
  <2>0. F!Completed \in 0..F!Number /\ F!Number \in Nat /\ At \in Nat \ {0}
    BY <1>3 DEF FrameFacts
  <2>1. At \in 1..F!Completed /\ At \in 1..F!Number /\ Len(Received) + 1 = At
    BY ONLY <1>4, <1>5, <2>0
  <2> QED
    BY <1>1, <1>3, <2>1 DEF QueueFacts, FrameFacts
<1> DEFINE added == Append(Received, frames[At])
<1>7. /\ added \in Seq(Sizes) /\ Len(added) = At
      /\ \A i \in 1..At : added[i] = IF i = At THEN frames[At] ELSE Received[i]
  BY <1>1, <1>4, <1>5, <1>6 DEF QueueFacts
<1> HIDE DEF added
<1>8. \A i \in 1..At : added[i] = frames[i]
  <2> SUFFICES ASSUME NEW i \in 1..At PROVE added[i] = frames[i]
    OBVIOUS
  <2>1. i = At \/ i \in 1..Len(delivered)
    BY <1>4
  <2> QED
    BY <1>1, <1>4, <1>7, <2>1 DEF QueueFacts
<1>9. Received' \in Seq(Sizes) /\ Len(Received') = At /\ \A i \in 1..At : Received'[i] = frames[i]
  BY <1>1, <1>4 DEF QueueFacts
<1>10. Received' = added
  BY <1>7, <1>8, <1>9, SeqEqual
<1> QED
  BY <1>2, <1>5, <1>6, <1>10 DEF added

\* Each step of sendFrame and receiveFrame is a step of the queue or does not
\* show.
LEMMA FramesImplementQueue ==
  ASSUME FramesInv, FramesInv', [F!Next]_(F!vars)
  PROVE  [F!Queue!Next]_(F!Queue!queueVars)
<1> USE DEF F!Queue!Next, F!Queue!queueVars, F!Queue!Send, F!Queue!Receive, F!Queue!End
<1>1. CASE UNCHANGED F!vars
  BY <1>1, QuietIsHidden DEF F!vars, F!sending, F!receiving, F!Waiting, Sent, Received
<1>2. CASE \E n \in Sizes : F!SendFrame(n)
  BY <1>2, SendFrameIsHidden DEF Sent, Received
<1>3. CASE F!Send
  <2>1. /\ Received' = Received /\ F!Waiting' = F!Waiting
        /\ Sent' = Sent \/ \E f \in Sizes : Sent' = Append(Sent, f)
    BY <1>3, SendEnqueues
  <2>2. CASE Sent' = Sent
    BY <2>1, <2>2 DEF Sent, Received
  <2>3. CASE \E f \in Sizes : Sent' = Append(Sent, f)
    <3>1. PICK f \in Sizes : Sent' = Append(Sent, f)
      BY <2>3
    <3>2. F!Queue!Send(f)
      BY <2>1, <3>1 DEF Sent, Received
    <3> QED
      BY <3>2
  <2> QED
    BY <2>1, <2>2, <2>3
<1>4. CASE F!SendWaits \/ F!SendFails \/ F!Close \/ F!Break \/ F!ReceiveWaits
  <2>1. UNCHANGED <<frames, taken, delivered, receiver>>
    BY <1>4 DEF F!SendWaits, F!SendFails, F!Close, F!Break, F!ReceiveWaits, F!sending, F!receiving
  <2> QED
    BY <2>1, QuietIsHidden DEF F!Waiting, Sent, Received
<1>5. CASE F!EndOfStream \/ F!ReceiveFails
  <2>1. UNCHANGED <<frames, taken, delivered>> /\ receiver' \in {"ended", "failed"}
    BY <1>5 DEF F!EndOfStream, F!ReceiveFails, F!sending
  <2>2. ~F!Waiting'
    BY <2>1 DEF F!Waiting
  <2> QED
    BY <2>1, <2>2, QuietIsHidden DEF Sent, Received
<1>6. CASE F!Receive
  <2>1. PICK n \in 1..Len(wire) : /\ UNCHANGED <<frames, taken>>
                                  /\ GoesOn(n) \/ Returns(n) \/ Refuses
    BY <1>6, ReceiveCases
  <2>2. F!Waiting
    BY <1>6 DEF F!Receive
  <2>3. CASE GoesOn(n)
    <3>1. UNCHANGED <<frames, taken, delivered>> /\ F!Waiting'
      BY <2>1, <2>3 DEF GoesOn
    <3> QED
      BY <2>2, <3>1, QuietIsHidden DEF Sent, Received
  <2>4. CASE Returns(n)
    <3>1. F!Waiting'
      BY <2>4 DEF Returns, F!Waiting
    <3>2. /\ Sent' = Sent /\ Len(Received) < Len(Sent)
          /\ Received' = Append(Received, Sent[Len(Received) + 1])
      BY <2>1, <2>4, ReturnDequeues
    <3> QED
      BY <2>2, <3>1, <3>2 DEF Sent, Received
  <2>5. CASE Refuses
    <3>1. UNCHANGED <<frames, taken, delivered>> /\ ~F!Waiting'
      BY <2>1, <2>5 DEF Refuses, F!Waiting
    <3> QED
      BY <3>1, QuietIsHidden DEF Sent, Received
  <2> QED
    BY <2>1, <2>3, <2>4, <2>5
<1> QED
  BY <1>1, <1>2, <1>3, <1>4, <1>5, <1>6 DEF F!Next, F!SenderStep, F!Working

LEMMA FramesStartEmpty ==
  ASSUME F!Init PROVE F!Queue!Init
<1>1. F!Completed = 0 /\ frames = <<>> /\ delivered = <<>> /\ F!Waiting
  BY DEF F!Init, F!Completed, F!Number, F!Waiting
<1>2. SubSeq(frames, 1, F!Completed) = <<>>
  BY <1>1
<1>3. [i \in DOMAIN delivered |-> frames[delivered[i]]] = <<>>
  BY <1>1
<1> QED
  BY <1>1, <1>2, <1>3 DEF F!Queue!Init

\* A connection is a queue of frames: receiveFrame returns what sendFrame was
\* given, in order, once and whole, however the socket cuts it up, and a frame
\* cut short is never taken for the end of the session.
THEOREM FramesAreQueued ==
  F!Spec => F!QueueSpec /\ [](F!TypeOK /\ F!EndIsBetweenFrames)
<1>1. FramesInv => F!TypeOK /\ F!EndIsBetweenFrames
  BY DEF FramesInv
<1>2. FramesInv /\ FramesInv' /\ [F!Next]_(F!vars) => [F!Queue!Next]_(F!Queue!queueVars)
  BY FramesImplementQueue
<1>3. F!Init => F!Queue!Init
  BY FramesStartEmpty
<1> QED
  BY <1>1, <1>2, <1>3, FramesInit, FramesNext, PTL DEF F!Spec, F!QueueSpec, F!Queue!Spec

-----------------------------------------------------------------------------
(* Deadlines.  What a call has waited and what it has left make up its     *)
(* deadline: no step between two calls changes the one without the other.  *)

DeadlinesInv ==
  /\ sendWaited \in Nat /\ sendLeft \in Nat /\ sendWaited + sendLeft = Patience
  /\ receiveWaited \in Nat /\ receiveLeft \in Nat /\ receiveWaited + receiveLeft = Patience

LEMMA DeadlinesStart == F!Init => DeadlinesInv
  BY FramesAssumption DEF F!BoundsAssumption, F!Init, DeadlinesInv

\* A step leaves a call's deadline as it was, lets a slice pass, or is the
\* beginning of the next call.
LEMMA DeadlinesNext == DeadlinesInv /\ [F!Next]_(F!vars) => DeadlinesInv'
<1> SUFFICES ASSUME DeadlinesInv, [F!Next]_(F!vars) PROVE DeadlinesInv'
  OBVIOUS
<1>0. Patience \in Nat
  BY FramesAssumption DEF F!BoundsAssumption
<1> USE DEF F!sending, F!receiving, F!waited
<1>1. CASE UNCHANGED F!vars
  BY <1>1 DEF F!vars, DeadlinesInv
<1>2. CASE \E n \in Sizes : F!SendFrame(n)
  BY <1>0, <1>2 DEF F!SendFrame, DeadlinesInv
<1>3. CASE F!SendWaits
  BY <1>3 DEF F!SendWaits, DeadlinesInv
<1>4. CASE F!ReceiveWaits
  BY <1>4 DEF F!ReceiveWaits, DeadlinesInv
<1>5. CASE F!Receive
  <2>1. UNCHANGED <<sendLeft, sendWaited>>
    BY <1>5 DEF F!Receive
  <2>2. PICK n \in 1..Len(wire) :
          LET got == part \o SubSeq(wire, 1, n) IN
          IF n < F!Needed THEN F!Keep(got) ELSE F!Complete(got[1])
    BY <1>5 DEF F!Receive
  <2>3. \/ UNCHANGED <<receiveLeft, receiveWaited>>
        \/ receiveLeft' = Patience /\ receiveWaited' = 0
    BY <2>2 DEF F!Keep, F!Complete, F!Return
  <2> QED
    BY <1>0, <2>1, <2>3 DEF DeadlinesInv
<1>6. CASE F!Close \/ F!Send \/ F!EndOfStream \/ F!SendFails \/ F!Break \/ F!ReceiveFails
  <2>1. UNCHANGED <<sendLeft, sendWaited, receiveLeft, receiveWaited>>
    BY <1>6 DEF F!Close, F!Send, F!EndOfStream, F!SendFails, F!Break, F!ReceiveFails
  <2> QED
    BY <2>1 DEF DeadlinesInv
<1> QED
  BY <1>1, <1>2, <1>3, <1>4, <1>5, <1>6 DEF F!Next, F!SenderStep, F!Working

-----------------------------------------------------------------------------
(* The exchanges together.                                                 *)

ServedInv ==
  /\ active = "history" => HistoryInv
  /\ active = "download" => DownloadInv

LEMMA ServedInit == MCInit => ServedInv
  BY HistoryInit, DownloadInit DEF MCInit, ServedInv

LEMMA ServedNext == ServedInv /\ [MCNext]_mcVars => ServedInv'
<1> SUFFICES ASSUME ServedInv, [MCNext]_mcVars PROVE ServedInv'
  OBVIOUS
<1>1. active' = active
  BY DEF MCNext, mcVars
<1>2. active = "history" => [H!Next]_(H!vars)
  <2> SUFFICES ASSUME active = "history", ~H!Next PROVE UNCHANGED H!vars
    OBVIOUS
  <2>1. UNCHANGED mcVars
    BY DEF MCNext
  <2> QED
    BY <2>1 DEF mcVars, historyVars, downloadVars, H!vars, H!disk, H!listing
<1>3. active = "download" => [D!Next]_(D!vars)
  <2> SUFFICES ASSUME active = "download", ~D!Next PROVE UNCHANGED D!vars
    OBVIOUS
  <2>1. UNCHANGED mcVars
    BY DEF MCNext
  <2> QED
    BY <2>1 DEF mcVars, downloadVars, D!vars, D!storeVars, D!serverVars, D!connection, D!clientVars
<1> QED
  BY <1>1, <1>2, <1>3, HistoryNext, DownloadNext DEF ServedInv

\* What the clients of a server see is what it stores, in every run of an
\* exchange and whatever the sizes: the list and the base of a history, and
\* the file of a download.
THEOREM ServedCorrect ==
  MCSpec => []ServedIsStored
<1>1. ServedInv => ServedIsStored
  BY HistoryPromises DEF ServedInv, ServedIsStored, DownloadInv
<1> QED
  BY <1>1, ServedInit, ServedNext, PTL DEF MCSpec

LEMMA FramesOfAll ==
  /\ MCInit => F!Init
  /\ [MCNext]_mcVars => [F!Next]_(F!vars)
  BY DEF MCInit, MCNext, mcVars, frameVars, F!vars, F!sending, F!receiving, F!waited

\* In every exchange the frames arrive as a queue's.
THEOREM FramesCorrect ==
  MCSpec => FramesInOrder
  BY FramesOfAll, FramesAreQueued, PTL DEF MCSpec, F!Spec, FramesInOrder

\* However long the deadline and however little the peer takes or gives at a
\* time, sendAll and receiveAll are never in a call for longer than their
\* deadline: a byte that moves does not renew it.
THEOREM DeadlinesKept ==
  MCSpec => F!DeadlinesHold
<1>1. DeadlinesInv' => F!InTime
  <2> SUFFICES ASSUME DeadlinesInv' PROVE F!InTime
    OBVIOUS
  <2>1. /\ sendWaited' \in Nat /\ sendLeft' \in Nat /\ sendWaited' + sendLeft' = Patience
        /\ receiveWaited' \in Nat /\ receiveLeft' \in Nat
        /\ receiveWaited' + receiveLeft' = Patience
    BY DEF DeadlinesInv
  <2>2. \A a, b, c \in Nat : a + b = c => a <= c
    OBVIOUS
  <2>3. Patience \in Nat
    BY FramesAssumption DEF F!BoundsAssumption
  <2> QED
    BY <2>1, <2>2, <2>3, Zenon DEF F!InTime
<1> QED
  BY <1>1, FramesOfAll, DeadlinesStart, DeadlinesNext, PTL DEF MCSpec, F!DeadlinesHold
=============================================================================
