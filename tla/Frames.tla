------------------------------- MODULE Frames -------------------------------
(***************************************************************************)
(* One direction of a connection (network/io.cpp): sendFrame and           *)
(* receiveFrame over a socket that takes and gives any number of bytes.    *)
(* Time is counted in slices of a call's deadline.  It passes whether or   *)
(* not bytes move, and a call may be cancelled.                            *)
(*                                                                         *)
(* A frame is a header that carries the size, then that many bytes; each   *)
(* byte is marked with the frame and its offset.  The order of bytes in    *)
(* integers, the magic and the version are left out.                       *)
(***************************************************************************)
EXTENDS Integers, Sequences

CONSTANTS
  Header,    \* 16 in the code
  Sizes,     \* the payload sizes senders ask for
  MaxPayload, \* kMaxPayload: 2^20
  Buffer,    \* bound: the bytes a connection holds
  MaxFrames, \* bound: the frames sent
  Patience   \* bound: slices until a deadline

HeaderAssumption == Header \in Nat \ {0} /\ Sizes \subseteq Nat /\ MaxPayload \in Nat
BoundsAssumption == Buffer \in Nat \ {0} /\ MaxFrames \in Nat /\ Patience \in Nat

VARIABLES
  frames,    \* history: the sizes of the frames given to sendFrame
  sent,      \* bytes of the last of them that the socket has taken
  sender,    \* "idle", "sending", "failed" or "closed"
  sendLeft,  \* slices until its deadline
  wire,      \* bytes in the connection: [frame, offset, size]
  open,      \* whether it carries data
  part,      \* bytes received of the current header or payload
  size,      \* of the payload, while it is received
  receiver,  \* "header", "payload", "ended" or "failed"
  receiveLeft,
  delivered, \* history: the frames receiveFrame has returned
  sendWaited, receiveWaited \* history: slices since the call began

sending == <<frames, sent, sender, sendLeft>>
receiving == <<part, size, receiver, receiveLeft, delivered>>
waited == <<sendWaited, receiveWaited>>
vars == <<sending, wire, open, receiving, waited>>

Bytes == [frame : 1..MaxFrames, offset : Nat, size : Nat]

TypeOK ==
  /\ frames \in Seq(Sizes) /\ sent \in Nat /\ sendLeft \in 0..Patience
  /\ sender \in {"idle", "sending", "failed", "closed"}
  /\ wire \in Seq(Bytes) /\ open \in BOOLEAN
  /\ part \in Seq(Bytes) /\ size \in 0..MaxPayload
  /\ receiver \in {"header", "payload", "ended", "failed"}
  /\ receiveLeft \in 0..Patience /\ delivered \in Seq(1..MaxFrames)
  /\ Len(part) < IF receiver = "payload" THEN size ELSE Header

Init ==
  /\ frames = <<>> /\ sent = 0 /\ sender = "idle" /\ sendLeft = Patience
  /\ wire = <<>> /\ open = TRUE
  /\ part = <<>> /\ size = 0 /\ receiver = "header" /\ receiveLeft = Patience
  /\ delivered = <<>> /\ sendWaited = 0 /\ receiveWaited = 0

-----------------------------------------------------------------------------
Number == Len(frames)
Total == Header + frames[Number]
Mark(offset) == [frame |-> Number, offset |-> offset, size |-> frames[Number]]

\* sendFrame: header and payload are sent as one. Its own limit is not relied
\* on: the peer may be another program.
SendFrame(n) ==
  /\ sender = "idle" /\ Number < MaxFrames
  /\ frames' = Append(frames, n) /\ sent' = 0
  /\ sender' = "sending" /\ sendLeft' = Patience /\ sendWaited' = 0
  /\ UNCHANGED <<wire, open, receiving, receiveWaited>>

\* The loop of sendAll, if time remains: send takes as many bytes as there is
\* room for, or fewer.
Send ==
  /\ sender = "sending" /\ open /\ sendLeft > 0
  /\ \E n \in 1..Total - sent :
       /\ Len(wire) + n <= Buffer
       /\ wire' = wire \o [i \in 1..n |-> Mark(sent + i)]
       /\ sent' = sent + n
  /\ sender' = IF sent' = Total THEN "idle" ELSE "sending"
  /\ UNCHANGED <<frames, sendLeft, open, receiving, waited>>

\* A slice passes, in waitReady or elsewhere in the loop.
SendWaits ==
  /\ sender = "sending" /\ sendLeft > 0
  /\ sendLeft' = sendLeft - 1 /\ sendWaited' = sendWaited + 1
  /\ UNCHANGED <<frames, sent, sender, wire, open, receiving, receiveWaited>>

\* The deadline, a cancellation, or an error of the socket: the caller gives
\* up and closes it.
SendFails ==
  /\ sender = "sending"
  /\ sender' = "failed"
  /\ UNCHANGED <<frames, sent, sendLeft, wire, open, receiving, waited>>

\* The sender is done with the connection.
Close ==
  /\ sender = "idle"
  /\ sender' = "closed"
  /\ UNCHANGED <<frames, sent, sendLeft, wire, open, receiving, waited>>

\* The connection breaks; what it holds may be lost from the end on.
Break ==
  /\ open /\ open' = FALSE
  /\ \E n \in 0..Len(wire) : wire' = SubSeq(wire, 1, n)
  /\ UNCHANGED <<sending, receiving, waited>>

-----------------------------------------------------------------------------
Waiting == receiver \in {"header", "payload"}
Needed == (IF receiver = "header" THEN Header ELSE size) - Len(part)

\* Mutant of Wanted: the header is asked for as often as the payload is long.
WantedAnew == IF receiver = "header" THEN Header ELSE size
\* receiveAll never asks for more than the header or the payload needs.
Wanted == Needed

\* "network payload exceeds size limit"
Acceptable(n) == n <= MaxPayload

\* A whole frame is returned, and the next call starts with its header.
Return(number) ==
  /\ delivered' = Append(delivered, number)
  /\ receiver' = "header" /\ size' = 0 /\ receiveLeft' = Patience /\ receiveWaited' = 0

\* The call goes on with what it has got so far, its deadline as it was.
Keep(got) ==
  /\ part' = got
  /\ UNCHANGED <<receiver, size, receiveLeft, delivered, receiveWaited>>

\* What the last byte completes is a header or a payload.
Complete(last) ==
  /\ part' = <<>>
  /\ IF receiver = "payload" \/ last.size = 0 THEN Return(last.frame)
     ELSE IF ~Acceptable(last.size)
     THEN receiver' = "failed" /\ UNCHANGED <<size, receiveLeft, delivered, receiveWaited>>
     ELSE /\ receiver' = "payload" /\ size' = last.size
          /\ receiveLeft' = Patience /\ receiveWaited' = 0 /\ UNCHANGED delivered

\* Mutant of Receive: every byte renews the deadline.
ReceiveRenewed ==
  /\ Waiting /\ receiveLeft > 0
  /\ \E n \in 1..Len(wire) :
       /\ n <= Wanted
       /\ wire' = SubSeq(wire, n + 1, Len(wire))
       /\ LET got == part \o SubSeq(wire, 1, n) IN
          IF n < Needed
          THEN /\ part' = got /\ receiveLeft' = Patience
               /\ UNCHANGED <<receiver, size, delivered, receiveWaited>>
          ELSE Complete(got[1])
  /\ UNCHANGED <<sending, open, sendWaited>>
\* The loop of receiveAll, if time remains: recv gives some of the bytes that
\* are there.
Receive ==
  /\ Waiting /\ receiveLeft > 0
  /\ \E n \in 1..Len(wire) :
       /\ n <= Wanted
       /\ wire' = SubSeq(wire, n + 1, Len(wire))
       /\ LET got == part \o SubSeq(wire, 1, n) IN
          IF n < Needed THEN Keep(got) ELSE Complete(got[1])
  /\ UNCHANGED <<sending, open, sendWaited>>

ReceiveWaits ==
  /\ Waiting /\ receiveLeft > 0
  /\ receiveLeft' = receiveLeft - 1 /\ receiveWaited' = receiveWaited + 1
  /\ UNCHANGED <<sending, wire, open, part, size, receiver, delivered, sendWaited>>

\* recv returns 0 when everything has been read and the sender has closed: a
\* clean end before a header only.
PeerGone == wire = <<>> /\ (sender \in {"closed", "failed"} \/ ~open)
CleanEnd == receiver = "header" /\ part = <<>>

EndOfStream ==
  /\ Waiting /\ PeerGone /\ receiveLeft > 0
  /\ receiver' = IF CleanEnd THEN "ended" ELSE "failed"
  /\ part' = <<>> /\ size' = 0
  /\ UNCHANGED <<sending, wire, open, receiveLeft, delivered, waited>>

ReceiveFails ==
  /\ Waiting
  /\ receiver' = "failed" /\ part' = <<>> /\ size' = 0
  /\ UNCHANGED <<sending, wire, open, receiveLeft, delivered, waited>>

SenderStep == (\E n \in Sizes : SendFrame(n)) \/ Close
Working ==
  \/ Send \/ SendWaits \/ Receive \/ ReceiveWaits \/ EndOfStream
Next == SenderStep \/ Working \/ SendFails \/ Break \/ ReceiveFails

Spec == Init /\ [][Next]_vars

\* A call that has used up its deadline throws, or whose socket is broken.
SendTimesOut == (sendLeft = 0 \/ ~open) /\ SendFails
ReceiveTimesOut == receiveLeft = 0 /\ ReceiveFails
\* Time passes, and a call sees that it has; nothing makes a peer take or give
\* a byte.
FairSpec ==
  /\ Spec
  /\ WF_vars(SendWaits) /\ WF_vars(SendTimesOut)
  /\ WF_vars(ReceiveWaits) /\ WF_vars(ReceiveTimesOut)

-----------------------------------------------------------------------------
\* The receiver takes the end of the stream for a clean one only between
\* frames: a frame cut short is never mistaken for the end of the session.
EndIsBetweenFrames ==
  receiver = "ended" /\ open =>
    Len(delivered) = IF Number > 0 /\ sent = 0 THEN Number - 1 ELSE Number

\* No call outlasts its deadline, however the peer dribbles: the deadline
\* belongs to the whole of a frame that is sent, of a header or of a payload,
\* and what moves meanwhile does not renew it (sendAll, receiveAll). No slice
\* ever passes in a call that has used up as many as it was given.
InTime == sendWaited' <= Patience /\ receiveWaited' <= Patience
DeadlinesHold == [][InTime]_waited

\* Every call returns, also when the peer takes or gives nothing.
CallsReturn == (sender = "sending" ~> sender # "sending") /\ <>~Waiting

\* What the session layer relies on: frames arrive in order, each of them
\* once and whole, until the queue ends. A frame counts as sent when the
\* socket has taken its last byte.
Completed == IF Number > 0 /\ sent < Total THEN Number - 1 ELSE Number
Queue == INSTANCE FrameQueue WITH
  sent <- SubSeq(frames, 1, Completed),
  received <- [i \in DOMAIN delivered |-> frames[delivered[i]]],
  ended <- ~Waiting
QueueSpec == Queue!Spec
=============================================================================
