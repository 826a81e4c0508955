---------------------------- MODULE MCTransfers ----------------------------
(***************************************************************************)
(* The network side, one exchange at a time: "active" says which, and the  *)
(* variables of the others stand still.                                    *)
(*                                                                         *)
(*   upload    Upload, with every fault                                    *)
(*   calm      Upload without faults, with a shorter connection            *)
(*   download  Download                                                    *)
(*   history   History                                                     *)
(*   frames    Frames                                                      *)
(*                                                                         *)
(* MCTransfers.cfg checks files of at most two blocks, three uploads into  *)
(* a history of two, headers of two bytes, payloads of none, one and two   *)
(* and one that is too large, over a connection of three bytes.            *)
(***************************************************************************)
EXTENDS Upload, TLC

CONSTANTS
  Nothing, Foreign,                                           \* of Download
  Uploads, None, MaxClock, MaxHistory,                        \* of History
  Header, Sizes, MaxPayload, Buffer, MaxFrames, Patience      \* of Frames

VARIABLES
  active,
  recorded, archive, sending, at, toClient, broken, receiving, expected, staging, output,
  clock, phase, stamp, lock, meta, list, visited, current, entries, known, newest, last, chosen,
  frames, taken, sender, sendLeft, wire, open, part, size, receiver, receiveLeft, delivered,
  sendWaited, receiveWaited

-----------------------------------------------------------------------------
C == INSTANCE Upload WITH Faults <- FALSE, IndexLimit <- 2, Capacity <- 1

D == INSTANCE Download WITH
       server <- sending, client <- receiving, down <- toClient, cut <- broken,
       declared <- expected

H == INSTANCE History WITH base <- chosen

F == INSTANCE Frames WITH sent <- taken

ASSUME CalmAssumption == C!BoundsAssumption /\ C!NoFileAssumption
ASSUME DownloadAssumption == D!BoundsAssumption /\ D!SentinelAssumption
ASSUME HistoryAssumption == H!NoneAssumption
ASSUME FramesAssumption == F!HeaderAssumption /\ F!BoundsAssumption

-----------------------------------------------------------------------------
downloadVars == <<recorded, archive, sending, at, toClient, broken, receiving, expected,
                  staging, output>>
historyVars == <<clock, phase, stamp, lock, meta, list, visited, current, entries, known,
                 newest, last, chosen>>
frameVars == <<frames, taken, sender, sendLeft, wire, open, part, size, receiver, receiveLeft,
               delivered, sendWaited, receiveWaited>>
mcVars == <<active, vars, downloadVars, historyVars, frameVars>>

NoUpload ==
  /\ local = <<>> /\ base = NoFile
  /\ client = "failed" /\ delta = FALSE /\ hashed = <<>> /\ hashes = <<>> /\ sent = 0
  /\ server = "failed" /\ declared = [size |-> 0, digest |-> <<>>, delta |-> FALSE]
  /\ baseSize = 0 /\ indexed = 0 /\ file = <<>> /\ published = NoFile
  /\ up = <<>> /\ down = <<>> /\ cut = TRUE
NoDownload ==
  /\ recorded = 0 /\ sending = 0 /\ at = 0 /\ toClient = 0 /\ broken = 0
  /\ receiving = 0 /\ expected = 0 /\ staging = 0 /\ output = 0
NoHistory ==
  /\ clock = 0 /\ phase = 0 /\ stamp = 0 /\ lock = 0 /\ meta = 0 /\ list = 0 /\ visited = 0
  /\ current = 0 /\ entries = 0 /\ known = 0 /\ newest = 0 /\ last = 0 /\ chosen = 0

MCInit ==
  \/ /\ \/ active = "upload" /\ Init
        \/ active = "calm" /\ C!Init
     /\ NoDownload /\ archive = 0 /\ NoHistory /\ F!Init
  \/ active = "download" /\ D!Init /\ NoUpload /\ NoHistory /\ F!Init
  \/ active = "history" /\ H!Init /\ NoUpload /\ NoDownload /\ F!Init
  \/ active = "frames" /\ F!Init /\ NoUpload /\ NoDownload /\ archive = 0 /\ NoHistory

MCNext ==
  /\ active' = active
  /\ \/ /\ \/ active = "upload" /\ Next
           \/ active = "calm" /\ C!Next
        /\ UNCHANGED <<downloadVars, historyVars, frameVars>>
     \/ active = "download" /\ D!Next /\ UNCHANGED <<vars, historyVars, frameVars>>
     \/ /\ active = "history" /\ H!Next
        /\ UNCHANGED <<vars, recorded, sending, at, toClient, broken, receiving, expected,
                       staging, output, frameVars>>
     \/ active = "frames" /\ F!Next /\ UNCHANGED <<vars, downloadVars, historyVars>>

MCSpec == MCInit /\ [][MCNext]_mcVars

\* The threads of whichever exchange is active keep running.
MCFairSpec ==
  /\ MCSpec
  /\ WF_vars(active = "upload" /\ (ClientStep \/ ClientError))
  /\ WF_vars(active = "upload" /\ (ServerStep \/ ServerError))
  /\ WF_vars(active = "calm" /\ (C!ClientStep \/ C!ClientError))
  /\ WF_vars(active = "calm" /\ (C!ServerStep \/ C!ServerError))
  /\ WF_frameVars(active = "frames" /\ F!SendWaits)
  /\ WF_frameVars(active = "frames" /\ F!SendTimesOut)
  /\ WF_frameVars(active = "frames" /\ F!ReceiveWaits)
  /\ WF_frameVars(active = "frames" /\ F!ReceiveTimesOut)

-----------------------------------------------------------------------------
\* What a client sees is what is stored: a history list is complete and shows
\* only stored backups, a base is chosen that is not older than what the user
\* knows of, and a downloaded file is the recorded archive.
ServedIsStored ==
  /\ active = "history" => /\ H!TypeOK /\ H!ListIsComplete /\ H!ListedIsStored
                           /\ H!BaseIsNotOlder
  /\ active = "download" => D!TypeOK /\ D!OutputIsRecorded

\* Frames arrive in order, whole and once, whatever sendAll and receiveAll are
\* given by the socket; the end of the stream is clean only between frames.
FramesInOrder == F!QueueSpec /\ [](F!TypeOK /\ F!EndIsBetweenFrames)

\* No exchange hangs: an upload without faults succeeds, with faults both
\* sides come to an end, and every call on a socket returns within its deadline.
ExchangesEnd ==
  /\ active = "upload" => BothEnd
  /\ active = "calm" => C!Completes
  /\ active = "frames" => F!CallsReturn
  /\ [][F!InTime]_(F!waited)

\* "Incremental mode uses the newest archive with the same displayName"
\* (network.hpp:91).
BaseIsNewest == active = "history" => H!BaseIsNewest
=============================================================================
