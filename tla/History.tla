------------------------------ MODULE History ------------------------------
(***************************************************************************)
(* The history of one account: uploads publish into its directory under    *)
(* the storage mutex (network/session.cpp), a list request reads the       *)
(* directory without it (listEntries in network/auth_store.cpp), and an    *)
(* incremental upload takes its base from such a list (network/client.cpp).*)
(* A publication may be rolled back.                                       *)
(*                                                                         *)
(* An upload is named by its identifier, which is never used again; all of *)
(* them have the display name the client asks for.                         *)
(***************************************************************************)
EXTENDS Integers, FiniteSets

CONSTANTS
  Uploads,
  None,
  MaxClock,    \* bound: the clock shows 0..MaxClock seconds
  MaxHistory   \* the entries a list may have

NoneAssumption == None \notin Uploads /\ MaxClock \in Nat /\ MaxHistory \in Nat

VARIABLES
  clock,
  phase,    \* where the handler of each upload is
  stamp,    \* entry.timestamp
  lock,     \* the holder of gStorageMutex
  archive, meta,  \* the files in the directory
  list,     \* where the list request is
  visited, current, entries,
  known,    \* history: the backups acknowledged before the request
  newest,   \* history: the upload acknowledged last before the request
  last,     \* history: the upload acknowledged last
  base      \* the base chosen by the client

disk == <<archive, meta>>
listing == <<list, visited, current, entries, known, newest, base>>
vars == <<clock, phase, stamp, lock, disk, listing, last>>

Holding == {"admit", "archive", "meta", "unmeta", "unarchive"}
Phases == {"receive", "lock", "stored", "answered", "failed"} \cup Holding

Init ==
  /\ clock \in 0..MaxClock
  /\ phase = [u \in Uploads |-> "receive"] /\ stamp = [u \in Uploads |-> 0]
  /\ lock = None /\ archive = {} /\ meta = {}
  /\ list = "idle" /\ visited = {} /\ current = None /\ entries = {} /\ known = {}
  /\ newest = None /\ last = None /\ base = None

\* Time passes; the clock may also be set.
Tick ==
  /\ clock' \in 0..MaxClock \ {clock}
  /\ UNCHANGED <<phase, stamp, lock, disk, listing, last>>

-----------------------------------------------------------------------------
(* handleUpload, from the verified staging file on.                        *)

Step(u, from, to) == phase[u] = from /\ phase' = [phase EXCEPT ![u] = to]
Quiet == UNCHANGED <<clock, listing, last>>

Stamp(u) ==
  /\ Step(u, "receive", "lock") /\ stamp' = [stamp EXCEPT ![u] = clock]
  /\ UNCHANGED <<lock, disk>> /\ Quiet

Lock(u) ==
  /\ lock = None /\ Step(u, "lock", "admit") /\ lock' = u
  /\ UNCHANGED <<stamp, disk>> /\ Quiet

\* listPayload of the history with the new entry: no writer interferes.
Admit(u) ==
  /\ IF Cardinality(meta) < MaxHistory
     THEN Step(u, "admit", "archive") /\ UNCHANGED lock
     ELSE Step(u, "admit", "failed") /\ lock' = None
  /\ UNCHANGED <<stamp, disk>> /\ Quiet

CommitArchive(u) ==
  /\ Step(u, "archive", "meta") /\ archive' = archive \cup {u}
  /\ UNCHANGED <<meta, stamp, lock>> /\ Quiet

CommitMeta(u) ==
  /\ Step(u, "meta", "stored") /\ meta' = meta \cup {u} /\ lock' = None
  /\ UNCHANGED <<archive, stamp>> /\ Quiet

\* Either commit throws, before the rename or after it.
CommitFails(u) ==
  /\ \/ Step(u, "archive", "unmeta") /\ archive' \in {archive, archive \cup {u}} /\ UNCHANGED meta
     \/ Step(u, "meta", "unmeta") /\ meta' \in {meta, meta \cup {u}} /\ UNCHANGED archive
  /\ UNCHANGED <<stamp, lock>> /\ Quiet

\* If it cannot be removed, the matching archive is kept.
RemoveMeta(u) ==
  /\ \/ Step(u, "unmeta", "unarchive") /\ meta' = meta \ {u} /\ UNCHANGED lock
     \/ Step(u, "unmeta", "failed") /\ lock' = None /\ UNCHANGED meta
  /\ UNCHANGED <<archive, stamp>> /\ Quiet

RemoveArchive(u) ==
  /\ Step(u, "unarchive", "failed") /\ lock' = None
  /\ archive' \in {archive, archive \ {u}}
  /\ UNCHANGED <<meta, stamp>> /\ Quiet

Answer(u) ==
  /\ Step(u, "stored", "answered") /\ last' = u
  /\ UNCHANGED <<stamp, lock, disk, clock, listing>>

-----------------------------------------------------------------------------
(* listEntries, for BackupClient::list.                                    *)

Acknowledged == {u \in Uploads : phase[u] = "answered"}
Uploading == UNCHANGED <<clock, phase, stamp, lock, disk, last>>

\* The client asks, and the directory is opened.
OpenDirectory ==
  /\ list = "idle" /\ list' = "read"
  /\ known' = Acknowledged /\ newest' = last
  /\ UNCHANGED <<visited, current, entries, base>> /\ Uploading

\* The directory yields a name, of a file that may be removed meanwhile.
NextName ==
  /\ list = "read" /\ current = None
  /\ \E u \in meta \ visited : current' = u /\ visited' = visited \cup {u}
  /\ UNCHANGED <<list, entries, known, newest, base>> /\ Uploading

ReadMeta ==
  /\ list = "read" /\ current # None
  /\ IF current \in meta /\ Cardinality(entries) < MaxHistory
     THEN entries' = entries \cup {current} /\ UNCHANGED list
     ELSE list' = "failed" /\ UNCHANGED entries
  /\ current' = None
  /\ UNCHANGED <<visited, known, newest, base>> /\ Uploading

\* Mutant of DirectoryEnd: an error of the enumeration ends it like its end.
EndEarly == TRUE
\* A name that was there all the time has been returned; one added or removed
\* meanwhile may have been or not.
DirectoryEnd == known \cap meta \subseteq visited
Newer(u, v) == stamp[u] > stamp[v]
\* The list is sorted by timestamp, in no particular order among equal ones,
\* and its first entry is the base.
ListEnd ==
  /\ list = "read" /\ current = None /\ DirectoryEnd
  /\ list' = "done"
  /\ IF entries = {} THEN UNCHANGED base
     ELSE \E u \in entries : base' = u /\ \A v \in entries : ~Newer(v, u)
  /\ UNCHANGED <<visited, current, entries, known, newest>> /\ Uploading

Upload(u) ==
  \/ Stamp(u) \/ Lock(u) \/ Admit(u) \/ CommitArchive(u) \/ CommitMeta(u)
  \/ CommitFails(u) \/ RemoveMeta(u) \/ RemoveArchive(u) \/ Answer(u)
Next ==
  \/ Tick \/ \E u \in Uploads : Upload(u)
  \/ OpenDirectory \/ NextName \/ ReadMeta \/ ListEnd

Spec == Init /\ [][Next]_vars

-----------------------------------------------------------------------------
TypeOK ==
  /\ clock \in 0..MaxClock /\ phase \in [Uploads -> Phases] /\ stamp \in [Uploads -> 0..MaxClock]
  /\ lock \in Uploads \cup {None} /\ archive \subseteq Uploads /\ meta \subseteq Uploads
  /\ list \in {"idle", "read", "done", "failed"}
  /\ current \in Uploads \cup {None} /\ entries \subseteq visited /\ known \subseteq Uploads
  /\ {newest, last, base} \subseteq Uploads \cup {None}
  /\ \A u \in Uploads : phase[u] \in Holding <=> lock = u

\* A list that succeeds shows every backup that had been acknowledged before
\* it was requested, although publications and rollbacks go on while the
\* directory is read without the mutex.
ListIsComplete == list = "done" => known \subseteq entries

\* Whatever a list shows can be downloaded, unless its upload has reported
\* or is about to report a failure.
ListedIsStored ==
  list = "done" =>
    \A u \in entries : u \in meta \cap archive \/ phase[u] \in {"unmeta", "unarchive", "failed"}

\* No backup acknowledged before the request has a later timestamp than the
\* base an incremental upload chooses.
BaseIsNotOlder ==
  list = "done" => \A u \in known : base # None /\ stamp[u] <= stamp[base]

\* "Incremental mode uses the newest archive with the same displayName"
\* (network.hpp): nothing was acknowledged after the base, before the request.
BaseIsNewest ==
  list = "done" /\ newest # None => base = newest \/ base \notin known
=============================================================================
