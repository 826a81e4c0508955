----------------------------- MODULE BackupStore -----------------------------
(***************************************************************************)
(* The remote server's storage: the account database users.db, one         *)
(* directory of archives per user, the in-memory count of authenticated    *)
(* connections, and the connection threads that read and change them under *)
(* gStorageMutex (DataBackup/network/session.cpp and auth_store.cpp).      *)
(*                                                                         *)
(* Each member of Sessions is a connection slot running handleSession.     *)
(* Register, login and account deletion touch shared state only inside one *)
(* critical section and are one action each.  Publishing an upload holds   *)
(* the mutex over several file-system calls and is one action per call, so *)
(* that the process can be killed, or a call can fail, between any two of  *)
(* them.  A stored file is committed by rename followed by fsync of the    *)
(* directory: the rename can take effect although the call reports an      *)
(* error.                                                                  *)
(*                                                                         *)
(* How the bytes of an upload arrive and are compared with the declared    *)
(* size and digest is not modelled here: an upload that reaches            *)
(* AdmitUpload has passed those checks, one that does not takes Fail.      *)
(***************************************************************************)
EXTENDS Naturals, FiniteSets

CONSTANTS
  Sessions,     \* connection threads
  Users,        \* account names
  Creds,        \* salt and verifier of a registration
  Ids,          \* backup identifiers; finite, it bounds the uploads
  Nobody,       \* gStorageMutex is free
  NoRecord,     \* no account record
  NoId,         \* no upload in progress
  NoCred,       \* used by the refinement only: name not registered
  MaxAccounts,  \* 100000 in the code
  MaxHistory    \* 4096 in the code

ASSUME SetsAssumption ==
  /\ IsFiniteSet(Sessions)
  /\ IsFiniteSet(Users)
  /\ IsFiniteSet(Creds)
  /\ IsFiniteSet(Ids)

UserRecord == [name : Users, cred : Creds]

ASSUME SentinelAssumption ==
  /\ Nobody \notin Sessions
  /\ NoRecord \notin UserRecord
  /\ NoId \notin Ids
  /\ NoCred \notin Creds

ASSUME LimitAssumption ==
  /\ MaxAccounts \in Nat
  /\ MaxHistory \in Nat

VARIABLES
  \* on disk
  users,          \* records in users.db
  archive,        \* [Users -> ids with an <id>.bak in the user's directory]
  meta,           \* [Users -> ids with an <id>.meta]
  staging,        \* [Users -> sessions with a live staging file there]
  leftover,       \* users whose directory holds an abandoned staging file
  \* shared memory
  gStorageMutex,  \* the session inside the critical section, or Nobody
  activeSessions, \* [Users -> number of authenticated connections]
  \* each session thread
  phase,          \* where the thread is
  pendingUser,    \* record the last LoginStart found
  key,            \* record the session authenticated against
  upload,         \* identifier of the upload in progress
  \* history
  issued,         \* identifiers handed out so far
  owner,          \* [Ids -> record of the session that uploaded it]
  acknowledged,   \* [Users -> ids whose UploadResult arrived]
  damaged         \* uploads cut by a crash or by a failing removal

disk == <<users, archive, meta, staging, leftover>>
history == <<issued, owner, acknowledged, damaged>>
vars == <<users, archive, meta, staging, leftover, gStorageMutex,
          activeSessions, phase, pendingUser, key, upload,
          issued, owner, acknowledged, damaged>>

\* Phases in which the thread holds gStorageMutex to publish an upload.
Publishing == {"archive", "meta", "rollbackMeta", "rollbackArchive"}
\* Phases in which the thread may still write into the user's directory.
Serving == {"open", "receiving", "acking"} \cup Publishing
\* Phases in which an error or a return unwinds the thread.
Unwinding == {"failing", "refused"}

Phases == {"closed", "closing"} \cup Serving \cup Unwinding

Init ==
  /\ users = {}
  /\ archive = [u \in Users |-> {}]
  /\ meta = [u \in Users |-> {}]
  /\ staging = [u \in Users |-> {}]
  /\ leftover = {}
  /\ gStorageMutex = Nobody
  /\ activeSessions = [u \in Users |-> 0]
  /\ phase = [s \in Sessions |-> "closed"]
  /\ pendingUser = [s \in Sessions |-> NoRecord]
  /\ key = [s \in Sessions |-> NoRecord]
  /\ upload = [s \in Sessions |-> NoId]
  /\ issued = {}
  /\ owner = [id \in Ids |-> NoRecord]
  /\ acknowledged = [u \in Users |-> {}]
  /\ damaged = {}
-----------------------------------------------------------------------------
\* Connection life cycle.

\* The thread moves on and the rest of its private state stays.
Goto(s, next) == phase' = [phase EXCEPT ![s] = next]

\* The accept loop hands a connection to a thread.
Connect(s) ==
  /\ phase[s] = "closed"
  /\ Goto(s, "open")
  /\ UNCHANGED <<disk, gStorageMutex, activeSessions, pendingUser, key,
                 upload, history>>

\* Any exception outside the publication, a clean end of stream, a timeout,
\* a cancellation: invalid request, wrong proof, size or digest mismatch,
\* full history, database or staging file that cannot be written.
Fail(s) ==
  /\ phase[s] \in {"open", "receiving", "acking"}
  /\ Goto(s, "failing")
  /\ UNCHANGED <<disk, gStorageMutex, activeSessions, pendingUser, key,
                 upload, history>>

\* Leaving handleUpload destroys its TempFile, whose removal ignores errors.
Unwind(s) ==
  /\ phase[s] \in Unwinding
  /\ Goto(s, "closing")
  /\ staging' = [u \in Users |-> staging[u] \ {s}]
  /\ leftover' \in {leftover, leftover \cup {u \in Users : s \in staging[u]}}
  /\ upload' = [upload EXCEPT ![s] = NoId]
  /\ UNCHANGED <<users, archive, meta, gStorageMutex, activeSessions,
                 pendingUser, key, history>>

\* ~AuthenticatedSession: the last thing the thread does with the store.
Release(s) ==
  /\ phase[s] = "closing"
  /\ gStorageMutex = Nobody
  /\ Goto(s, "closed")
  /\ activeSessions' = [u \in Users |->
       IF key[s] # NoRecord /\ u = key[s].name
         THEN activeSessions[u] - 1 ELSE activeSessions[u]]
  /\ key' = [key EXCEPT ![s] = NoRecord]
  /\ pendingUser' = [pendingUser EXCEPT ![s] = NoRecord]
  /\ UNCHANGED <<disk, gStorageMutex, upload, history>>
-----------------------------------------------------------------------------
\* Accounts.

NameTaken(u) == \E r \in users : r.name = u

\* Mutant of Register: the test for the name is lost.
RegisterTwice(s, r) ==
  /\ phase[s] = "open"
  /\ gStorageMutex = Nobody
  /\ Cardinality(users) < MaxAccounts
  /\ users' = users \cup {r}
  /\ \E next \in {"open", "failing"} : Goto(s, next)
  /\ UNCHANGED <<archive, meta, staging, leftover, gStorageMutex,
                 activeSessions, pendingUser, key, upload, history>>

\* RegisterRequest.  saveUsers may publish the new database and then report
\* that the directory could not be synchronized: the account exists and the
\* client is told that it does not.
Register(s, r) ==
  /\ phase[s] = "open"
  /\ gStorageMutex = Nobody
  /\ ~NameTaken(r.name)
  /\ Cardinality(users) < MaxAccounts
  /\ users' = users \cup {r}
  /\ \E next \in {"open", "failing"} : Goto(s, next)
  /\ UNCHANGED <<archive, meta, staging, leftover, gStorageMutex,
                 activeSessions, pendingUser, key, upload, history>>

\* LoginStart: the record is copied out and the mutex released before the
\* client answers the challenge.
LoginStart(s, r) ==
  /\ phase[s] = "open"
  /\ gStorageMutex = Nobody
  /\ r \in users
  /\ pendingUser' = [pendingUser EXCEPT ![s] = r]
  /\ UNCHANGED <<disk, gStorageMutex, activeSessions, phase, key, upload,
                 history>>

\* Mutant of LoginProof: the connection is never counted.
LoginUncounted(s) ==
  /\ phase[s] = "open"
  /\ gStorageMutex = Nobody
  /\ key[s] = NoRecord
  /\ pendingUser[s] # NoRecord
  /\ pendingUser[s] \in users
  /\ key' = [key EXCEPT ![s] = pendingUser[s]]
  /\ pendingUser' = [pendingUser EXCEPT ![s] = NoRecord]
  /\ UNCHANGED <<disk, gStorageMutex, activeSessions, phase, upload, history>>

\* Mutant of LoginProof: a second login on an authenticated connection.
LoginAgain(s) ==
  /\ phase[s] = "open"
  /\ gStorageMutex = Nobody
  /\ pendingUser[s] # NoRecord
  /\ pendingUser[s] \in users
  /\ key' = [key EXCEPT ![s] = pendingUser[s]]
  /\ activeSessions' = [activeSessions EXCEPT ![pendingUser[s].name] = @ + 1]
  /\ pendingUser' = [pendingUser EXCEPT ![s] = NoRecord]
  /\ UNCHANGED <<disk, gStorageMutex, phase, upload, history>>

\* Mutant of LoginProof: the challenged record is trusted without a second
\* look at the database.
LoginStale(s) ==
  /\ phase[s] = "open"
  /\ gStorageMutex = Nobody
  /\ key[s] = NoRecord
  /\ pendingUser[s] # NoRecord
  /\ key' = [key EXCEPT ![s] = pendingUser[s]]
  /\ activeSessions' = [activeSessions EXCEPT ![pendingUser[s].name] = @ + 1]
  /\ pendingUser' = [pendingUser EXCEPT ![s] = NoRecord]
  /\ UNCHANGED <<disk, gStorageMutex, phase, upload, history>>

\* LoginProof with a valid proof: the connection must not be authenticated
\* yet, and the record that was challenged must still be in the database.
LoginProof(s) ==
  /\ phase[s] = "open"
  /\ gStorageMutex = Nobody
  /\ key[s] = NoRecord
  /\ pendingUser[s] # NoRecord
  /\ pendingUser[s] \in users
  /\ key' = [key EXCEPT ![s] = pendingUser[s]]
  /\ activeSessions' = [activeSessions EXCEPT ![pendingUser[s].name] = @ + 1]
  /\ pendingUser' = [pendingUser EXCEPT ![s] = NoRecord]
  /\ UNCHANGED <<disk, gStorageMutex, phase, upload, history>>

\* Mutant of DirectoryEmpty: only the history is consulted.
HistoryEmpty(u) == meta[u] = {}

\* deleteAccount requires an absent or empty directory, whatever is in it.
DirectoryEmpty(u) ==
  /\ archive[u] = {}
  /\ meta[u] = {}
  /\ staging[u] = {}
  /\ u \notin leftover

\* Mutant of MayDelete: the account may go while it still owns files.
AloneOnly(s) == activeSessions[key[s].name] = 1

MayDelete(s) ==
  /\ activeSessions[key[s].name] = 1
  /\ DirectoryEmpty(key[s].name)

\* DeleteAccountRequest.  The thread ends after the reply, or after the error
\* of a database that was replaced but could not be synchronized.
DeleteAccount(s) ==
  /\ phase[s] = "open"
  /\ key[s] # NoRecord
  /\ gStorageMutex = Nobody
  /\ MayDelete(s)
  /\ NameTaken(key[s].name)
  /\ users' = {r \in users : r.name # key[s].name}
  /\ Goto(s, "failing")
  /\ UNCHANGED <<archive, meta, staging, leftover, gStorageMutex,
                 activeSessions, pendingUser, key, upload, history>>

RefuseDelete(s) ==
  /\ phase[s] = "open"
  /\ key[s] # NoRecord
  /\ gStorageMutex = Nobody
  /\ ~MayDelete(s)
  /\ Goto(s, "refused")
  /\ UNCHANGED <<disk, gStorageMutex, activeSessions, pendingUser, key,
                 upload, history>>
-----------------------------------------------------------------------------
\* Uploads.

\* UploadStart or UploadDeltaStart: a staging file is created without the
\* mutex and a fresh random identifier is sent to the client.
BeginUpload(s, id) ==
  /\ phase[s] = "open"
  /\ key[s] # NoRecord
  /\ id \notin issued
  /\ id \notin archive[key[s].name]
  /\ staging' = [staging EXCEPT ![key[s].name] = @ \cup {s}]
  /\ upload' = [upload EXCEPT ![s] = id]
  /\ issued' = issued \cup {id}
  /\ owner' = [owner EXCEPT ![id] = key[s]]
  /\ Goto(s, "receiving")
  /\ UNCHANGED <<users, archive, meta, leftover, gStorageMutex,
                 activeSessions, pendingUser, key, acknowledged, damaged>>

\* Mutant of AdmitUpload: the capacity is tested before taking the mutex.
AdmitUnlocked(s) ==
  /\ phase[s] = "receiving"
  /\ Cardinality(meta[key[s].name]) < MaxHistory
  /\ gStorageMutex' = s
  /\ Goto(s, "archive")
  /\ UNCHANGED <<disk, activeSessions, pendingUser, key, upload, history>>

\* The complete, verified upload takes the mutex and must fit the history.
AdmitUpload(s) ==
  /\ phase[s] = "receiving"
  /\ gStorageMutex = Nobody
  /\ Cardinality(meta[key[s].name]) < MaxHistory
  /\ gStorageMutex' = s
  /\ Goto(s, "archive")
  /\ UNCHANGED <<disk, activeSessions, pendingUser, key, upload, history>>

\* commitStoredFile of <id>.bak: done, renamed but not synchronized, or not
\* even renamed.
CommitArchive(s) ==
  /\ phase[s] = "archive"
  /\ \/ /\ archive' = [archive EXCEPT ![key[s].name] = @ \cup {upload[s]}]
        /\ staging' = [staging EXCEPT ![key[s].name] = @ \ {s}]
        /\ \E next \in {"meta", "rollbackMeta"} : Goto(s, next)
     \/ /\ Goto(s, "rollbackMeta")
        /\ UNCHANGED <<archive, staging>>
  /\ UNCHANGED <<users, meta, leftover, gStorageMutex, activeSessions,
                 pendingUser, key, upload, history>>

\* Mutant of WriteMeta: a failure to write the metadata goes unnoticed.
WriteMetaUnchecked(s) ==
  /\ phase[s] = "meta"
  /\ \/ meta' = [meta EXCEPT ![key[s].name] = @ \cup {upload[s]}]
     \/ UNCHANGED meta
  /\ gStorageMutex' = Nobody
  /\ Goto(s, "acking")
  /\ UNCHANGED <<users, archive, staging, leftover, activeSessions,
                 pendingUser, key, upload, history>>

\* Mutant of WriteMeta: a failure is reported but nothing is rolled back.
WriteMetaNoRollback(s) ==
  /\ phase[s] = "meta"
  /\ \/ /\ meta' = [meta EXCEPT ![key[s].name] = @ \cup {upload[s]}]
        /\ Goto(s, "acking")
     \/ /\ Goto(s, "failing")
        /\ UNCHANGED meta
  /\ gStorageMutex' = Nobody
  /\ UNCHANGED <<users, archive, staging, leftover, activeSessions,
                 pendingUser, key, upload, history>>

\* writeMeta of <id>.meta, with the same three outcomes; its own staging file
\* may outlive a failure.
WriteMeta(s) ==
  /\ phase[s] = "meta"
  /\ \/ /\ meta' = [meta EXCEPT ![key[s].name] = @ \cup {upload[s]}]
        /\ gStorageMutex' = Nobody
        /\ Goto(s, "acking")
        /\ UNCHANGED leftover
     \/ /\ meta' = [meta EXCEPT ![key[s].name] = @ \cup {upload[s]}]
        /\ Goto(s, "rollbackMeta")
        /\ UNCHANGED <<leftover, gStorageMutex>>
     \/ /\ Goto(s, "rollbackMeta")
        /\ leftover' \in {leftover, leftover \cup {key[s].name}}
        /\ UNCHANGED <<meta, gStorageMutex>>
  /\ UNCHANGED <<users, archive, staging, activeSessions, pendingUser, key,
                 upload, history>>

\* Mutant of RollbackMeta: a failed removal does not stop the rollback.
RollbackMetaCarriesOn(s) ==
  /\ phase[s] = "rollbackMeta"
  /\ \/ meta' = [meta EXCEPT ![key[s].name] = @ \ {upload[s]}]
     \/ UNCHANGED meta
  /\ Goto(s, "rollbackArchive")
  /\ UNCHANGED <<users, archive, staging, leftover, gStorageMutex,
                 activeSessions, pendingUser, key, upload, history>>

\* The catch block removes the metadata first.  If that fails it keeps the
\* archive and gives up.
RollbackMeta(s) ==
  /\ phase[s] = "rollbackMeta"
  /\ \/ /\ meta' = [meta EXCEPT ![key[s].name] = @ \ {upload[s]}]
        /\ Goto(s, "rollbackArchive")
        /\ UNCHANGED <<gStorageMutex, damaged>>
     \/ /\ damaged' = damaged \cup {upload[s]}
        /\ gStorageMutex' = Nobody
        /\ Goto(s, "failing")
        /\ UNCHANGED meta
  /\ UNCHANGED <<users, archive, staging, leftover, activeSessions,
                 pendingUser, key, upload, issued, owner, acknowledged>>

RollbackArchive(s) ==
  /\ phase[s] = "rollbackArchive"
  /\ \/ /\ archive' = [archive EXCEPT ![key[s].name] = @ \ {upload[s]}]
        /\ UNCHANGED damaged
     \/ /\ damaged' = damaged \cup {upload[s]}
        /\ UNCHANGED archive
  /\ gStorageMutex' = Nobody
  /\ Goto(s, "failing")
  /\ UNCHANGED <<users, meta, staging, leftover, activeSessions, pendingUser,
                 key, upload, issued, owner, acknowledged>>

\* UploadResult reaches the client; a lost reply is Fail in phase "acking".
Acknowledge(s) ==
  /\ phase[s] = "acking"
  /\ acknowledged' = [acknowledged EXCEPT ![key[s].name] = @ \cup {upload[s]}]
  /\ upload' = [upload EXCEPT ![s] = NoId]
  /\ Goto(s, "open")
  /\ UNCHANGED <<disk, gStorageMutex, activeSessions, pendingUser, key,
                 issued, owner, damaged>>
-----------------------------------------------------------------------------
\* The process is killed and started again: files stay, memory does not.  A
\* thread killed inside writeMeta may leave the staging file of the metadata.
Crash ==
  /\ \E torn \in SUBSET {s \in Sessions : phase[s] = "meta"} :
       leftover' = leftover \cup {u \in Users : staging[u] # {}}
                            \cup {key[s].name : s \in torn}
  /\ staging' = [u \in Users |-> {}]
  /\ damaged' = damaged \cup
       {upload[s] : s \in {t \in Sessions : phase[t] \in Publishing}}
  /\ gStorageMutex' = Nobody
  /\ activeSessions' = [u \in Users |-> 0]
  /\ phase' = [s \in Sessions |-> "closed"]
  /\ pendingUser' = [s \in Sessions |-> NoRecord]
  /\ key' = [s \in Sessions |-> NoRecord]
  /\ upload' = [s \in Sessions |-> NoId]
  /\ UNCHANGED <<users, archive, meta, issued, owner, acknowledged>>

SessionStep(s) ==
  \/ Connect(s)
  \/ Fail(s)
  \/ Unwind(s)
  \/ Release(s)
  \/ \E r \in UserRecord : Register(s, r) \/ LoginStart(s, r)
  \/ LoginProof(s)
  \/ DeleteAccount(s)
  \/ RefuseDelete(s)
  \/ \E id \in Ids : BeginUpload(s, id)
  \/ AdmitUpload(s)
  \/ CommitArchive(s)
  \/ WriteMeta(s)
  \/ RollbackMeta(s)
  \/ RollbackArchive(s)
  \/ Acknowledge(s)

Next == Crash \/ \E s \in Sessions : SessionStep(s)

Spec == Init /\ [][Next]_vars
-----------------------------------------------------------------------------
TypeOK ==
  /\ users \subseteq UserRecord
  /\ archive \in [Users -> SUBSET Ids]
  /\ meta \in [Users -> SUBSET Ids]
  /\ staging \in [Users -> SUBSET Sessions]
  /\ leftover \subseteq Users
  /\ gStorageMutex \in Sessions \cup {Nobody}
  /\ activeSessions \in [Users -> Nat]
  /\ phase \in [Sessions -> Phases]
  /\ pendingUser \in [Sessions -> UserRecord \cup {NoRecord}]
  /\ key \in [Sessions -> UserRecord \cup {NoRecord}]
  /\ upload \in [Sessions -> Ids \cup {NoId}]
  /\ issued \subseteq Ids
  /\ owner \in [Ids -> UserRecord \cup {NoRecord}]
  /\ acknowledged \in [Users -> SUBSET Ids]
  /\ damaged \subseteq Ids

\* Connections authenticated for a user.
Holders(u) == {s \in Sessions : key[s] # NoRecord /\ key[s].name = u}

\* activeSessions counts the authenticated connections of each user exactly,
\* whatever logins, failures and deletions interleave: deleteAccount trusts
\* the count to decide that nobody else can write the user's directory.
CountIsExact ==
  \A u \in Users : activeSessions[u] = Cardinality(Holders(u))

\* "No account may disappear while another authenticated connection can write
\* its files": a connection that still serves requests was authenticated
\* against a record that is in the database now, not one deleted or
\* registered anew under the same name since its challenge.
ServedAccountExists ==
  \A s \in Sessions :
    phase[s] \in Serving /\ key[s] # NoRecord => key[s] \in users

\* loadUsers accepts what saveUsers writes: one record per name and no more
\* records than the limit.  A database that breaks this stops every login.
DatabaseLoads ==
  /\ \A r, q \in users : r.name = q.name => r = q
  /\ Cardinality(users) <= MaxAccounts

\* Every listed backup has its archive, at every point of publication,
\* rollback and crash, so a history entry can always be downloaded.
MetaHasArchive == \A u \in Users : meta[u] \subseteq archive[u]

\* A history response can always carry the whole history, however many
\* uploads reach publication together.
HistoryFits == \A u \in Users : Cardinality(meta[u]) <= MaxHistory

\* A backup reported as stored stays listed and downloadable.
AcknowledgedIsStored ==
  \A u \in Users : acknowledged[u] \subseteq meta[u] \cap archive[u]

\* Account isolation across deletion and registration of the same name:
\* whatever a user's directory holds was uploaded under the credential now
\* registered for that user.
FilesBelongToAccount ==
  \A u \in Users :
    /\ ~DirectoryEmpty(u) => NameTaken(u)
    /\ \A id \in archive[u] \cup meta[u] :
         owner[id] \in users /\ owner[id].name = u

\* An archive without its metadata occupies space that no history shows.  It
\* exists only while its upload is being published or rolled back, after a
\* crash in that window, or when removing it failed.
UnlistedArchiveIsExplained ==
  \A u \in Users : \A id \in archive[u] \ meta[u] :
    \/ id \in damaged
    \/ \E s \in Sessions : phase[s] \in Publishing /\ upload[s] = id

\* Deleting an account is refused for the two documented reasons only: a
\* stored backup or another authenticated connection.
RefusalIsJustified ==
  [][\A s \in Sessions :
       phase[s] = "open" /\ phase'[s] = "refused" =>
         meta[key[s].name] # {} \/ activeSessions[key[s].name] > 1]_vars

\* The credential registered under a name.
CredOf(u) ==
  IF NameTaken(u) THEN (CHOOSE r \in users : r.name = u).cred ELSE NoCred

\* The server implements the account and backup promises of Vault: accounts
\* appear one at a time and while there is room for them, and disappear one at
\* a time and only when they own no backup, backups appear only in a
\* registered owner's history within its capacity, and none that was
\* acknowledged is withdrawn.
V == INSTANCE Vault WITH account <- [u \in Users |-> CredOf(u)],
                         shown <- meta
VaultSpec == V!Spec
=============================================================================
