--------------------------- MODULE BackupStoreProofs ---------------------------
(***************************************************************************)
(* Theorems about BackupStore for every set of connections, users,         *)
(* credentials and identifiers and every limit, checked by TLAPS.          *)
(*                                                                         *)
(* The inductive invariant is built in layers.  Counted is inductive by    *)
(* itself; each later layer is inductive relative to the ones before it.   *)
(***************************************************************************)
EXTENDS BackupStore, FiniteSetTheorems, TLAPS

\* Phases of an upload that already has an identifier and may still succeed.
Uploading == {"receiving", "acking"} \cup Publishing

\* A thread that handles an upload knows for whom and under which identifier.
UploadKnown ==
  \A s \in Sessions :
    phase[s] \in Uploading => key[s] # NoRecord /\ upload[s] \in Ids

\* The first layer.  Release subtracts one from activeSessions, so that it
\* stays a natural number only because the count is exact.
Counted == TypeOK /\ CountIsExact /\ UploadKnown
-----------------------------------------------------------------------------
LEMMA UserRecordFields ==
  \A r \in UserRecord : r.name \in Users /\ r.cred \in Creds
BY DEF UserRecord

\* Counting connections is meaningful: there are finitely many.
LEMMA HoldersFinite ==
  \A u \in Users :
    /\ IsFiniteSet(Holders(u))
    /\ Cardinality(Holders(u)) \in Nat
<1> TAKE u \in Users
<1>1. Holders(u) \in SUBSET Sessions
  BY DEF Holders
<1>2. IsFiniteSet(Holders(u))
  BY <1>1, SetsAssumption, FS_Subset
<1> QED
  BY <1>2, FS_CardinalityType

LEMMA CountedInit == Init => Counted
<1> SUFFICES ASSUME Init PROVE Counted
  OBVIOUS
<1>1. TypeOK
  BY DEF Init, TypeOK, Phases
<1>2. CountIsExact
  <2>1. ASSUME NEW u \in Users PROVE Holders(u) = {}
    BY DEF Init, Holders
  <2> QED
    BY <2>1, FS_EmptySet DEF CountIsExact, Init
<1>3. UploadKnown
  BY DEF Init, UploadKnown, Uploading, Publishing
<1> QED
  BY <1>1, <1>2, <1>3 DEF Counted

\* The count at the only places that change it.
LEMMA LoginCounts ==
  ASSUME Counted, NEW s \in Sessions, LoginProof(s)
  PROVE  CountIsExact'
<1> USE DEF Counted, TypeOK, LoginProof
<1>1. pendingUser[s] \in UserRecord /\ pendingUser[s].name \in Users
  BY UserRecordFields
<1> SUFFICES ASSUME NEW u \in Users
             PROVE  activeSessions'[u] = Cardinality(Holders(u)')
  BY DEF CountIsExact
<1>2. IsFiniteSet(Holders(u)) /\ activeSessions[u] = Cardinality(Holders(u))
  BY HoldersFinite DEF CountIsExact
<1>3. CASE u = pendingUser[s].name
  <2>1. Holders(u)' = Holders(u) \cup {s}
    BY <1>1, <1>3, SentinelAssumption DEF Holders
  <2>2. s \notin Holders(u)
    BY DEF Holders
  <2>3. Cardinality(Holders(u) \cup {s}) = Cardinality(Holders(u)) + 1
    BY <1>2, <2>2, FS_AddElement
  <2> QED
    BY <1>2, <1>3, <2>1, <2>3
<1>4. CASE u # pendingUser[s].name
  <2>1. Holders(u)' = Holders(u)
    BY <1>1, <1>4 DEF Holders
  <2> QED
    BY <1>1, <1>2, <1>4, <2>1
<1> QED
  BY <1>3, <1>4

LEMMA ReleaseCounts ==
  ASSUME Counted, NEW s \in Sessions, Release(s)
  PROVE  CountIsExact' /\ activeSessions' \in [Users -> Nat]
<1> USE DEF Counted, TypeOK, Release
<1> SUFFICES ASSUME NEW u \in Users
             PROVE  /\ activeSessions'[u] = Cardinality(Holders(u)')
                    /\ activeSessions'[u] \in Nat
  BY DEF CountIsExact
<1>1. /\ IsFiniteSet(Holders(u))
      /\ Cardinality(Holders(u)) \in Nat
      /\ activeSessions[u] = Cardinality(Holders(u))
  BY HoldersFinite DEF CountIsExact
<1>2. Holders(u)' = Holders(u) \ {s}
  BY DEF Holders
<1>3. /\ IsFiniteSet(Holders(u)')
      /\ Cardinality(Holders(u)') =
           IF s \in Holders(u) THEN Cardinality(Holders(u)) - 1
                               ELSE Cardinality(Holders(u))
  <2> HIDE DEF Counted, TypeOK, Release
  <2>1. /\ IsFiniteSet(Holders(u) \ {s})
        /\ Cardinality(Holders(u) \ {s}) =
             IF s \in Holders(u) THEN Cardinality(Holders(u)) - 1
                                 ELSE Cardinality(Holders(u))
    BY <1>1, FS_RemoveElement
  <2> QED
    BY <1>2, <2>1
<1>4. Cardinality(Holders(u)') \in Nat
  BY <1>3, FS_CardinalityType
<1>5. s \in Holders(u) <=> key[s] # NoRecord /\ u = key[s].name
  BY DEF Holders
<1> QED
  BY <1>1, <1>3, <1>4, <1>5

LEMMA CrashCounts ==
  ASSUME Crash
  PROVE  CountIsExact'
<1>1. ASSUME NEW u \in Users PROVE Holders(u)' = {}
  BY DEF Crash, Holders
<1> QED
  BY <1>1, FS_EmptySet DEF Crash, CountIsExact

\* Steps that touch neither keys nor counters keep the count.
LEMMA SameKeysSameCount ==
  ASSUME CountIsExact, UNCHANGED <<key, activeSessions>>
  PROVE  CountIsExact'
<1>1. ASSUME NEW u \in Users PROVE Holders(u)' = Holders(u)
  BY DEF Holders
<1> QED
  BY <1>1 DEF CountIsExact

LEMMA CountedStep == Counted /\ [Next]_vars => Counted'
<1> SUFFICES ASSUME Counted, [Next]_vars
             PROVE  Counted'
  OBVIOUS
<1> USE UserRecordFields
<1>t. TypeOK /\ CountIsExact /\ UploadKnown
  BY DEF Counted
<1>1. CASE Crash
  <2>u. \A s \in Sessions : phase[s] \in Publishing =>
          upload[s] \in Ids /\ key[s] \in UserRecord /\ key[s].name \in Users
    BY <1>t DEF TypeOK, UploadKnown, Uploading
  <2>1. TypeOK'
    BY <1>t, <1>1, <2>u DEF Crash, TypeOK, Phases, Publishing
  <2>2. UploadKnown'
    BY <1>t, <1>1 DEF Crash, UploadKnown, Uploading, Publishing
  <2> QED
    BY <1>1, <2>1, <2>2, CrashCounts DEF Counted
<1>2. CASE UNCHANGED vars
  <2>1. TypeOK' /\ UploadKnown'
    BY <1>t, <1>2 DEF vars, TypeOK, UploadKnown
  <2> QED
    BY <1>t, <1>2, <2>1, SameKeysSameCount DEF Counted, vars
<1>3. ASSUME NEW s \in Sessions, SessionStep(s)
      PROVE  Counted'
  <2> USE DEF Counted, Goto, disk, history, Phases, Serving, Publishing,
              Unwinding, Uploading
  <2>t. UNCHANGED <<key, activeSessions>> => CountIsExact'
    BY <1>t, SameKeysSameCount
  <2>u. phase[s] \in Uploading =>
          /\ key[s] \in UserRecord /\ key[s].name \in Users
          /\ upload[s] \in Ids
    BY <1>t DEF TypeOK, UploadKnown
  <2>1. CASE \/ Connect(s) \/ Fail(s) \/ Unwind(s)
             \/ \E r \in UserRecord : Register(s, r)
             \/ \E r \in UserRecord : LoginStart(s, r)
             \/ DeleteAccount(s) \/ RefuseDelete(s)
             \/ \E id \in Ids : BeginUpload(s, id)
             \/ AdmitUpload(s)
    <3>1. TypeOK'
      BY <1>t, <2>1
         DEF Connect, Fail, Unwind, Register, LoginStart, DeleteAccount,
             RefuseDelete, BeginUpload, AdmitUpload, TypeOK
    <3>2. UploadKnown'
      BY <1>t, <2>1
         DEF Connect, Fail, Unwind, Register, LoginStart, DeleteAccount,
             RefuseDelete, BeginUpload, AdmitUpload, TypeOK, UploadKnown
    <3> QED
      BY <2>t, <2>1, <3>1, <3>2
         DEF Connect, Fail, Unwind, Register, LoginStart, DeleteAccount,
             RefuseDelete, BeginUpload, AdmitUpload
  <2>2. CASE LoginProof(s)
    <3>1. TypeOK'
      BY <1>t, <2>2 DEF LoginProof, TypeOK
    <3>2. UploadKnown'
      BY <1>t, <2>2 DEF LoginProof, TypeOK, UploadKnown
    <3> QED
      BY <2>2, <3>1, <3>2, LoginCounts
  <2>3. CASE Release(s)
    <3>1. TypeOK'
      BY <1>t, <2>3, ReleaseCounts DEF Release, TypeOK
    <3>2. UploadKnown'
      BY <1>t, <2>3 DEF Release, TypeOK, UploadKnown
    <3> QED
      BY <2>3, <3>1, <3>2, ReleaseCounts
  <2>4. CASE CommitArchive(s)
    <3>1. TypeOK'
      BY <1>t, <2>u, <2>4 DEF CommitArchive, TypeOK
    <3>2. UploadKnown'
      BY <1>t, <2>4 DEF CommitArchive, TypeOK, UploadKnown
    <3> QED
      BY <2>t, <2>4, <3>1, <3>2 DEF CommitArchive
  <2>5. CASE WriteMeta(s)
    <3>1. TypeOK'
      BY <1>t, <2>u, <2>5 DEF WriteMeta, TypeOK
    <3>2. UploadKnown'
      BY <1>t, <2>5 DEF WriteMeta, TypeOK, UploadKnown
    <3> QED
      BY <2>t, <2>5, <3>1, <3>2 DEF WriteMeta
  <2>6. CASE RollbackMeta(s)
    <3>1. TypeOK'
      BY <1>t, <2>u, <2>6 DEF RollbackMeta, TypeOK
    <3>2. UploadKnown'
      BY <1>t, <2>6 DEF RollbackMeta, TypeOK, UploadKnown
    <3> QED
      BY <2>t, <2>6, <3>1, <3>2 DEF RollbackMeta
  <2>7. CASE RollbackArchive(s)
    <3>1. TypeOK'
      BY <1>t, <2>u, <2>7 DEF RollbackArchive, TypeOK
    <3>2. UploadKnown'
      BY <1>t, <2>7 DEF RollbackArchive, TypeOK, UploadKnown
    <3> QED
      BY <2>t, <2>7, <3>1, <3>2 DEF RollbackArchive
  <2>8. CASE Acknowledge(s)
    <3>1. TypeOK'
      BY <1>t, <2>u, <2>8 DEF Acknowledge, TypeOK
    <3>2. UploadKnown'
      BY <1>t, <2>8 DEF Acknowledge, TypeOK, UploadKnown
    <3> QED
      BY <2>t, <2>8, <3>1, <3>2 DEF Acknowledge
  <2> HIDE DEF Counted, Goto, disk, history, Phases, Serving, Publishing,
               Unwinding, Uploading
  <2> QED
    BY <1>3, <2>1, <2>2, <2>3, <2>4, <2>5, <2>6, <2>7, <2>8 DEF SessionStep
<1> QED
  BY <1>1, <1>2, <1>3 DEF Next

\* Every reachable state has the types TypeOK gives it; in particular a
\* release never takes activeSessions below zero.
THEOREM TypeCorrect == Spec => []TypeOK
<1>1. Counted => TypeOK
  BY DEF Counted
<1> QED
  BY <1>1, CountedInit, CountedStep, PTL DEF Spec

\* activeSessions counts the authenticated connections of each user exactly,
\* whatever logins, failures, deletions and crashes interleave.
THEOREM CountCorrect == Spec => []CountIsExact
<1>1. Counted => CountIsExact
  BY DEF Counted
<1> QED
  BY <1>1, CountedInit, CountedStep, PTL DEF Spec
-----------------------------------------------------------------------------
\* Layer: sessions and accounts.

\* A closed slot is not authenticated.
ClosedIsUnkeyed ==
  \A s \in Sessions : phase[s] = "closed" => key[s] = NoRecord

Served == ServedAccountExists /\ ClosedIsUnkeyed

\* deleteAccount's test of the count excludes every other connection of the
\* account, because the count is exact.
LEMMA DeleterIsAlone ==
  ASSUME Counted, NEW s \in Sessions, key[s] # NoRecord,
         activeSessions[key[s].name] = 1,
         NEW t \in Sessions, key[t] # NoRecord, key[t].name = key[s].name
  PROVE  t = s
<1> DEFINE u == key[s].name
<1>1. u \in Users
  BY UserRecordFields DEF Counted, TypeOK
<1>2. Cardinality(Holders(u)) = 1
  BY <1>1 DEF Counted, CountIsExact
<1>3. IsFiniteSet(Holders(u))
  BY <1>1, HoldersFinite
<1>4. s \in Holders(u) /\ t \in Holders(u)
  BY DEF Holders
<1> HIDE DEF u
<1>5. PICK x : Holders(u) = {x}
  BY <1>2, <1>3, FS_Singleton
<1> QED
  BY <1>4, <1>5

LEMMA ServedStep ==
  Counted /\ Served /\ [Next]_vars => Served'
<1> SUFFICES ASSUME Counted, Served, [Next]_vars
             PROVE  Served'
  OBVIOUS
<1> USE UserRecordFields, SentinelAssumption
<1>t. TypeOK /\ Served
  BY DEF Counted
<1> USE DEF Goto, disk, history, Phases, Serving, Publishing,
           Unwinding, Uploading
<1>1. CASE Crash
  BY <1>t, <1>1
     DEF Crash, TypeOK, Served, ServedAccountExists, ClosedIsUnkeyed
<1>2. CASE UNCHANGED vars
  BY <1>t, <1>2 DEF vars, TypeOK, Served, ServedAccountExists, ClosedIsUnkeyed
<1>3. ASSUME NEW s \in Sessions, SessionStep(s)
      PROVE  Served'
  <2>1. CASE \/ Connect(s) \/ Fail(s) \/ Unwind(s) \/ Release(s)
             \/ \E r \in UserRecord : Register(s, r)
             \/ \E r \in UserRecord : LoginStart(s, r)
             \/ LoginProof(s) \/ RefuseDelete(s)
             \/ \E id \in Ids : BeginUpload(s, id)
             \/ AdmitUpload(s) \/ CommitArchive(s) \/ WriteMeta(s)
             \/ RollbackMeta(s) \/ RollbackArchive(s) \/ Acknowledge(s)
    BY <1>t, <2>1
       DEF Connect, Fail, Unwind, Release, Register, LoginStart, LoginProof,
           RefuseDelete, BeginUpload, AdmitUpload, CommitArchive, WriteMeta,
           RollbackMeta, RollbackArchive, Acknowledge, TypeOK, Served,
           ServedAccountExists, ClosedIsUnkeyed
  <2>2. CASE DeleteAccount(s)
    <3>1. \A t \in Sessions \ {s} :
            key[t] # NoRecord => key[t].name # key[s].name
      BY <2>2, DeleterIsAlone DEF DeleteAccount, MayDelete
    <3> QED
      BY <1>t, <2>2, <3>1
         DEF DeleteAccount, TypeOK, Served, ServedAccountExists,
             ClosedIsUnkeyed
  <2> QED
    BY <1>3, <2>1, <2>2 DEF SessionStep
<1> QED
  BY <1>1, <1>2, <1>3 DEF Next

\* A connection that serves requests was authenticated against a record that
\* is in the database now: no account disappears, and none is replaced by
\* another of the same name, under a connection that can write its files.
THEOREM ServedCorrect == Spec => []ServedAccountExists
<1>1. Init => Served
  BY
     DEF Init, Served, ServedAccountExists, ClosedIsUnkeyed, Serving,
         Publishing
<1>2. Served => ServedAccountExists
  BY DEF Served
<1> QED
  BY <1>1, <1>2, CountedInit, CountedStep, ServedStep, PTL DEF Spec
-----------------------------------------------------------------------------
\* Layer: the mutex and the identifiers.

\* Exactly the thread that publishes holds gStorageMutex.
LockIsHeld ==
  \A s \in Sessions : phase[s] \in Publishing <=> gStorageMutex = s

LEMMA LockStep ==
  Counted /\ LockIsHeld /\ [Next]_vars => LockIsHeld'
<1> SUFFICES ASSUME Counted, LockIsHeld, [Next]_vars
             PROVE  LockIsHeld'
  OBVIOUS
<1> USE UserRecordFields, SentinelAssumption
<1>t. TypeOK /\ LockIsHeld
  BY DEF Counted
<1> USE DEF Goto, disk, history, Phases, Serving, Publishing,
           Unwinding, Uploading
<1>1. CASE Crash
  BY <1>t, <1>1 DEF Crash, TypeOK, LockIsHeld
<1>2. CASE UNCHANGED vars
  BY <1>t, <1>2 DEF vars, TypeOK, LockIsHeld
<1>3. ASSUME NEW s \in Sessions, SessionStep(s)
      PROVE  LockIsHeld'
  <2>1. CASE \/ Connect(s) \/ Fail(s) \/ Unwind(s) \/ Release(s)
             \/ \E r \in UserRecord : Register(s, r)
             \/ \E r \in UserRecord : LoginStart(s, r)
             \/ LoginProof(s) \/ DeleteAccount(s) \/ RefuseDelete(s)
             \/ \E id \in Ids : BeginUpload(s, id)
             \/ AdmitUpload(s) \/ CommitArchive(s) \/ WriteMeta(s)
             \/ RollbackMeta(s) \/ RollbackArchive(s) \/ Acknowledge(s)
    BY <1>t, <2>1
       DEF Connect, Fail, Unwind, Release, Register, LoginStart, LoginProof,
           DeleteAccount, RefuseDelete, BeginUpload, AdmitUpload,
           CommitArchive, WriteMeta, RollbackMeta, RollbackArchive,
           Acknowledge, TypeOK, LockIsHeld
  <2> QED
    BY <1>3, <2>1 DEF SessionStep
<1> QED
  BY <1>1, <1>2, <1>3 DEF Next

\* An identifier belongs to one upload: it is handed out once, remembers the
\* record it was handed to, is listed only once its metadata is written, and
\* is acknowledged only by that upload's end.
IdsAreFresh ==
  /\ \A s \in Sessions : upload[s] # NoId => upload[s] \in issued
  /\ \A s, t \in Sessions : upload[s] # NoId /\ upload[s] = upload[t] => s = t
  /\ \A u \in Users :
       archive[u] \cup meta[u] \cup acknowledged[u] \subseteq issued
  /\ \A s \in Sessions : phase[s] \in Uploading =>
       /\ owner[upload[s]] = key[s]
       /\ \A u \in Users : upload[s] \notin acknowledged[u]
  /\ \A s \in Sessions : phase[s] \in {"receiving", "archive", "meta"} =>
       \A u \in Users : upload[s] \notin meta[u]

LEMMA FreshStep ==
  Counted /\ IdsAreFresh /\ [Next]_vars => IdsAreFresh'
<1> SUFFICES ASSUME Counted, IdsAreFresh, [Next]_vars
             PROVE  IdsAreFresh'
  OBVIOUS
<1> USE UserRecordFields, SentinelAssumption
<1>t. TypeOK /\ UploadKnown /\ IdsAreFresh
  BY DEF Counted
<1> USE DEF Goto, disk, history, Phases, Serving, Publishing,
           Unwinding, Uploading
<1>1. CASE Crash
  BY <1>t, <1>1 DEF Crash, TypeOK, UploadKnown, IdsAreFresh
<1>2. CASE UNCHANGED vars
  BY <1>t, <1>2 DEF vars, TypeOK, UploadKnown, IdsAreFresh
<1>3. ASSUME NEW s \in Sessions, SessionStep(s)
      PROVE  IdsAreFresh'
  <2>u. phase[s] \in Uploading =>
          /\ key[s] \in UserRecord /\ key[s].name \in Users
          /\ upload[s] \in Ids
    BY <1>t DEF TypeOK, UploadKnown
  <2>1. CASE \/ Connect(s) \/ Fail(s) \/ Unwind(s) \/ Release(s)
             \/ LoginProof(s) \/ RefuseDelete(s) \/ AdmitUpload(s)
    BY <1>t, <2>1
       DEF Connect, Fail, Unwind, Release, LoginProof, RefuseDelete,
           AdmitUpload, TypeOK, UploadKnown, IdsAreFresh
  <2>7. ASSUME NEW r \in UserRecord, Register(s, r) \/ LoginStart(s, r)
        PROVE  IdsAreFresh'
    BY <1>t, <2>7 DEF Register, LoginStart, TypeOK, UploadKnown, IdsAreFresh
  <2>8. CASE DeleteAccount(s)
    BY <1>t, <2>8 DEF DeleteAccount, TypeOK, UploadKnown, IdsAreFresh
  <2>9. ASSUME NEW id \in Ids, BeginUpload(s, id) PROVE IdsAreFresh'
    BY <1>t, <2>9 DEF BeginUpload, TypeOK, UploadKnown, IdsAreFresh
  <2>2. CASE CommitArchive(s)
    BY <1>t, <2>u, <2>2 DEF CommitArchive, TypeOK, UploadKnown, IdsAreFresh
  <2>3. CASE WriteMeta(s)
    BY <1>t, <2>u, <2>3 DEF WriteMeta, TypeOK, UploadKnown, IdsAreFresh
  <2>4. CASE RollbackMeta(s)
    BY <1>t, <2>u, <2>4 DEF RollbackMeta, TypeOK, UploadKnown, IdsAreFresh
  <2>5. CASE RollbackArchive(s)
    BY <1>t, <2>u, <2>5 DEF RollbackArchive, TypeOK, UploadKnown, IdsAreFresh
  <2>6. CASE Acknowledge(s)
    BY <1>t, <2>u, <2>6 DEF Acknowledge, TypeOK, UploadKnown, IdsAreFresh
  <2> QED
    BY <1>3, <2>1, <2>2, <2>3, <2>4, <2>5, <2>6, <2>7, <2>8, <2>9
       DEF SessionStep
<1> QED
  BY <1>1, <1>2, <1>3 DEF Next

-----------------------------------------------------------------------------
\* Layer: publication and rollback.

\* What each step of a publication may rely on: the archive is there before
\* its metadata is written, the metadata is gone before the archive is
\* removed, and a published upload stays listed until it is acknowledged.
PublicationOrder ==
  \A s \in Sessions :
    /\ phase[s] = "meta" => upload[s] \in archive[key[s].name]
    /\ phase[s] = "rollbackArchive" => upload[s] \notin meta[key[s].name]
    /\ phase[s] = "acking" => upload[s] \in meta[key[s].name]

Ordered == MetaHasArchive /\ PublicationOrder

LEMMA OrderedStep ==
  Counted /\ LockIsHeld /\ IdsAreFresh /\ Ordered /\ [Next]_vars => Ordered'
<1> SUFFICES ASSUME Counted, LockIsHeld, IdsAreFresh, Ordered, [Next]_vars
             PROVE  Ordered'
  OBVIOUS
<1> USE UserRecordFields, SentinelAssumption
<1>t. TypeOK /\ UploadKnown /\ LockIsHeld /\ IdsAreFresh /\ Ordered
  BY DEF Counted
<1> USE DEF Goto, disk, history, Phases, Serving, Publishing,
           Unwinding, Uploading
<1>1. CASE Crash
  BY <1>t, <1>1
     DEF Crash, TypeOK, UploadKnown, LockIsHeld, IdsAreFresh, Ordered,
         MetaHasArchive, PublicationOrder
<1>2. CASE UNCHANGED vars
  BY <1>t, <1>2
     DEF vars, TypeOK, UploadKnown, LockIsHeld, IdsAreFresh, Ordered,
         MetaHasArchive, PublicationOrder
<1>3. ASSUME NEW s \in Sessions, SessionStep(s)
      PROVE  Ordered'
  <2>u. phase[s] \in Uploading =>
          /\ key[s] \in UserRecord /\ key[s].name \in Users
          /\ upload[s] \in Ids
    BY <1>t DEF TypeOK, UploadKnown
  <2>1. CASE \/ Connect(s) \/ Fail(s) \/ Unwind(s) \/ Release(s)
             \/ \E r \in UserRecord : Register(s, r)
             \/ \E r \in UserRecord : LoginStart(s, r)
             \/ LoginProof(s) \/ DeleteAccount(s) \/ RefuseDelete(s)
             \/ \E id \in Ids : BeginUpload(s, id)
    BY <1>t, <2>1
       DEF Connect, Fail, Unwind, Release, Register, LoginStart, LoginProof,
           DeleteAccount, RefuseDelete, BeginUpload, TypeOK, UploadKnown,
           LockIsHeld, IdsAreFresh, Ordered, MetaHasArchive, PublicationOrder
  <2>2. CASE AdmitUpload(s)
    BY <1>t, <2>u, <2>2
       DEF AdmitUpload, TypeOK, UploadKnown, LockIsHeld, IdsAreFresh, Ordered,
           MetaHasArchive, PublicationOrder
  <2>3. CASE CommitArchive(s)
    <3>0. phase[s] \in Uploading
      BY <2>3 DEF CommitArchive
    <3>1. \A t \in Sessions : phase[t] \in Publishing => t = s
      BY <1>t, <2>3 DEF CommitArchive, LockIsHeld
    <3>2. MetaHasArchive'
      BY <1>t, <2>u, <2>3, <3>0
         DEF CommitArchive, TypeOK, Ordered, MetaHasArchive, PublicationOrder
    <3>3. PublicationOrder'
      BY <1>t, <2>u, <2>3, <3>0, <3>1
         DEF CommitArchive, TypeOK, UploadKnown, IdsAreFresh, Ordered,
             MetaHasArchive, PublicationOrder
    <3> QED
      BY <3>2, <3>3 DEF Ordered
  <2>4. CASE WriteMeta(s)
    <3>0. phase[s] \in Uploading
      BY <2>4 DEF WriteMeta
    <3>1. \A t \in Sessions : phase[t] \in Publishing => t = s
      BY <1>t, <2>4 DEF WriteMeta, LockIsHeld
    <3>2. MetaHasArchive'
      BY <1>t, <2>u, <2>4, <3>0
         DEF WriteMeta, TypeOK, Ordered, MetaHasArchive, PublicationOrder
    <3>3. PublicationOrder'
      BY <1>t, <2>u, <2>4, <3>0, <3>1
         DEF WriteMeta, TypeOK, UploadKnown, IdsAreFresh, Ordered,
             MetaHasArchive, PublicationOrder
    <3> QED
      BY <3>2, <3>3 DEF Ordered
  <2>5. CASE RollbackMeta(s)
    <3>0. phase[s] \in Uploading
      BY <2>5 DEF RollbackMeta
    <3>1. \A t \in Sessions : phase[t] \in Publishing => t = s
      BY <1>t, <2>5 DEF RollbackMeta, LockIsHeld
    <3>2. MetaHasArchive'
      BY <1>t, <2>u, <2>5, <3>0
         DEF RollbackMeta, TypeOK, Ordered, MetaHasArchive, PublicationOrder
    <3>3. PublicationOrder'
      BY <1>t, <2>u, <2>5, <3>0, <3>1
         DEF RollbackMeta, TypeOK, UploadKnown, IdsAreFresh, Ordered,
             MetaHasArchive, PublicationOrder
    <3> QED
      BY <3>2, <3>3 DEF Ordered
  <2>6. CASE RollbackArchive(s)
    <3>0. phase[s] \in Uploading
      BY <2>6 DEF RollbackArchive
    <3>1. \A t \in Sessions : phase[t] \in Publishing => t = s
      BY <1>t, <2>6 DEF RollbackArchive, LockIsHeld
    <3>2. MetaHasArchive'
      BY <1>t, <2>u, <2>6, <3>0
         DEF RollbackArchive, TypeOK, Ordered, MetaHasArchive,
             PublicationOrder
    <3>3. PublicationOrder'
      BY <1>t, <2>u, <2>6, <3>0, <3>1
         DEF RollbackArchive, TypeOK, UploadKnown, IdsAreFresh, Ordered,
             MetaHasArchive, PublicationOrder
    <3> QED
      BY <3>2, <3>3 DEF Ordered
  <2>7. CASE Acknowledge(s)
    BY <1>t, <2>u, <2>7
       DEF Acknowledge, TypeOK, UploadKnown, LockIsHeld, IdsAreFresh, Ordered,
           MetaHasArchive, PublicationOrder
  <2> QED
    BY <1>3, <2>1, <2>2, <2>3, <2>4, <2>5, <2>6, <2>7 DEF SessionStep
<1> QED
  BY <1>1, <1>2, <1>3 DEF Next

LEMMA AcknowledgedStep ==
  Counted /\ LockIsHeld /\ IdsAreFresh /\ Ordered
  /\ AcknowledgedIsStored /\ [Next]_vars => AcknowledgedIsStored'
<1> SUFFICES ASSUME Counted, LockIsHeld, IdsAreFresh, Ordered,
                    AcknowledgedIsStored, [Next]_vars
             PROVE  AcknowledgedIsStored'
  OBVIOUS
<1> USE UserRecordFields, SentinelAssumption
<1>t. TypeOK /\ UploadKnown /\ LockIsHeld /\ IdsAreFresh /\ Ordered
    /\ AcknowledgedIsStored
  BY DEF Counted
<1> USE DEF Goto, disk, history, Phases, Serving, Publishing,
           Unwinding, Uploading
<1>1. CASE Crash
  BY <1>t, <1>1
     DEF Crash, TypeOK, UploadKnown, LockIsHeld, IdsAreFresh, Ordered,
         MetaHasArchive, PublicationOrder, AcknowledgedIsStored
<1>2. CASE UNCHANGED vars
  BY <1>t, <1>2
     DEF vars, TypeOK, UploadKnown, LockIsHeld, IdsAreFresh, Ordered,
         MetaHasArchive, PublicationOrder, AcknowledgedIsStored
<1>3. ASSUME NEW s \in Sessions, SessionStep(s)
      PROVE  AcknowledgedIsStored'
  <2>u. phase[s] \in Uploading =>
          /\ key[s] \in UserRecord /\ key[s].name \in Users
          /\ upload[s] \in Ids
    BY <1>t DEF TypeOK, UploadKnown
  <2>1. CASE \/ Connect(s) \/ Fail(s) \/ Unwind(s) \/ Release(s)
             \/ \E r \in UserRecord : Register(s, r)
             \/ \E r \in UserRecord : LoginStart(s, r)
             \/ LoginProof(s) \/ DeleteAccount(s) \/ RefuseDelete(s)
             \/ \E id \in Ids : BeginUpload(s, id)
             \/ AdmitUpload(s)
    BY <1>t, <2>1
       DEF Connect, Fail, Unwind, Release, Register, LoginStart, LoginProof,
           DeleteAccount, RefuseDelete, BeginUpload, AdmitUpload, TypeOK,
           UploadKnown, LockIsHeld, IdsAreFresh, Ordered, MetaHasArchive,
           PublicationOrder, AcknowledgedIsStored
  <2>2. CASE CommitArchive(s)
    BY <1>t, <2>u, <2>2
       DEF CommitArchive, TypeOK, UploadKnown, LockIsHeld, IdsAreFresh,
           Ordered, MetaHasArchive, PublicationOrder, AcknowledgedIsStored
  <2>3. CASE WriteMeta(s)
    BY <1>t, <2>u, <2>3
       DEF WriteMeta, TypeOK, UploadKnown, LockIsHeld, IdsAreFresh, Ordered,
           MetaHasArchive, PublicationOrder, AcknowledgedIsStored
  <2>4. CASE RollbackMeta(s)
    BY <1>t, <2>u, <2>4
       DEF RollbackMeta, TypeOK, UploadKnown, LockIsHeld, IdsAreFresh,
           Ordered, MetaHasArchive, PublicationOrder, AcknowledgedIsStored
  <2>5. CASE RollbackArchive(s)
    BY <1>t, <2>u, <2>5
       DEF RollbackArchive, TypeOK, UploadKnown, LockIsHeld, IdsAreFresh,
           Ordered, MetaHasArchive, PublicationOrder, AcknowledgedIsStored
  <2>6. CASE Acknowledge(s)
    BY <1>t, <2>u, <2>6
       DEF Acknowledge, TypeOK, UploadKnown, LockIsHeld, IdsAreFresh, Ordered,
           MetaHasArchive, PublicationOrder, AcknowledgedIsStored
  <2> QED
    BY <1>3, <2>1, <2>2, <2>3, <2>4, <2>5, <2>6 DEF SessionStep
<1> QED
  BY <1>1, <1>2, <1>3 DEF Next

\* The upload being published still has room in the history: the test made on
\* admission stays true because nobody else writes metadata meanwhile.
RoomIsLeft ==
  \A s \in Sessions : phase[s] \in {"archive", "meta"} =>
    Cardinality(meta[key[s].name]) < MaxHistory

Bounded == HistoryFits /\ RoomIsLeft

LEMMA MetaFinite ==
  ASSUME TypeOK, NEW u \in Users
  PROVE  IsFiniteSet(meta[u]) /\ Cardinality(meta[u]) \in Nat
<1>1. meta[u] \in SUBSET Ids
  BY DEF TypeOK
<1>2. IsFiniteSet(meta[u])
  BY <1>1, SetsAssumption, FS_Subset
<1> QED
  BY <1>2, FS_CardinalityType

\* Adding to a set of fewer than n elements, or removing from one of at most
\* n, leaves at most n.
LEMMA BoundKept ==
  ASSUME NEW S, NEW x, NEW n \in Nat, IsFiniteSet(S), Cardinality(S) \in Nat
  PROVE  /\ Cardinality(S) < n => Cardinality(S \cup {x}) <= n
         /\ Cardinality(S) <= n => Cardinality(S \ {x}) <= n
<1>1. Cardinality(S \cup {x}) =
        IF x \in S THEN Cardinality(S) ELSE Cardinality(S) + 1
  BY FS_AddElement
<1>2. Cardinality(S \ {x}) =
        IF x \in S THEN Cardinality(S) - 1 ELSE Cardinality(S)
  BY FS_RemoveElement
<1> QED
  BY <1>1, <1>2

LEMMA BoundedStep ==
  Counted /\ LockIsHeld /\ Bounded /\ [Next]_vars => Bounded'
<1> SUFFICES ASSUME Counted, LockIsHeld, Bounded, [Next]_vars
             PROVE  Bounded'
  OBVIOUS
<1> USE UserRecordFields, SentinelAssumption
<1>t. TypeOK /\ UploadKnown /\ LockIsHeld /\ Bounded
  BY DEF Counted
<1> USE DEF Goto, disk, history, Phases, Serving, Publishing,
           Unwinding, Uploading
<1>1. CASE Crash
  BY <1>t, <1>1
     DEF Crash, TypeOK, UploadKnown, LockIsHeld, Bounded, HistoryFits,
         RoomIsLeft
<1>2. CASE UNCHANGED vars
  BY <1>t, <1>2
     DEF vars, TypeOK, UploadKnown, LockIsHeld, Bounded, HistoryFits,
         RoomIsLeft
<1>3. ASSUME NEW s \in Sessions, SessionStep(s)
      PROVE  Bounded'
  <2>u. phase[s] \in Uploading =>
          /\ key[s] \in UserRecord /\ key[s].name \in Users
          /\ upload[s] \in Ids
    BY <1>t DEF TypeOK, UploadKnown
  <2>1. CASE \/ Connect(s) \/ Fail(s) \/ Unwind(s) \/ Release(s)
             \/ \E r \in UserRecord : Register(s, r)
             \/ \E r \in UserRecord : LoginStart(s, r)
             \/ LoginProof(s) \/ DeleteAccount(s) \/ RefuseDelete(s)
             \/ \E id \in Ids : BeginUpload(s, id)
             \/ RollbackArchive(s) \/ Acknowledge(s)
    BY <1>t, <2>1
       DEF Connect, Fail, Unwind, Release, Register, LoginStart, LoginProof,
           DeleteAccount, RefuseDelete, BeginUpload, RollbackArchive,
           Acknowledge, TypeOK, UploadKnown, LockIsHeld, Bounded, HistoryFits,
           RoomIsLeft
  <2>2. CASE AdmitUpload(s)
    BY <1>t, <2>u, <2>2
       DEF AdmitUpload, TypeOK, UploadKnown, LockIsHeld, Bounded, HistoryFits,
           RoomIsLeft
  <2>3. CASE CommitArchive(s)
    BY <1>t, <2>u, <2>3
       DEF CommitArchive, TypeOK, UploadKnown, LockIsHeld, Bounded,
           HistoryFits, RoomIsLeft
  <2>4. CASE WriteMeta(s)
    <3>1. key[s].name \in Users /\ phase[s] \in Uploading
      BY <1>t, <2>u, <2>4 DEF WriteMeta
    <3>2. /\ Cardinality(meta[key[s].name]) < MaxHistory =>
               Cardinality(meta[key[s].name] \cup {upload[s]}) <= MaxHistory
          /\ Cardinality(meta[key[s].name]) <= MaxHistory =>
               Cardinality(meta[key[s].name] \ {upload[s]}) <= MaxHistory
      BY <1>t, <3>1, MetaFinite, BoundKept, LimitAssumption
    <3>3. /\ phase' \in [Sessions -> Phases] /\ UNCHANGED key
          /\ phase'[s] \notin {"archive", "meta"}
          /\ \A q \in Sessions : q # s =>
                phase'[q] = phase[q] /\ phase[q] \notin {"archive", "meta"}
      BY <1>t, <2>4 DEF WriteMeta, TypeOK, LockIsHeld
    <3>4. /\ \A u \in Users : u # key[s].name => meta'[u] = meta[u]
          /\ \/ meta'[key[s].name] = meta[key[s].name]
             \/ meta'[key[s].name] = meta[key[s].name] \cup {upload[s]}
      BY <1>t, <2>4, <3>1 DEF WriteMeta, TypeOK
    <3>5. Cardinality(meta[key[s].name]) < MaxHistory
      BY <1>t, <2>4 DEF WriteMeta, Bounded, RoomIsLeft
    <3>6. HistoryFits'
      BY <1>t, <3>2, <3>4, <3>5 DEF Bounded, HistoryFits
    <3>7. RoomIsLeft'
      BY <3>3 DEF RoomIsLeft
    <3> QED
      BY <3>6, <3>7 DEF Bounded
  <2>5. CASE RollbackMeta(s)
    <3>1. key[s].name \in Users /\ phase[s] \in Uploading
      BY <1>t, <2>u, <2>5 DEF RollbackMeta
    <3>2. /\ Cardinality(meta[key[s].name]) < MaxHistory =>
               Cardinality(meta[key[s].name] \cup {upload[s]}) <= MaxHistory
          /\ Cardinality(meta[key[s].name]) <= MaxHistory =>
               Cardinality(meta[key[s].name] \ {upload[s]}) <= MaxHistory
      BY <1>t, <3>1, MetaFinite, BoundKept, LimitAssumption
    <3>3. /\ phase' \in [Sessions -> Phases] /\ UNCHANGED key
          /\ phase'[s] \notin {"archive", "meta"}
          /\ \A q \in Sessions : q # s =>
                phase'[q] = phase[q] /\ phase[q] \notin {"archive", "meta"}
      BY <1>t, <2>5 DEF RollbackMeta, TypeOK, LockIsHeld
    <3>4. /\ \A u \in Users : u # key[s].name => meta'[u] = meta[u]
          /\ \/ meta'[key[s].name] = meta[key[s].name]
             \/ meta'[key[s].name] = meta[key[s].name] \ {upload[s]}
      BY <1>t, <2>5, <3>1 DEF RollbackMeta, TypeOK
    <3>5. HistoryFits'
      BY <1>t, <3>2, <3>4 DEF Bounded, HistoryFits
    <3>6. RoomIsLeft'
      BY <3>3 DEF RoomIsLeft
    <3> QED
      BY <3>5, <3>6 DEF Bounded
  <2> QED
    BY <1>3, <2>1, <2>2, <2>3, <2>4, <2>5 DEF SessionStep
<1> QED
  BY <1>1, <1>2, <1>3 DEF Next

-----------------------------------------------------------------------------
\* Layer: files and their owners.

LEMMA FilesStep ==
  Counted /\ IdsAreFresh /\ Served /\ FilesBelongToAccount /\ [Next]_vars
  => FilesBelongToAccount'
<1> SUFFICES ASSUME Counted, IdsAreFresh, Served, FilesBelongToAccount,
                    [Next]_vars
             PROVE  FilesBelongToAccount'
  OBVIOUS
<1> USE UserRecordFields, SentinelAssumption
<1>t. TypeOK /\ UploadKnown /\ IdsAreFresh /\ Served /\ FilesBelongToAccount
  BY DEF Counted
<1> USE DEF Goto, disk, history, Phases, Serving, Publishing,
           Unwinding, Uploading
<1>1. CASE Crash
  BY <1>t, <1>1
     DEF Crash, TypeOK, UploadKnown, IdsAreFresh, Served, ServedAccountExists,
         ClosedIsUnkeyed, FilesBelongToAccount, DirectoryEmpty, NameTaken
<1>2. CASE UNCHANGED vars
  BY <1>t, <1>2
     DEF vars, TypeOK, UploadKnown, IdsAreFresh, Served, ServedAccountExists,
         ClosedIsUnkeyed, FilesBelongToAccount, DirectoryEmpty, NameTaken
<1>3. ASSUME NEW s \in Sessions, SessionStep(s)
      PROVE  FilesBelongToAccount'
  <2>u. phase[s] \in Uploading =>
          /\ key[s] \in UserRecord /\ key[s].name \in Users
          /\ upload[s] \in Ids
    BY <1>t DEF TypeOK, UploadKnown
  <2>1. CASE \/ Connect(s) \/ Fail(s) \/ Unwind(s) \/ Release(s)
             \/ \E r \in UserRecord : LoginStart(s, r)
             \/ LoginProof(s) \/ RefuseDelete(s) \/ AdmitUpload(s)
             \/ Acknowledge(s)
    BY <1>t, <2>1
       DEF Connect, Fail, Unwind, Release, LoginStart, LoginProof,
           RefuseDelete, AdmitUpload, Acknowledge, TypeOK, UploadKnown,
           IdsAreFresh, Served, ServedAccountExists, ClosedIsUnkeyed,
           FilesBelongToAccount, DirectoryEmpty, NameTaken
  <2>2. ASSUME NEW r \in UserRecord, Register(s, r)
       PROVE  FilesBelongToAccount'
    BY <1>t, <2>u, <2>2
       DEF Register, TypeOK, UploadKnown, IdsAreFresh, Served,
           ServedAccountExists, ClosedIsUnkeyed, FilesBelongToAccount,
           DirectoryEmpty, NameTaken
  <2>3. CASE DeleteAccount(s)
    BY <1>t, <2>3
       DEF DeleteAccount, MayDelete, TypeOK, UploadKnown, IdsAreFresh, Served,
           ServedAccountExists, ClosedIsUnkeyed, FilesBelongToAccount,
           DirectoryEmpty, NameTaken
  <2>4. ASSUME NEW id \in Ids, BeginUpload(s, id)
       PROVE  FilesBelongToAccount'
    BY <1>t, <2>u, <2>4
       DEF BeginUpload, TypeOK, UploadKnown, IdsAreFresh, Served,
           ServedAccountExists, ClosedIsUnkeyed, FilesBelongToAccount,
           DirectoryEmpty, NameTaken
  <2>5. CASE CommitArchive(s)
    BY <1>t, <2>u, <2>5, SMTT(30)
       DEF CommitArchive, TypeOK, UploadKnown, IdsAreFresh, Served,
           ServedAccountExists, ClosedIsUnkeyed, FilesBelongToAccount,
           DirectoryEmpty, NameTaken
  <2>6. CASE WriteMeta(s)
    BY <1>t, <2>u, <2>6
       DEF WriteMeta, TypeOK, UploadKnown, IdsAreFresh, Served,
           ServedAccountExists, ClosedIsUnkeyed, FilesBelongToAccount,
           DirectoryEmpty, NameTaken
  <2>7. CASE RollbackMeta(s)
    BY <1>t, <2>u, <2>7
       DEF RollbackMeta, TypeOK, UploadKnown, IdsAreFresh, Served,
           ServedAccountExists, ClosedIsUnkeyed, FilesBelongToAccount,
           DirectoryEmpty, NameTaken
  <2>8. CASE RollbackArchive(s)
    BY <1>t, <2>u, <2>8
       DEF RollbackArchive, TypeOK, UploadKnown, IdsAreFresh, Served,
           ServedAccountExists, ClosedIsUnkeyed, FilesBelongToAccount,
           DirectoryEmpty, NameTaken
  <2> QED
    BY <1>3, <2>1, <2>2, <2>3, <2>4, <2>5, <2>6, <2>7, <2>8 DEF SessionStep
<1> QED
  BY <1>1, <1>2, <1>3 DEF Next

LEMMA UnlistedStep ==
  Counted /\ LockIsHeld /\ IdsAreFresh /\ FilesBelongToAccount
  /\ UnlistedArchiveIsExplained /\ [Next]_vars => UnlistedArchiveIsExplained'
<1> SUFFICES ASSUME Counted, LockIsHeld, IdsAreFresh, FilesBelongToAccount,
                    UnlistedArchiveIsExplained, [Next]_vars
             PROVE  UnlistedArchiveIsExplained'
  OBVIOUS
<1> USE UserRecordFields, SentinelAssumption
<1>t. TypeOK /\ UploadKnown /\ LockIsHeld /\ IdsAreFresh
    /\ FilesBelongToAccount /\ UnlistedArchiveIsExplained
  BY DEF Counted
<1> USE DEF Goto, disk, history, Phases, Serving, Publishing,
           Unwinding, Uploading
<1>1. CASE Crash
  BY <1>t, <1>1
     DEF Crash, TypeOK, UploadKnown, LockIsHeld, IdsAreFresh,
         FilesBelongToAccount, UnlistedArchiveIsExplained
<1>2. CASE UNCHANGED vars
  BY <1>t, <1>2
     DEF vars, TypeOK, UploadKnown, LockIsHeld, IdsAreFresh,
         FilesBelongToAccount, UnlistedArchiveIsExplained
<1>3. ASSUME NEW s \in Sessions, SessionStep(s)
      PROVE  UnlistedArchiveIsExplained'
  <2>u. phase[s] \in Uploading =>
          /\ key[s] \in UserRecord /\ key[s].name \in Users
          /\ upload[s] \in Ids
    BY <1>t DEF TypeOK, UploadKnown
  <2>1. CASE \/ Connect(s) \/ Fail(s) \/ Unwind(s) \/ Release(s)
             \/ \E r \in UserRecord : Register(s, r)
             \/ \E r \in UserRecord : LoginStart(s, r)
             \/ LoginProof(s) \/ DeleteAccount(s) \/ RefuseDelete(s)
             \/ \E id \in Ids : BeginUpload(s, id)
             \/ AdmitUpload(s)
    BY <1>t, <2>1
       DEF Connect, Fail, Unwind, Release, Register, LoginStart, LoginProof,
           DeleteAccount, RefuseDelete, BeginUpload, AdmitUpload, TypeOK,
           UploadKnown, LockIsHeld, IdsAreFresh, FilesBelongToAccount,
           UnlistedArchiveIsExplained
  <2>2. CASE CommitArchive(s)
    BY <1>t, <2>u, <2>2
       DEF CommitArchive, TypeOK, UploadKnown, LockIsHeld, IdsAreFresh,
           FilesBelongToAccount, UnlistedArchiveIsExplained
  <2>3. CASE WriteMeta(s)
    BY <1>t, <2>u, <2>3
       DEF WriteMeta, TypeOK, UploadKnown, LockIsHeld, IdsAreFresh,
           FilesBelongToAccount, UnlistedArchiveIsExplained
  <2>4. CASE RollbackMeta(s)
    BY <1>t, <2>u, <2>4
       DEF RollbackMeta, TypeOK, UploadKnown, LockIsHeld, IdsAreFresh,
           FilesBelongToAccount, UnlistedArchiveIsExplained
  <2>5. CASE RollbackArchive(s)
    BY <1>t, <2>u, <2>5
       DEF RollbackArchive, TypeOK, UploadKnown, LockIsHeld, IdsAreFresh,
           FilesBelongToAccount, UnlistedArchiveIsExplained
  <2>6. CASE Acknowledge(s)
    BY <1>t, <2>u, <2>6
       DEF Acknowledge, TypeOK, UploadKnown, LockIsHeld, IdsAreFresh,
           FilesBelongToAccount, UnlistedArchiveIsExplained
  <2> QED
    BY <1>3, <2>1, <2>2, <2>3, <2>4, <2>5, <2>6 DEF SessionStep
<1> QED
  BY <1>1, <1>2, <1>3 DEF Next

\* The database holds finitely many records, so that they can be counted.
Database == IsFiniteSet(users) /\ DatabaseLoads

LEMMA DatabaseStep ==
  Counted /\ Database /\ [Next]_vars => Database'
<1> SUFFICES ASSUME Counted, Database, [Next]_vars
             PROVE  Database'
  OBVIOUS
<1> USE UserRecordFields, SentinelAssumption
<1>t. TypeOK /\ Database
  BY DEF Counted
<1> USE DEF Goto, disk, history, Phases, Serving, Publishing,
           Unwinding, Uploading
<1>1. CASE Crash
  BY <1>t, <1>1 DEF Crash, Database, DatabaseLoads
<1>2. CASE UNCHANGED vars
  BY <1>t, <1>2 DEF vars, Database, DatabaseLoads
<1>3. ASSUME NEW s \in Sessions, SessionStep(s)
      PROVE  Database'
  <2>1. CASE \/ Connect(s) \/ Fail(s) \/ Unwind(s) \/ Release(s)
             \/ \E r \in UserRecord : LoginStart(s, r)
             \/ LoginProof(s) \/ RefuseDelete(s)
             \/ \E id \in Ids : BeginUpload(s, id)
             \/ AdmitUpload(s) \/ CommitArchive(s) \/ WriteMeta(s)
             \/ RollbackMeta(s) \/ RollbackArchive(s) \/ Acknowledge(s)
    BY <1>t, <2>1
       DEF Connect, Fail, Unwind, Release, LoginStart, LoginProof,
           RefuseDelete, BeginUpload, AdmitUpload, CommitArchive, WriteMeta,
           RollbackMeta, RollbackArchive, Acknowledge, Database, DatabaseLoads
  <2>2. ASSUME NEW r \in UserRecord, Register(s, r)
       PROVE  Database'
    <3>1. /\ IsFiniteSet(users \cup {r})
          /\ Cardinality(users \cup {r}) =
               IF r \in users THEN Cardinality(users)
                              ELSE Cardinality(users) + 1
      BY <1>t, FS_AddElement DEF Database
    <3>2. Cardinality(users) \in Nat
      BY <1>t, FS_CardinalityType DEF Database
    <3>3. Cardinality(users \cup {r}) <= MaxAccounts
      BY <2>2, <3>1, <3>2, LimitAssumption DEF Register
    <3> QED
      BY <1>t, <2>2, <3>1, <3>3
         DEF Register, NameTaken, Database, DatabaseLoads
  <2>3. CASE DeleteAccount(s)
    <3>1. users' \in SUBSET users
      BY <2>3 DEF DeleteAccount
    <3>2. /\ IsFiniteSet(users')
          /\ Cardinality(users') <= Cardinality(users)
          /\ Cardinality(users') \in Nat /\ Cardinality(users) \in Nat
      BY <1>t, <3>1, FS_Subset, FS_CardinalityType DEF Database
    <3> QED
      BY <1>t, <3>1, <3>2, LimitAssumption DEF Database, DatabaseLoads
  <2> QED
    BY <1>3, <2>1, <2>2, <2>3 DEF SessionStep
<1> QED
  BY <1>1, <1>2, <1>3 DEF Next

-----------------------------------------------------------------------------
\* The whole inductive invariant and what follows from it.

IInv ==
  /\ Counted
  /\ Served
  /\ LockIsHeld
  /\ IdsAreFresh
  /\ Ordered
  /\ AcknowledgedIsStored
  /\ Bounded
  /\ FilesBelongToAccount
  /\ UnlistedArchiveIsExplained
  /\ Database

LEMMA IInvInit == Init => IInv
<1> SUFFICES ASSUME Init PROVE IInv
  OBVIOUS
<1>1. Counted
  BY CountedInit
<1>2. Served
  BY DEF Init, Served, ServedAccountExists, ClosedIsUnkeyed
<1>3. LockIsHeld
  BY SentinelAssumption DEF Init, LockIsHeld, Publishing
<1>4. IdsAreFresh
  BY DEF Init, IdsAreFresh, Uploading, Publishing
<1>5. Ordered
  BY DEF Init, Ordered, MetaHasArchive, PublicationOrder
<1>6. AcknowledgedIsStored
  BY DEF Init, AcknowledgedIsStored
<1>7. Bounded
  BY FS_EmptySet, LimitAssumption DEF Init, Bounded, HistoryFits, RoomIsLeft
<1>8. FilesBelongToAccount
  BY DEF Init, FilesBelongToAccount, DirectoryEmpty
<1>9. UnlistedArchiveIsExplained
  BY DEF Init, UnlistedArchiveIsExplained
<1>10. Database
  BY FS_EmptySet, LimitAssumption DEF Init, Database, DatabaseLoads
<1> QED
  BY <1>1, <1>2, <1>3, <1>4, <1>5, <1>6, <1>7, <1>8, <1>9, <1>10 DEF IInv

LEMMA IInvStep == IInv /\ [Next]_vars => IInv'
BY CountedStep, ServedStep, LockStep, FreshStep, OrderedStep,
   AcknowledgedStep, BoundedStep, FilesStep, UnlistedStep, DatabaseStep
   DEF IInv

LEMMA Invariance == Spec => []IInv
BY IInvInit, IInvStep, PTL DEF Spec

\* loadUsers accepts every database saveUsers can leave behind.
THEOREM DatabaseLoadable == Spec => []DatabaseLoads
<1>1. IInv => DatabaseLoads
  BY DEF IInv, Database
<1> QED
  BY <1>1, Invariance, PTL

\* Every listed backup has its archive, at every point of publication,
\* rollback and crash.
THEOREM MetaCorrect == Spec => []MetaHasArchive
<1>1. IInv => MetaHasArchive
  BY DEF IInv, Ordered
<1> QED
  BY <1>1, Invariance, PTL

\* The history never outgrows its response.
THEOREM HistoryCorrect == Spec => []HistoryFits
<1>1. IInv => HistoryFits
  BY DEF IInv, Bounded
<1> QED
  BY <1>1, Invariance, PTL

\* A backup reported as stored stays listed and downloadable.
THEOREM AcknowledgedCorrect == Spec => []AcknowledgedIsStored
<1>1. IInv => AcknowledgedIsStored
  BY DEF IInv
<1> QED
  BY <1>1, Invariance, PTL

\* A user's directory holds only what was uploaded under the credential that
\* is registered now.
THEOREM FilesCorrect == Spec => []FilesBelongToAccount
<1>1. IInv => FilesBelongToAccount
  BY DEF IInv
<1> QED
  BY <1>1, Invariance, PTL

\* Only an interrupted publication or a failed removal leaves an archive that
\* no history shows.
THEOREM UnlistedCorrect == Spec => []UnlistedArchiveIsExplained
<1>1. IInv => UnlistedArchiveIsExplained
  BY DEF IInv
<1> QED
  BY <1>1, Invariance, PTL

-----------------------------------------------------------------------------
\* The refinement of Vault.

LEMMA CredOfRecord ==
  ASSUME DatabaseLoads, NEW r \in users
  PROVE  CredOf(r.name) = r.cred
<1>1. NameTaken(r.name)
  BY DEF NameTaken
<1>2. (CHOOSE q \in users : q.name = r.name) = r
  BY DEF DatabaseLoads
<1> QED
  BY <1>1, <1>2 DEF CredOf

LEMMA CredOfNobody ==
  ASSUME NEW u, ~NameTaken(u)
  PROVE  CredOf(u) = NoCred
BY DEF CredOf

LEMMA RegisteredCred ==
  ASSUME IInv, NEW u \in Users
  PROVE  NameTaken(u) <=> CredOf(u) # NoCred
<1>1. CASE NameTaken(u)
  <2>1. PICK r \in users : r.name = u
    BY <1>1 DEF NameTaken
  <2>2. CredOf(u) = r.cred
    BY <2>1, CredOfRecord DEF IInv, Database
  <2>3. r.cred \in Creds
    BY UserRecordFields DEF IInv, Counted, TypeOK
  <2> QED
    BY <1>1, <2>2, <2>3, SentinelAssumption
<1>2. CASE ~NameTaken(u)
  BY <1>2, CredOfNobody
<1> QED
  BY <1>1, <1>2

\* A name whose records stay keeps its credential.
LEMMA SameRecordsSameCred ==
  ASSUME IInv, IInv', NEW u \in Users,
         \A r \in users \cup users' : r.name = u => r \in users /\ r \in users'
  PROVE  CredOf(u)' = CredOf(u)
<1>1. CASE NameTaken(u)
  <2>1. PICK r \in users : r.name = u
    BY <1>1 DEF NameTaken
  <2>2. r \in users'
    BY <2>1
  <2>3. CredOf(u) = r.cred
    BY <2>1, CredOfRecord DEF IInv, Database
  <2>4. NameTaken(u)' /\ (CHOOSE q \in users' : q.name = u) = r
    BY <2>1, <2>2 DEF IInv, Database, DatabaseLoads, NameTaken
  <2> QED
    BY <2>3, <2>4 DEF CredOf
<1>2. CASE ~NameTaken(u)
  BY <1>2 DEF NameTaken, CredOf
<1> QED
  BY <1>1, <1>2

LEMMA SameUsersSameAccounts ==
  ASSUME IInv, IInv', users' = users
  PROVE  [u \in Users |-> CredOf(u)]' = [u \in Users |-> CredOf(u)]
BY SameRecordsSameCred

LEMMA VaultInit == Init => V!Init
<1>1. ASSUME Init, NEW u \in Users PROVE CredOf(u) = NoCred
  BY <1>1, CredOfNobody DEF Init, NameTaken
<1> QED
  BY <1>1 DEF Init, V!Init

\* Steps that leave the accounts alone: what happens to the histories decides
\* which step of Vault they are.
LEMMA StutterMaps ==
  ASSUME IInv, IInv', UNCHANGED <<users, meta, acknowledged>>
  PROVE  UNCHANGED V!vars
BY SameUsersSameAccounts DEF V!vars

\* Vault counts with its own instance of the same operator.
LEMMA SameCardinality == \A S : V!Cardinality(S) = Cardinality(S)
BY Zenon DEF V!Cardinality, Cardinality

\* There are no more accounts than records.
LEMMA AccountsAreRecords ==
  ASSUME IInv
  PROVE  Cardinality(V!Registered) \in Nat /\ Cardinality(V!Registered) <= Cardinality(users)
<1> DEFINE NameOf == [r \in users |-> r.name]
<1>1. IsFiniteSet(users)
  BY DEF IInv, Database
<1>2. V!Registered = {u \in Users : NameTaken(u)}
  BY RegisteredCred DEF V!Registered
<1>3. NameOf \in Surjection(users, V!Registered)
  <2>1. \A r \in users : r.name \in V!Registered
    BY <1>2, UserRecordFields DEF IInv, Counted, TypeOK, NameTaken
  <2>2. \A u \in V!Registered : \E r \in users : NameOf[r] = u
    BY <1>2 DEF NameTaken
  <2> QED
    BY <2>1, <2>2 DEF Surjection
<1> HIDE DEF NameOf
<1>4. IsFiniteSet(V!Registered) /\ Cardinality(V!Registered) <= Cardinality(users)
  BY <1>1, <1>3, FS_Surjection
<1> QED
  BY <1>4, FS_CardinalityType

LEMMA RegisterMaps ==
  ASSUME IInv, IInv', NEW s \in Sessions, NEW r \in UserRecord, Register(s, r)
  PROVE  V!Next
<1>1. r.name \in Users /\ r.cred \in Creds
  BY UserRecordFields
<1>2. users' = users \cup {r} /\ ~NameTaken(r.name)
  BY DEF Register
<1>3. CredOf(r.name) = NoCred
  BY <1>2, CredOfNobody
<1>4. CredOf(r.name)' = r.cred
  <2>1. NameTaken(r.name)' /\ (CHOOSE q \in users' : q.name = r.name) = r
    BY <1>2 DEF IInv, Database, DatabaseLoads, NameTaken
  <2> QED
    BY <2>1 DEF CredOf
<1>5. ASSUME NEW u \in Users, u # r.name PROVE CredOf(u)' = CredOf(u)
  BY <1>2, <1>5, SameRecordsSameCred
<1>6. UNCHANGED <<meta, acknowledged>>
  BY DEF Register, history
<1>7. [u \in Users |-> CredOf(u)]' =
        [[u \in Users |-> CredOf(u)] EXCEPT ![r.name] = r.cred]
  BY <1>1, <1>4, <1>5
<1>8. V!Cardinality(V!Registered) < MaxAccounts
  <2>1. Cardinality(users) \in Nat /\ Cardinality(users) < MaxAccounts
    BY FS_CardinalityType DEF Register, IInv, Database
  <2>2. MaxAccounts \in Nat
    BY LimitAssumption
  <2> QED
    BY <2>1, <2>2, AccountsAreRecords, SameCardinality
<1>9. V!Register(r.name, r.cred)
  BY <1>1, <1>3, <1>6, <1>7, <1>8 DEF V!Register
<1> QED
  BY <1>1, <1>9 DEF V!Next

LEMMA DeleteAccountMaps ==
  ASSUME IInv, IInv', NEW s \in Sessions, DeleteAccount(s)
  PROVE  V!Next
<1>1. PICK n \in Users : n = key[s].name
  BY UserRecordFields DEF IInv, Counted, TypeOK, DeleteAccount
<1>2. users' = {r \in users : r.name # n} /\ NameTaken(n) /\ meta[n] = {}
  BY <1>1 DEF DeleteAccount, MayDelete, DirectoryEmpty
<1>3. UNCHANGED <<meta, acknowledged>>
  BY DEF DeleteAccount, history
<1>4. CredOf(n) # NoCred
  BY <1>1, <1>2, RegisteredCred
<1>5. CredOf(n)' = NoCred
  <2>1. ~NameTaken(n)'
    BY <1>2 DEF NameTaken
  <2> QED
    BY <2>1 DEF CredOf
<1>6. ASSUME NEW u \in Users, u # n PROVE CredOf(u)' = CredOf(u)
  BY <1>2, <1>6, SameRecordsSameCred
<1>7. [u \in Users |-> CredOf(u)]' =
        [[u \in Users |-> CredOf(u)] EXCEPT ![n] = NoCred]
  BY <1>1, <1>5, <1>6
<1>8. V!Remove(n)
  BY <1>1, <1>2, <1>3, <1>4, <1>7 DEF V!Remove
<1> QED
  BY <1>1, <1>8 DEF V!Next

\* Metadata that was not written is a stutter, metadata that was is Publish.
LEMMA WriteMetaMaps ==
  ASSUME IInv, IInv', NEW s \in Sessions, WriteMeta(s)
  PROVE  V!Next \/ UNCHANGED V!vars
<1> DEFINE u == key[s].name
           id == upload[s]
<1>1. phase[s] = "meta" /\ UNCHANGED <<users, acknowledged>>
  BY DEF WriteMeta, history
<1>2. u \in Users /\ id \in Ids /\ key[s] \in users
  BY <1>1, UserRecordFields
     DEF IInv, Counted, TypeOK, UploadKnown, Uploading, Publishing, Served,
         ServedAccountExists, Serving
<1>3. V!Cardinality(meta[u]) < MaxHistory
  BY <1>1, SameCardinality DEF IInv, Bounded, RoomIsLeft
<1>4. \A v \in Users : id \notin meta[v]
  BY <1>1 DEF IInv, IdsAreFresh
<1>5. meta' = [meta EXCEPT ![u] = @ \cup {id}] \/ meta' = meta
  BY DEF WriteMeta
<1>6. CredOf(u) # NoCred
  BY <1>2, RegisteredCred DEF NameTaken
<1>7. [v \in Users |-> CredOf(v)]' = [v \in Users |-> CredOf(v)]
  BY <1>1, SameUsersSameAccounts
<1> HIDE DEF u, id
<1>8. CASE meta' = [meta EXCEPT ![u] = @ \cup {id}]
  <2>1. V!Publish(u, id)
    BY <1>1, <1>2, <1>3, <1>4, <1>6, <1>7, <1>8 DEF V!Publish
  <2> QED
    BY <1>2, <2>1 DEF V!Next
<1>9. CASE meta' = meta
  BY <1>1, <1>9, StutterMaps
<1> QED
  BY <1>5, <1>8, <1>9

\* Removing metadata is Retract when the rename of the metadata had taken
\* effect, and a stutter otherwise.
LEMMA RollbackMetaMaps ==
  ASSUME IInv, IInv', NEW s \in Sessions, RollbackMeta(s)
  PROVE  V!Next \/ UNCHANGED V!vars
<1> DEFINE u == key[s].name
           id == upload[s]
<1>1. phase[s] = "rollbackMeta" /\ UNCHANGED <<users, acknowledged>>
  BY DEF RollbackMeta
<1>2. u \in Users /\ id \in Ids
  BY <1>1, UserRecordFields
     DEF IInv, Counted, TypeOK, UploadKnown, Uploading, Publishing
<1>3. id \notin acknowledged[u]
  BY <1>1, <1>2 DEF IInv, IdsAreFresh, Uploading, Publishing
<1>4. meta' = [meta EXCEPT ![u] = @ \ {id}] \/ meta' = meta
  BY DEF RollbackMeta
<1>5. [v \in Users |-> CredOf(v)]' = [v \in Users |-> CredOf(v)]
  BY <1>1, SameUsersSameAccounts
<1>t. meta \in [Users -> SUBSET Ids]
  BY DEF IInv, Counted, TypeOK
<1> HIDE DEF u, id
<1>6. CASE meta' = [meta EXCEPT ![u] = @ \ {id}] /\ id \in meta[u]
  <2>1. V!Retract(u, id)
    BY <1>1, <1>2, <1>3, <1>5, <1>6 DEF V!Retract
  <2> QED
    BY <1>2, <2>1 DEF V!Next
<1>7. CASE meta' = meta \/ id \notin meta[u]
  <2>1. meta' = meta
    BY <1>2, <1>4, <1>7, <1>t
  <2> QED
    BY <1>1, <2>1, StutterMaps
<1> QED
  BY <1>4, <1>6, <1>7

LEMMA AcknowledgeMaps ==
  ASSUME IInv, IInv', NEW s \in Sessions, Acknowledge(s)
  PROVE  V!Next
<1> DEFINE u == key[s].name
           id == upload[s]
<1>1. /\ phase[s] = "acking" /\ UNCHANGED <<users, meta>>
      /\ acknowledged' = [acknowledged EXCEPT ![u] = @ \cup {id}]
  BY DEF Acknowledge, disk
<1>2. u \in Users /\ id \in Ids
  BY <1>1, UserRecordFields
     DEF IInv, Counted, TypeOK, UploadKnown, Uploading, Publishing
<1>3. id \in meta[u] /\ id \notin acknowledged[u]
  BY <1>1, <1>2
     DEF IInv, IdsAreFresh, Ordered, PublicationOrder, Uploading, Publishing
<1>4. [v \in Users |-> CredOf(v)]' = [v \in Users |-> CredOf(v)]
  BY <1>1, SameUsersSameAccounts
<1> HIDE DEF u, id
<1>5. V!Acknowledge(u, id)
  BY <1>1, <1>2, <1>3, <1>4 DEF V!Acknowledge
<1> QED
  BY <1>2, <1>5 DEF V!Next

LEMMA VaultStep == IInv /\ IInv' /\ [Next]_vars => [V!Next]_V!vars
<1> SUFFICES ASSUME IInv, IInv', [Next]_vars
             PROVE  V!Next \/ UNCHANGED V!vars
  OBVIOUS
<1>1. CASE UNCHANGED <<users, meta, acknowledged>>
  BY <1>1, StutterMaps
<1>2. CASE UNCHANGED vars
  BY <1>1, <1>2 DEF vars
<1>3. CASE Crash
  BY <1>1, <1>3 DEF Crash
<1>4. ASSUME NEW s \in Sessions, SessionStep(s)
      PROVE  V!Next \/ UNCHANGED V!vars
  <2>1. ASSUME NEW r \in UserRecord, Register(s, r)
        PROVE  V!Next
    BY <2>1, RegisterMaps
  <2>2. CASE DeleteAccount(s)
    BY <2>2, DeleteAccountMaps
  <2>3. CASE WriteMeta(s)
    BY <2>3, WriteMetaMaps
  <2>4. CASE RollbackMeta(s)
    BY <2>4, RollbackMetaMaps
  <2>5. CASE Acknowledge(s)
    BY <2>5, AcknowledgeMaps
  <2>6. CASE \/ Connect(s) \/ Fail(s) \/ Unwind(s) \/ Release(s)
             \/ \E r \in UserRecord : LoginStart(s, r)
             \/ LoginProof(s) \/ RefuseDelete(s)
             \/ \E id \in Ids : BeginUpload(s, id)
             \/ AdmitUpload(s) \/ CommitArchive(s) \/ RollbackArchive(s)
    <3>1. UNCHANGED <<users, meta, acknowledged>>
      BY <2>6
         DEF Connect, Fail, Unwind, Release, LoginStart, LoginProof,
             RefuseDelete, BeginUpload, AdmitUpload, CommitArchive,
             RollbackArchive, disk, history
    <3> QED
      BY <1>1, <3>1
  <2> QED
    BY <1>4, <2>1, <2>2, <2>3, <2>4, <2>5, <2>6 DEF SessionStep
<1> QED
  BY <1>2, <1>3, <1>4 DEF Next

\* The server implements Vault: seen from outside, accounts come and go one at
\* a time and only without backups, backups appear only within the capacity
\* of a registered owner's history, and none that was acknowledged is ever
\* withdrawn.
THEOREM ImplementsVault == Spec => VaultSpec
<1>1. IInv /\ IInv' /\ [Next]_vars => [V!Next]_V!vars
  BY VaultStep
<1> QED
  BY <1>1, VaultInit, Invariance, PTL DEF Spec, VaultSpec, V!Spec
=============================================================================
