-------------------------- MODULE SnapshotJobProofs --------------------------
(***************************************************************************)
(* What SnapshotJob promises, for any number of jobs, of directories and   *)
(* of archives.                                                            *)
(*                                                                         *)
(* WatchInv says why nothing passes a job by: what refresh() has not       *)
(* watched yet is listed, lies below something listed, or came after its   *)
(* parent was watched, and then the queue or "pending" tells.  KeepInv     *)
(* says why a job that runs alone keeps its last archive and no more than  *)
(* it should: retention has computed a set that spares both.               *)
(***************************************************************************)
EXTENDS SnapshotJob, TLAPS, FiniteSetTheorems, WellFoundedInduction

\* What the watches of a job miss is told by what it still has to visit.
Closed(j) ==
  /\ Root \in watched[j] \cup tovisit[j]
  /\ \A d \in tree : Under[d] \in watched[j] => d \in watched[j] \cup tovisit[j]

WatchOK(j) ==
  /\ pc[j] \notin {"watching", "stopped"} => tovisit[j] = {}
  /\ completed[j] = 0 /\ pc[j] # "stopped" => Closed(j)
  /\ pc[j] \notin {"stopped", "done"} =>
       Closed(j) \/ events[j] \/ (pending[j] /\ pc[j] \in {"polling", "deciding"})

Rooted == \A d \in tree : Under[d] \in Exists
WatchInv == TypeOK /\ Rooted /\ \A j \in Jobs : WatchOK(j)

LEMMA InitType == Init => TypeOK
<1> SUFFICES ASSUME Init PROVE TypeOK
  OBVIOUS
<1>1. tree \subseteq Dirs /\ archives \subseteq Stamps
  BY ParametersAssumption DEF Init
<1>2. 0 \in 0..CompletedCap /\ 0 \in 0..MaxRetries /\ 0 \in 0..Interval
  BY ParametersAssumption DEF CompletedCap, MaxRetries
<1> QED
  BY <1>1, <1>2 DEF Init, TypeOK, NoArchive

\* What other programs do to the tree changes no more than this.
LEMMA SourceStep ==
  ASSUME TypeOK,
         \/ \E d \in Dirs \cup {Root} : Modify(d)
         \/ \E d \in Dirs : MakeDirectory(d) \/ RemoveDirectory(d)
  PROVE  /\ TypeOK'
         /\ UNCHANGED <<archives, pc, tovisit, pending, next, failures, completed, current,
                        expired, scanned>>
<1>1. ASSUME NEW d \in Dirs \cup {Root}, Modify(d)
      PROVE  /\ TypeOK'
             /\ UNCHANGED <<archives, pc, tovisit, pending, next, failures, completed, current,
                            expired, scanned>>
  BY <1>1, ParametersAssumption DEF TypeOK, Modify, Report
<1>2. ASSUME NEW d \in Dirs, MakeDirectory(d)
      PROVE  /\ TypeOK'
             /\ UNCHANGED <<archives, pc, tovisit, pending, next, failures, completed, current,
                            expired, scanned>>
  BY <1>2, ParametersAssumption DEF TypeOK, MakeDirectory, Report, Exists
<1>3. ASSUME NEW d \in Dirs, RemoveDirectory(d)
      PROVE  /\ TypeOK'
             /\ UNCHANGED <<archives, pc, tovisit, pending, next, failures, completed, current,
                            expired, scanned>>
  BY <1>3, ParametersAssumption DEF TypeOK, RemoveDirectory, Report, Exists
<1> QED
  BY <1>1, <1>2, <1>3

\* One job's value changes.
LEMMA UpdateType ==
  ASSUME NEW S, NEW f \in [Jobs -> S], NEW j \in Jobs, NEW v \in S
  PROVE  [f EXCEPT ![j] = v] \in [Jobs -> S]
  OBVIOUS

LEMMA JobType ==
  ASSUME TypeOK, NEW j \in Jobs, JobStep(j) \/ Stop(j)
  PROVE  TypeOK'
<1> USE DEF TypeOK, source
<1>1. ASSUME NEW d \in Dirs \cup {Root}, Visit(j, d) PROVE TypeOK'
  BY <1>1 DEF Visit, Exists, Children
<1>2. CASE Watched(j)
  BY <1>2 DEF Watched
<1>3. CASE Poll(j)
  <2>1. pending' \in [Jobs -> BOOLEAN]
    BY <1>3, Zenon DEF Poll
  <2>2. events' \in [Jobs -> BOOLEAN]
    BY <1>3 DEF Poll
  <2>3. next' \in [Jobs -> Nat]
    BY <1>3, ParametersAssumption DEF Poll
  <2> QED
    BY <1>3, <2>1, <2>2, <2>3 DEF Poll
<1>4. CASE Begin(j)
  BY <1>4 DEF Begin
<1>5. CASE Sleep(j)
  BY <1>5, ParametersAssumption DEF Sleep
<1>6. CASE Scan(j)
  BY <1>6 DEF Scan
<1>7. CASE CreateFails(j)
  <2>1. /\ unsaved' \in [Jobs -> SUBSET (Dirs \cup {Root})]
        /\ scanned' \in [Jobs -> SUBSET (Dirs \cup {Root})]
    BY <1>7 DEF CreateFails
  <2>2. failures' \in [Jobs -> 0..MaxRetries]
    <3>1. \/ failures' = failures
          \/ failures[j] < MaxRetries /\ failures' = [failures EXCEPT ![j] = failures[j] + 1]
      BY <1>7, Zenon DEF CreateFails
    <3>2. failures \in [Jobs -> 0..MaxRetries] /\ failures[j] \in 0..MaxRetries
      BY Zenon
    <3> HIDE DEF TypeOK
    <3>3. failures[j] < MaxRetries => failures[j] + 1 \in 0..MaxRetries
      BY <3>2 DEF MaxRetries
    <3> QED
      BY ONLY j \in Jobs, <3>1, <3>2, <3>3, UpdateType, Zenon
  <2>3. pending' \in [Jobs -> BOOLEAN] /\ next' \in [Jobs -> Nat]
    <3>1. pending \in [Jobs -> BOOLEAN] /\ next \in [Jobs -> Nat] /\ RetryDelay \in Nat
      BY ParametersAssumption
    <3>2. \/ pending' = pending /\ next' = next
          \/ /\ pending' = [pending EXCEPT ![j] = TRUE]
             /\ next' = [next EXCEPT ![j] = RetryDelay]
      BY <1>7, Zenon DEF CreateFails
    <3>3. TRUE \in BOOLEAN
      OBVIOUS
    <3> QED
      BY ONLY j \in Jobs, <3>1, <3>2, <3>3, UpdateType, Zenon
  <2>4. pc' \in [Jobs -> {"watching", "polling", "deciding", "creating", "packing",
                          "listing", "retaining", "stopped", "done"}]
    BY <1>7 DEF CreateFails
  <2> QED
    BY <1>7, <2>1, <2>2, <2>3, <2>4, Zenon DEF CreateFails
<1>8. ASSUME NEW stamp \in Stamps, CreateSucceeds(j, stamp) PROVE TypeOK'
  BY <1>8 DEF CreateSucceeds, MaxRetries
<1>9. CASE ListExpired(j)
  <2>1. (archives \ current[j]) \ Newest(archives \ current[j], Keep - 1) \in SUBSET Stamps
    OBVIOUS
  <2> QED
    BY <1>9, <2>1 DEF ListExpired
<1>10. CASE RemoveExpired(j)
  BY <1>10 DEF RemoveExpired
<1>11. CASE Complete(j)
  <2>1. CompletedCap \in Nat
    BY ParametersAssumption DEF CompletedCap
  <2> QED
    <3>1. completed' \in [Jobs -> 0..CompletedCap]
      <4> DEFINE v == IF completed[j] < CompletedCap THEN completed[j] + 1 ELSE completed[j]
      <4>1. completed \in [Jobs -> 0..CompletedCap] /\ completed[j] \in 0..CompletedCap
        BY Zenon
      <4>2. completed' = [completed EXCEPT ![j] = v]
        BY <1>11, Zenon DEF Complete
      <4> HIDE DEF TypeOK
      <4>3. v \in 0..CompletedCap
        BY <2>1, <4>1
      <4> QED
        BY ONLY j \in Jobs, <4>1, <4>2, <4>3, UpdateType, Zenon
    <3>2. pending' \in [Jobs -> BOOLEAN] /\ next' \in [Jobs -> Nat]
      <4>1. pending \in [Jobs -> BOOLEAN] /\ next \in [Jobs -> Nat] /\ Interval \in Nat
        BY ParametersAssumption
      <4>2. \/ pending' = pending /\ next' = next
            \/ /\ pending' = [pending EXCEPT ![j] = FALSE]
               /\ next' = [next EXCEPT ![j] = Interval]
        BY <1>11, Zenon DEF Complete
      <4>3. FALSE \in BOOLEAN
        OBVIOUS
      <4> QED
        BY ONLY j \in Jobs, <4>1, <4>2, <4>3, UpdateType, Zenon
    <3> QED
      <4>1. /\ scanned' \in [Jobs -> SUBSET (Dirs \cup {Root})]
            /\ pc' \in [Jobs -> {"watching", "polling", "deciding", "creating", "packing",
                                "listing", "retaining", "stopped", "done"}]
        BY <1>11 DEF Complete
      <4> QED
        BY <1>11, <3>1, <3>2, <4>1, Zenon DEF Complete
<1>12. CASE Stop(j)
  BY <1>12 DEF Stop
<1> QED
  BY <1>1, <1>2, <1>3, <1>4, <1>5, <1>6, <1>7, <1>8, <1>9, <1>10, <1>11, <1>12 DEF JobStep

LEMMA NextType == TypeOK /\ [Next]_vars => TypeOK'
<1> SUFFICES ASSUME TypeOK, [Next]_vars PROVE TypeOK'
  OBVIOUS
<1>1. CASE UNCHANGED vars
  BY <1>1 DEF vars, TypeOK
<1>2. CASE Next
  BY <1>2, SourceStep, JobType DEF Next
<1> QED
  BY <1>1, <1>2

\* The state of BackupEngine::automatic has its type: three retries at most.
THEOREM TypeCorrect == Spec => []TypeOK
  BY InitType, NextType, PTL DEF Spec

-----------------------------------------------------------------------------
LEMMA InitWatch == Realtime /\ Init => WatchInv
<1> SUFFICES ASSUME Realtime, Init PROVE WatchInv
  OBVIOUS
<1>1. Rooted
  BY DEF Init, Rooted, Exists
<1>2. ASSUME NEW j \in Jobs PROVE WatchOK(j)
  BY <1>2 DEF Init, WatchOK, Closed
<1> QED
  BY <1>1, <1>2, InitType DEF WatchInv

\* Other programs.  Before its first snapshot a job has nothing but the
\* watches it began with, so the tree must keep its shape until then.
LEMMA SourceWatch ==
  ASSUME WatchInv, QuietStart,
         \/ \E d \in Dirs \cup {Root} : Modify(d)
         \/ \E d \in Dirs : MakeDirectory(d) \/ RemoveDirectory(d)
  PROVE  WatchInv'
<1> USE DEF WatchInv
<1>1. /\ TypeOK'
      /\ UNCHANGED <<archives, pc, tovisit, pending, next, failures, completed, current,
                     expired, scanned>>
  BY SourceStep
<1>2. ASSUME NEW d \in Dirs \cup {Root}, Modify(d) PROVE WatchInv'
  <2>1. tree' = tree /\ watched' = watched /\ \A j \in Jobs : events[j] => events'[j]
    BY <1>2 DEF Modify, Report
  <2> QED
    BY <1>1, <2>1 DEF Rooted, Exists, WatchOK, Closed
<1>3. ASSUME NEW d \in Dirs, MakeDirectory(d) PROVE WatchInv'
  <2>1. /\ tree' = tree \cup {d} /\ d \notin tree /\ Under[d] \in Exists /\ watched' = watched
        /\ \A j \in Jobs : completed[j] > 0
        /\ \A j \in Jobs : events[j] \/ Under[d] \in watched[j] => events'[j]
    BY <1>3 DEF MakeDirectory, Report, MayRestructure, TypeOK
  <2>2. Rooted'
    BY <2>1 DEF Rooted, Exists
  <2>3. ASSUME NEW j \in Jobs PROVE WatchOK(j)'
    <3>1. completed'[j] # 0
      BY <1>1, <2>1, <2>3 DEF TypeOK
    <3>2. CASE Under[d] \in watched[j]
      BY <1>1, <2>1, <2>3, <3>1, <3>2 DEF WatchOK
    <3>3. CASE Under[d] \notin watched[j]
      BY <1>1, <2>1, <2>3, <3>1, <3>3 DEF WatchOK, Closed
    <3> QED
      BY <3>2, <3>3
  <2> QED
    BY <1>1, <2>2, <2>3
<1>4. ASSUME NEW d \in Dirs, RemoveDirectory(d) PROVE WatchInv'
  <2>1. /\ tree' = tree \ {d} /\ Children(d) = {} /\ d # Root
        /\ watched' = [j \in Jobs |-> watched[j] \ {d}]
        /\ \A j \in Jobs : completed[j] > 0
        /\ \A j \in Jobs : events[j] => events'[j]
    BY <1>4, ParametersAssumption DEF RemoveDirectory, Report, MayRestructure, TypeOK
  <2>2. Rooted'
    BY <2>1 DEF Rooted, Exists, Children
  <2>3. ASSUME NEW j \in Jobs PROVE WatchOK(j)'
    <3>1. completed'[j] # 0
      BY <1>1, <2>1, <2>3 DEF TypeOK
    <3>2. Closed(j) => Closed(j)'
      BY <1>1, <2>1, <2>3 DEF Closed
    <3> QED
      BY <1>1, <2>1, <2>3, <3>1, <3>2 DEF WatchOK
  <2> QED
    BY <1>1, <2>2, <2>3
<1> QED
  BY <1>2, <1>3, <1>4

\* A job's step leaves the tree and the other jobs alone.
LEMMA OtherJobs ==
  ASSUME TypeOK, NEW j \in Jobs, JobStep(j) \/ Stop(j), NEW i \in Jobs, i # j
  PROVE  /\ tree' = tree
         /\ pc'[i] = pc[i] /\ watched'[i] = watched[i] /\ tovisit'[i] = tovisit[i]
         /\ events'[i] = events[i] /\ pending'[i] = pending[i] /\ next'[i] = next[i]
         /\ failures'[i] = failures[i] /\ completed'[i] = completed[i]
<1> USE DEF TypeOK, source
<1>1. CASE \E d \in Dirs \cup {Root} : Visit(j, d)
  BY <1>1 DEF Visit
<1>2. CASE Watched(j) \/ Begin(j) \/ Stop(j)
  BY <1>2 DEF Watched, Begin, Stop
<1>3. CASE Poll(j)
  BY <1>3 DEF Poll
<1>4. CASE Sleep(j) \/ Scan(j)
  BY <1>4 DEF Sleep, Scan
<1>5. CASE CreateFails(j)
  BY <1>5 DEF CreateFails
<1>6. CASE \E stamp \in Stamps : CreateSucceeds(j, stamp)
  BY <1>6 DEF CreateSucceeds
<1>7. CASE ListExpired(j) \/ RemoveExpired(j)
  BY <1>7 DEF ListExpired, RemoveExpired
<1>8. CASE Complete(j)
  BY <1>8 DEF Complete
<1> QED
  BY <1>1, <1>2, <1>3, <1>4, <1>5, <1>6, <1>7, <1>8 DEF JobStep

LEMMA JobWatch ==
  ASSUME WatchInv, Realtime, NEW j \in Jobs, JobStep(j) \/ Stop(j)
  PROVE  WatchInv'
<1>1. TypeOK /\ TypeOK' /\ WatchOK(j) /\ Rooted
  BY JobType DEF WatchInv
<1>2. tree' = tree
  BY DEF JobStep, Visit, Watched, Poll, Begin, Sleep, Scan, CreateFails, CreateSucceeds,
         ListExpired, RemoveExpired, Complete, Stop, source
<1>3. Rooted'
  BY <1>1, <1>2 DEF Rooted, Exists
<1>4. ASSUME NEW i \in Jobs, i # j PROVE WatchOK(i)'
  <2>1. WatchOK(i)
    BY DEF WatchInv
  <2> QED
    BY <1>1, <1>4, <2>1, OtherJobs DEF WatchOK, Closed
<1>5. WatchOK(j)'
  <2> USE <1>1 DEF TypeOK, source
  <2>1. ASSUME NEW d \in Dirs \cup {Root}, Visit(j, d) PROVE WatchOK(j)'
    <3>1. CASE d \in Exists
      <4>1. /\ watched'[j] = watched[j] \cup {d}
            /\ tovisit'[j] = (tovisit[j] \ {d}) \cup Children(d)
            /\ UNCHANGED <<pc, events, pending, completed>>
            /\ pc[j] = "watching"
        BY <2>1, <3>1 DEF Visit
      <4>2. Closed(j) => Closed(j)'
        BY <1>2, <4>1 DEF Closed, Children
      <4> QED
        BY <4>1, <4>2 DEF WatchOK
    <3>2. CASE d \notin Exists
      BY <2>1, <3>2 DEF Visit, WatchOK
    <3> QED
      BY <3>1, <3>2
  <2>2. CASE Watched(j)
    BY <1>2, <2>2 DEF Watched, WatchOK, Closed
  <2>3. CASE Poll(j)
    <3>1. /\ pc[j] = "polling" /\ pc'[j] = "deciding"
          /\ pending'[j] = (pending[j] \/ events[j])
          /\ UNCHANGED <<watched, tovisit, completed>>
      BY <2>3 DEF Poll
    <3>2. Closed(j)' = Closed(j)
      BY <1>2, <3>1 DEF Closed
    <3> QED
      BY <3>1, <3>2 DEF WatchOK
  <2>4. CASE Begin(j)
    <3>1. CASE completed[j] > 0
      BY <1>2, <2>4, <3>1 DEF Begin, WatchOK, Closed
    <3>2. CASE ~(completed[j] > 0)
      <4>1. /\ pc[j] = "deciding" /\ pc'[j] = "creating" /\ completed[j] = 0
            /\ UNCHANGED <<watched, tovisit, events, pending, completed>>
        BY <2>4, <3>2 DEF Begin
      <4> QED
        BY <1>2, <4>1 DEF WatchOK, Closed
    <3> QED
      BY <3>1, <3>2
  <2>5. CASE Sleep(j)
    BY <1>2, <2>5 DEF Sleep, WatchOK, Closed
  <2>6. CASE Scan(j)
    BY <1>2, <2>6 DEF Scan, WatchOK, Closed
  <2>7. CASE CreateFails(j)
    <3>1. /\ pc[j] = "packing" /\ UNCHANGED <<watched, tovisit, events, completed>>
          /\ pc'[j] \in {"polling", "stopped"}
          /\ pc'[j] = "polling" => pending'[j]
      BY <2>7 DEF CreateFails
    <3>2. Closed(j)' = Closed(j)
      BY <1>2, <3>1 DEF Closed
    <3> QED
      BY <3>1, <3>2 DEF WatchOK
  <2>8. ASSUME NEW stamp \in Stamps, CreateSucceeds(j, stamp) PROVE WatchOK(j)'
    BY <1>2, <2>8 DEF CreateSucceeds, WatchOK, Closed
  <2>9. CASE ListExpired(j)
    BY <1>2, <2>9 DEF ListExpired, WatchOK, Closed
  <2>10. CASE RemoveExpired(j)
    BY <1>2, <2>10 DEF RemoveExpired, WatchOK, Closed
  <2>11. CASE Complete(j)
    <3>1. /\ pc[j] = "retaining" /\ UNCHANGED <<watched, tovisit, events>>
          /\ pc'[j] \in {"deciding", "done"}
      BY <2>11 DEF Complete
    <3>2. completed'[j] = 0 => completed[j] = 0
      BY <2>11, ParametersAssumption DEF Complete, CompletedCap
    <3>3. Closed(j)' = Closed(j)
      BY <1>2, <3>1 DEF Closed
    <3> QED
      BY <3>1, <3>2, <3>3 DEF WatchOK
  <2>12. CASE Stop(j)
    BY <2>12 DEF Stop, WatchOK
  <2> QED
    BY <2>1, <2>2, <2>3, <2>4, <2>5, <2>6, <2>7, <2>8, <2>9, <2>10, <2>11, <2>12 DEF JobStep
<1> QED
  BY <1>1, <1>3, <1>4, <1>5 DEF WatchInv

\* With nothing left to visit, a directory that is not watched would have a
\* parent that is not: the tree has no place where that could begin.
LEMMA ClosedIsAll ==
  ASSUME TypeOK, Rooted, NEW j \in Jobs, Closed(j), tovisit[j] = {}
  PROVE  Exists \subseteq watched[j]
<1> DEFINE S == tree \ watched[j]
<1>1. SUFFICES ASSUME S # {} PROVE FALSE
  BY DEF Exists, Closed
<1>2. PICK d \in S : Under[d] \notin S
  BY <1>1, TreeAssumption DEF TypeOK
<1>3. Under[d] \in watched[j]
  BY <1>2 DEF Rooted, Exists, Closed
<1> QED
  BY <1>2, <1>3 DEF Closed

\* A real-time job that waits with an empty queue and nothing pending watches
\* every directory, if the source keeps its shape until the first snapshot.
THEOREM NothingIsMissed ==
  ASSUME QuietStart
  PROVE  Spec => []NoBlindSpot
<1>1. CASE ~Realtime
  <2>1. NoBlindSpot
    BY <1>1 DEF NoBlindSpot
  <2> QED
    BY <2>1, PTL
<1>2. CASE Realtime
  <2>1. Init => WatchInv
    BY <1>2, InitWatch
  <2>2. WatchInv /\ [Next]_vars => WatchInv'
    <3> SUFFICES ASSUME WatchInv, [Next]_vars PROVE WatchInv'
      OBVIOUS
    <3>1. CASE UNCHANGED vars
      <4>1. TypeOK'
        BY <3>1, NextType DEF WatchInv
      <4> QED
        BY <3>1, <4>1 DEF vars, WatchInv, Rooted, Exists, WatchOK, Closed
    <3>2. CASE Next
      BY <1>2, <3>2, SourceWatch, JobWatch DEF Next
    <3> QED
      BY <3>1, <3>2
  <2>3. WatchInv => NoBlindSpot
    BY ClosedIsAll DEF WatchInv, WatchOK, NoBlindSpot
  <2> QED
    BY <2>1, <2>2, <2>3, PTL DEF Spec
<1> QED
  BY <1>1, <1>2

-----------------------------------------------------------------------------
\* A pending change has its deadline: a step that neither fails a snapshot nor
\* ends one never puts it off.
THEOREM DeadlineStays == Spec => DeadlineHolds
<1>1. TypeOK /\ [Next]_vars =>
        [\A j \in Jobs : pending[j] /\ pending'[j] /\ failures'[j] = failures[j] =>
           next'[j] <= next[j]]_vars
  <2> SUFFICES ASSUME TypeOK, Next, NEW j \in Jobs,
                      pending[j], pending'[j], failures'[j] = failures[j]
               PROVE  next'[j] <= next[j]
    OBVIOUS
  <2>1. next[j] \in Nat
    BY DEF TypeOK
  <2>2. CASE next'[j] = next[j]
    BY <2>1, <2>2
  <2>3. CASE \E d \in Dirs \cup {Root} : Modify(d)
    BY <2>1, <2>3, SourceStep
  <2>4. CASE \E d \in Dirs : MakeDirectory(d) \/ RemoveDirectory(d)
    BY <2>1, <2>4, SourceStep
  <2>5. ASSUME NEW i \in Jobs, JobStep(i) \/ Stop(i), i # j PROVE next'[j] <= next[j]
    BY <2>2, <2>5, OtherJobs
  <2>6. CASE JobStep(j) \/ Stop(j)
    <3>1. CASE Poll(j)
      BY <2>2, <3>1 DEF Poll, TypeOK
    <3>2. CASE Sleep(j)
      BY <2>1, <3>2 DEF Sleep, TypeOK
    <3>3. CASE CreateFails(j)
      <4>1. failures[j] \in Nat
        BY DEF TypeOK, MaxRetries
      <4> QED
        BY <2>2, <3>3, <4>1 DEF CreateFails, TypeOK
    <3>4. CASE Complete(j)
      BY <2>2, <3>4 DEF Complete, TypeOK
    <3>5. CASE Watched(j) \/ Begin(j) \/ Scan(j) \/ ListExpired(j) \/ RemoveExpired(j) \/ Stop(j)
               \/ (\E d \in Dirs \cup {Root} : Visit(j, d))
               \/ (\E stamp \in Stamps : CreateSucceeds(j, stamp))
      BY <2>2, <3>5 DEF Watched, Begin, Scan, ListExpired, RemoveExpired, Stop, Visit,
                        CreateSucceeds
    <3> QED
      BY <2>6, <3>1, <3>2, <3>3, <3>4, <3>5 DEF JobStep
  <2> QED
    BY <2>3, <2>4, <2>5, <2>6 DEF Next
<1> QED
  BY <1>1, InitType, NextType, PTL DEF Spec, DeadlineHolds

-----------------------------------------------------------------------------
(* Retention, of a job that runs alone.                                    *)

LEMMA LeastNatural ==
  ASSUME NEW S \in SUBSET Nat, S # {}
  PROVE  \E m \in S : \A k \in S : m <= k
<1>1. PICK m \in S : \A k \in S : ~(<<k, m>> \in OpToRel(<, Nat))
  BY NatLessThanWellFounded, WFMin, Zenon
<1>2. \A k \in S : ~(k < m)
  BY <1>1, Zenon DEF OpToRel
<1> QED
  BY <1>2

\* The greatest of finitely many stamps: the one that fewest are above.
LEMMA MaxIsElement ==
  ASSUME NEW S \in SUBSET Nat, IsFiniteSet(S), S # {}
  PROVE  Max(S) \in S
<1> DEFINE Above(x) == {y \in S : y > x}
           C == {Cardinality(Above(x)) : x \in S}
<1>1. \A x \in S : /\ IsFiniteSet(Above(x)) /\ Cardinality(Above(x)) \in Nat
  BY FS_Subset, FS_CardinalityType
<1>2. PICK m \in S : \A x \in S : Cardinality(Above(m)) <= Cardinality(Above(x))
  <2>1. C \in SUBSET Nat /\ C # {}
    BY <1>1
  <2>2. PICK c \in C : \A e \in C : c <= e
    BY <2>1, LeastNatural
  <2> QED
    BY <2>2
<1>3. \A y \in S : m >= y
  <2> SUFFICES ASSUME NEW y \in S, y > m PROVE FALSE
    BY <1>2
  <2>1. Above(y) \in SUBSET Above(m) /\ y \in Above(m) /\ y \notin Above(y)
    <3>1. m \in Nat /\ y \in Nat /\ \A z \in S : z \in Nat
      OBVIOUS
    <3>2. \A z \in S : z > y => z > m
      BY <3>1
    <3>3. ~(y > y)
      BY <3>1
    <3> QED
      BY <3>2, <3>3
  <2>2. /\ Cardinality(Above(y)) <= Cardinality(Above(m))
        /\ Cardinality(Above(m)) = Cardinality(Above(y)) => Above(m) = Above(y)
    BY <1>1, <2>1, FS_Subset
  <2>3. Cardinality(Above(m)) = Cardinality(Above(y))
    BY <1>1, <1>2, <2>2
  <2> QED
    BY <2>1, <2>2, <2>3
<1> QED
  BY <1>2, <1>3, Zenon DEF Max

\* What retention keeps of the other archives is not more than it should be.
LEMMA NewestAreFew ==
  ASSUME NEW S \in SUBSET Nat, IsFiniteSet(S), NEW n \in Nat
  PROVE  IsFiniteSet(Newest(S, n)) /\ Cardinality(Newest(S, n)) <= n
<1> DEFINE T == Newest(S, n)
           Above(x) == {y \in S : y > x}
<1>1. T \in SUBSET S /\ \A x \in T : Cardinality(Above(x)) < n
  BY DEF Newest
<1>2. IsFiniteSet(T) /\ Cardinality(T) \in Nat
  BY <1>1, FS_Subset, FS_CardinalityType
<1>3. CASE T = {}
  BY <1>2, <1>3, FS_EmptySet
<1>4. CASE T # {}
  <2>1. PICK m \in T : \A k \in T : m <= k
    BY <1>1, <1>4, LeastNatural
  <2>2. T \ {m} \in SUBSET Above(m)
    <3>1. \A x \in T : x \in S /\ x \in Nat /\ m <= x
      BY <1>1, <2>1
    <3>2. \A x \in T : x # m => x > m
      BY <2>1, <3>1
    <3> QED
      BY <3>1, <3>2
  <2>3. IsFiniteSet(Above(m)) /\ Cardinality(Above(m)) \in Nat
    <3>1. Above(m) \in SUBSET S
      OBVIOUS
    <3> HIDE DEF Above
    <3> QED
      BY <3>1, FS_Subset, FS_CardinalityType
  <2>4. Cardinality(T \ {m}) <= Cardinality(Above(m))
    BY <2>2, <2>3, FS_Subset
  <2>5. Cardinality(T \ {m}) = Cardinality(T) - 1
    <3>1. m \in T /\ IsFiniteSet(T)
      BY <1>2, <2>1
    <3> HIDE DEF T
    <3>2. Cardinality(T \ {m}) = IF m \in T THEN Cardinality(T) - 1 ELSE Cardinality(T)
      BY <3>1, FS_RemoveElement, Zenon
    <3> QED
      BY <3>1, <3>2
  <2>6. Cardinality(Above(m)) < n
    BY <1>1, <2>1
  <2>7. Cardinality(T) <= n
    <3> DEFINE t == Cardinality(T)
               u == Cardinality(T \ {m})
               v == Cardinality(Above(m))
    <3>1. t \in Nat /\ u = t - 1 /\ u <= v /\ v < n /\ v \in Nat
      BY <1>2, <2>3, <2>4, <2>5, <2>6
    <3> HIDE DEF t, u, v
    <3>2. t <= n
      BY <3>1
    <3> QED
      BY <3>2 DEF t
  <2> QED
    BY <1>2, <2>7
<1> QED
  BY <1>2, <1>3, <1>4

\* Retention has spared the last archive and enough of the others to have few.
KeepOK(j) ==
  /\ current[j] \subseteq archives
  /\ \A x, y \in current[j] : x = y
  /\ pc[j] = "retaining" =>
       /\ current[j] \cap expired[j] = {}
       /\ Cardinality(archives \ expired[j]) <= Keep
  /\ completed[j] > 0 /\ pc[j] \notin {"listing", "retaining", "stopped"} =>
       Cardinality(archives) <= Keep

\* What retention spares: the last archive and Keep - 1 others.
LEMMA SparedAreFew ==
  ASSUME TypeOK, NEW j \in Jobs, \A x, y \in current[j] : x = y, ListExpired(j)
  PROVE  Cardinality(archives \ expired'[j]) <= Keep
<1> DEFINE previous == archives \ current[j]
           N == Newest(previous, Keep - 1)
<1>1. /\ archives \in SUBSET Nat /\ IsFiniteSet(archives)
      /\ archives \ expired'[j] \in SUBSET (current[j] \cup N)
  BY ParametersAssumption, FS_Subset DEF TypeOK, ListExpired
<1>2. IsFiniteSet(previous) /\ previous \in SUBSET Nat /\ Keep - 1 \in Nat
  <2>1. previous \in SUBSET archives
    OBVIOUS
  <2>2. IsFiniteSet(previous)
    BY <1>1, <2>1, FS_Subset
  <2> QED
    <3>1. previous \in SUBSET Nat
      BY <1>1
    <3>2. Keep - 1 \in Nat
      BY ParametersAssumption
    <3> QED
      BY <2>2, <3>1, <3>2
<1>3. IsFiniteSet(N) /\ Cardinality(N) <= Keep - 1 /\ Cardinality(N) \in Nat
  <2>1. IsFiniteSet(N) /\ Cardinality(N) <= Keep - 1
    <3> HIDE DEF previous
    <3> QED
      BY <1>2, NewestAreFew
  <2> HIDE DEF N
  <2> QED
    BY <2>1, FS_CardinalityType
<1>4. PICK x : current[j] \subseteq {x}
  <2>1. CASE current[j] = {}
    BY <2>1
  <2>2. CASE current[j] # {}
    <3>1. PICK x : x \in current[j]
      BY <2>2
    <3> QED
      BY <3>1
  <2> QED
    BY <2>1, <2>2
<1>5. IsFiniteSet(N \cup {x}) /\ Cardinality(N \cup {x}) <= Cardinality(N) + 1
      /\ Cardinality(N \cup {x}) \in Nat
  <2> HIDE DEF N
  <2>1. /\ IsFiniteSet(N \cup {x})
        /\ Cardinality(N \cup {x}) = IF x \in N THEN Cardinality(N) ELSE Cardinality(N) + 1
    BY <1>3, FS_AddElement, Zenon
  <2> QED
    BY <1>3, <2>1, FS_CardinalityType
<1>6. archives \ expired'[j] \in SUBSET (N \cup {x})
  BY <1>1, <1>4
<1>7. /\ Cardinality(archives \ expired'[j]) <= Cardinality(N \cup {x})
      /\ IsFiniteSet(archives \ expired'[j])
  BY <1>5, <1>6, FS_Subset
<1>8. Cardinality(archives \ expired'[j]) \in Nat
  BY <1>7, FS_CardinalityType
<1> HIDE DEF N
<1> QED
  BY <1>3, <1>5, <1>7, <1>8, ParametersAssumption

LEMMA KeepStep ==
  ASSUME TypeOK, NEW j \in Jobs, KeepOK(j), JobStep(j) \/ Stop(j)
  PROVE  KeepOK(j)'
<1> USE DEF TypeOK, source, KeepOK
<1>1. ASSUME NEW d \in Dirs \cup {Root}, Visit(j, d) PROVE KeepOK(j)'
  BY <1>1 DEF Visit
<1>2. CASE Watched(j)
  BY <1>2 DEF Watched
<1>3. CASE Poll(j)
  BY <1>3 DEF Poll
<1>4. CASE Begin(j)
  BY <1>4 DEF Begin
<1>5. CASE Sleep(j) \/ Scan(j)
  BY <1>5 DEF Sleep, Scan
<1>6. CASE CreateFails(j)
  BY <1>6 DEF CreateFails
<1>7. ASSUME NEW stamp \in Stamps, CreateSucceeds(j, stamp) PROVE KeepOK(j)'
  BY <1>7 DEF CreateSucceeds
<1>8. CASE ListExpired(j)
  <2>1. /\ pc'[j] = "retaining" /\ UNCHANGED <<archives, current, completed>>
        /\ current[j] \cap expired'[j] = {}
    BY <1>8 DEF ListExpired
  <2>2. Cardinality(archives \ expired'[j]) <= Keep
    BY <1>8, SparedAreFew
  <2> QED
    BY <2>1, <2>2
<1>9. CASE RemoveExpired(j)
  <2> DEFINE victim == Max(expired[j])
  <2>1. /\ pc[j] = "retaining" /\ expired[j] # {} /\ archives' = archives \ {victim}
        /\ expired'[j] = expired[j] \ {victim}
        /\ UNCHANGED <<current, completed>>
        /\ pc'[j] \in {"retaining", "stopped"}
    BY <1>9 DEF RemoveExpired
  <2>2. expired[j] \in SUBSET Nat /\ IsFiniteSet(expired[j])
    BY ParametersAssumption, FS_Subset
  <2>3. victim \in expired[j]
    BY <2>1, <2>2, MaxIsElement
  <2> HIDE DEF victim
  <2>4. archives' \ expired'[j] = archives \ expired[j]
    BY <2>1, <2>3
  <2> QED
    BY <2>1, <2>3, <2>4
<1>10. CASE Complete(j)
  <2>1. /\ pc[j] = "retaining" /\ expired[j] = {} /\ UNCHANGED <<archives, current>>
        /\ pc'[j] \in {"deciding", "done"}
    BY <1>10 DEF Complete
  <2>2. archives \ expired[j] = archives
    BY <2>1
  <2> QED
    BY <2>1, <2>2
<1>11. CASE Stop(j)
  BY <1>11 DEF Stop
<1> QED
  BY <1>1, <1>2, <1>3, <1>4, <1>5, <1>6, <1>7, <1>8, <1>9, <1>10, <1>11 DEF JobStep

LEMMA KeepAlways ==
  ASSUME NEW j, Jobs = {j}
  PROVE  Spec => [](TypeOK /\ KeepOK(j))
<1>1. Init => KeepOK(j)
  BY DEF Init, KeepOK, NoArchive
<1>2. TypeOK /\ KeepOK(j) /\ [Next]_vars => KeepOK(j)'
  <2> SUFFICES ASSUME TypeOK, KeepOK(j), [Next]_vars PROVE KeepOK(j)'
    OBVIOUS
  <2>1. CASE UNCHANGED vars
    BY <2>1 DEF vars, KeepOK
  <2>2. CASE \/ \E d \in Dirs \cup {Root} : Modify(d)
             \/ \E d \in Dirs : MakeDirectory(d) \/ RemoveDirectory(d)
    BY <2>2, SourceStep DEF KeepOK
  <2>3. CASE JobStep(j) \/ Stop(j)
    BY <2>3, KeepStep
  <2> QED
    BY <2>1, <2>2, <2>3 DEF Next
<1> QED
  BY <1>1, <1>2, InitType, NextType, PTL DEF Spec

\* A job that runs alone never expires the archive it published last, whatever
\* the wall clock does.
THEOREM LatestIsKept ==
  ASSUME NEW j, Jobs = {j}
  PROVE  Spec => []LatestSurvives
<1>1. KeepOK(j) => LatestSurvives
  BY DEF KeepOK, LatestSurvives
<1> QED
  BY <1>1, KeepAlways, PTL

\* Between two snapshots it leaves at most Keep automatic archives.
THEOREM RetentionIsBounded ==
  ASSUME NEW j, Jobs = {j}
  PROVE  Spec => []RetentionBounds
<1>1. KeepOK(j) => RetentionBounds
  BY DEF KeepOK, RetentionBounds
<1> QED
  BY <1>1, KeepAlways, PTL
=============================================================================
