----------------------------- MODULE SnapshotJob -----------------------------
(***************************************************************************)
(* BackupEngine::automatic (DataBackup/core/automatic.cpp): jobs that take *)
(* snapshots of one source tree into one output directory, on a timer or   *)
(* when inotify reports changes, retry failed snapshots and expire old     *)
(* ones, while other programs change the tree.                             *)
(*                                                                         *)
(* One create() is two steps, its scan and its end, because the tree can   *)
(* change in between.  ChangeWatch::refresh and retainSnapshots walk       *)
(* directories that others change, so each visit and each removal is a     *)
(* step.  Time is a countdown to the variable `next' of the code, in units *)
(* of the polling sleep.                                                   *)
(***************************************************************************)
EXTENDS Naturals, FiniteSets, FiniteSetsExt, TLC

CONSTANTS
  Jobs,       \* concurrent jobs for the same source and output directory
  Dirs,       \* directories the source tree may have, besides Root
  Root,       \* the source directory
  Under,      \* [Dirs -> Dirs or Root]: the parent of each directory
  Realtime,   \* AutomaticOptions.realtime
  Interval,   \* AutomaticOptions.interval, in polling sleeps
  RetryDelay, \* the clamped delay before a retry
  Keep,       \* AutomaticOptions.keep
  MaxBackups, \* AutomaticOptions.maxBackups; 0 is unlimited
  Stamps,     \* wall-clock stamps of archive names; finite
  Earlier,    \* stamps of archives left by earlier runs
  QuietStart  \* TRUE: no directory comes or goes before the first snapshot

ASSUME ParametersAssumption ==
  /\ Root \notin Dirs
  /\ Under \in [Dirs -> Dirs \cup {Root}]
  /\ Realtime \in BOOLEAN /\ QuietStart \in BOOLEAN
  /\ Interval \in Nat \ {0} /\ RetryDelay \in Nat \ {0}
  /\ Keep \in Nat \ {0} /\ MaxBackups \in Nat
  /\ Stamps \subseteq Nat /\ IsFiniteSet(Stamps) /\ Earlier \subseteq Stamps
  /\ Cardinality(Stamps) > Keep + Cardinality(Jobs)
  /\ Cardinality(Stamps) >= Cardinality(Earlier) + Cardinality(Jobs)

\* The directories are a tree below the root.
ASSUME TreeAssumption == \A S \in SUBSET Dirs : S # {} => \E d \in S : Under[d] \notin S

MaxRetries == 3

VARIABLES
  tree,      \* directories that exist
  archives,  \* stamps of this source's automatic archives in the output
  pc,        \* [Jobs -> where the job is]
  watched,   \* [Jobs -> directories with an inotify watch]
  tovisit,   \* [Jobs -> directories refresh has listed but not watched yet]
  events,    \* [Jobs -> the inotify queue holds an event]
  pending,   \* [Jobs -> pending of the code]
  next,      \* [Jobs -> polling sleeps left until `next']
  failures,  \* [Jobs -> failed creates in a row]
  completed, \* [Jobs -> snapshots completed, counted up to CompletedCap]
  current,   \* [Jobs -> the archive the last create published, or none]
  expired,   \* [Jobs -> archives retention has still to remove]
  unsaved,   \* [Jobs -> directories changed since the last scan]
  scanned,   \* [Jobs -> changes the running create has scanned]
  quiet      \* [Jobs -> sleeps since the last reported change, up to Interval]

source == <<tree, unsaved, events, quiet>>
vars == <<tree, archives, pc, watched, tovisit, events, pending, next,
          failures, completed, current, expired, unsaved, scanned, quiet>>

\* The code compares completed with 0 and with a positive maxBackups only.
CompletedCap == IF MaxBackups = 0 THEN 1 ELSE MaxBackups

NoArchive == {}
Finished(j) == pc[j] \in {"stopped", "done"}

Init ==
  /\ tree \in {T \in SUBSET Dirs : \A d \in T : Under[d] \in T \cup {Root}}
  /\ archives = Earlier
  /\ pc = [j \in Jobs |-> IF Realtime THEN "watching" ELSE "polling"]
  /\ watched = [j \in Jobs |-> {}]
  /\ tovisit = [j \in Jobs |-> IF Realtime THEN {Root} ELSE {}]
  /\ events = [j \in Jobs |-> FALSE]
  /\ pending = [j \in Jobs |-> FALSE]
  /\ next = [j \in Jobs |-> 0]
  /\ failures = [j \in Jobs |-> 0]
  /\ completed = [j \in Jobs |-> 0]
  /\ current = [j \in Jobs |-> NoArchive]
  /\ expired = [j \in Jobs |-> {}]
  /\ unsaved = [j \in Jobs |-> tree \cup {Root}]
  /\ scanned = [j \in Jobs |-> {}]
  /\ quiet = [j \in Jobs |-> 0]
-----------------------------------------------------------------------------
\* Other programs change the source tree.

Exists == tree \cup {Root}
Children(d) == {e \in tree : Under[e] = d}

\* A change seen in the directories S reaches every job's next scan, and the
\* inotify queue of the jobs that watch one of them.
Report(S, gone) ==
  /\ unsaved' = [j \in Jobs |-> (unsaved[j] \cup S) \ gone]
  /\ events' = [j \in Jobs |->
       events[j] \/ (S \cup gone) \cap watched[j] # {}]
  /\ quiet' = [j \in Jobs |->
       IF (S \cup gone) \cap watched[j] # {} THEN 0 ELSE quiet[j]]

MayRestructure == QuietStart => \A j \in Jobs : completed[j] > 0

Modify(d) ==
  /\ d \in Exists
  /\ Report({d}, {})
  /\ UNCHANGED <<tree, archives, pc, watched, tovisit, pending, next,
                 failures, completed, current, expired, scanned>>

MakeDirectory(d) ==
  /\ MayRestructure
  /\ d \notin tree
  /\ Under[d] \in Exists
  /\ tree' = tree \cup {d}
  /\ Report({d, Under[d]}, {})
  /\ UNCHANGED <<archives, pc, watched, tovisit, pending, next, failures,
                 completed, current, expired, scanned>>

\* The kernel drops the watch of a directory that is removed.
RemoveDirectory(d) ==
  /\ MayRestructure
  /\ d \in tree
  /\ Children(d) = {}
  /\ tree' = tree \ {d}
  /\ Report({Under[d]}, {d})
  /\ watched' = [j \in Jobs |-> watched[j] \ {d}]
  /\ UNCHANGED <<archives, pc, tovisit, pending, next, failures, completed,
                 current, expired, scanned>>
-----------------------------------------------------------------------------
\* ChangeWatch::refresh.

\* One directory is watched and then listed.  A listed directory that has
\* vanished cannot be watched: the exception ends the job.
Visit(j, d) ==
  /\ pc[j] = "watching"
  /\ d \in tovisit[j]
  /\ IF d \in Exists
       THEN /\ watched' = [watched EXCEPT ![j] = @ \cup {d}]
            /\ tovisit' = [tovisit EXCEPT ![j] = (@ \ {d}) \cup Children(d)]
            /\ UNCHANGED pc
       ELSE /\ pc' = [pc EXCEPT ![j] = "stopped"]
            /\ UNCHANGED <<watched, tovisit>>
  /\ UNCHANGED <<source, archives, pending, next, failures, completed,
                 current, expired, scanned>>

\* The first refresh precedes the loop, later ones precede a create.
Watched(j) ==
  /\ pc[j] = "watching"
  /\ tovisit[j] = {}
  /\ pc' = [pc EXCEPT ![j] =
       IF completed[j] > 0 THEN "creating" ELSE "polling"]
  /\ UNCHANGED <<source, archives, watched, tovisit, pending, next, failures,
                 completed, current, expired, scanned>>
-----------------------------------------------------------------------------
\* The loop of automatic().

\* Mutant of Poll: every change sets the deadline again.
PollDebounced(j) ==
  /\ pc[j] = "polling"
  /\ pc' = [pc EXCEPT ![j] = "deciding"]
  /\ pending' = [pending EXCEPT ![j] = @ \/ events[j]]
  /\ next' = [next EXCEPT ![j] =
       IF events[j] /\ completed[j] > 0 /\ failures[j] = 0 THEN Interval ELSE @]
  /\ events' = [events EXCEPT ![j] = FALSE]
  /\ UNCHANGED <<tree, archives, watched, tovisit, failures, completed,
                 current, expired, unsaved, scanned, quiet>>

\* changed() drains the queue whether or not a change is pending already; a
\* queue of more than 64 batches is not drained completely.  Only the first
\* change sets the deadline, and not while a retry has set one.
Poll(j) ==
  /\ pc[j] = "polling"
  /\ pc' = [pc EXCEPT ![j] = "deciding"]
  /\ pending' = [pending EXCEPT ![j] = @ \/ events[j]]
  /\ next' = [next EXCEPT ![j] =
       IF events[j] /\ ~pending[j] /\ completed[j] > 0 /\ failures[j] = 0
         THEN Interval ELSE @]
  /\ \E left \in {FALSE, events[j]} : events' = [events EXCEPT ![j] = left]
  /\ UNCHANGED <<tree, archives, watched, tovisit, failures, completed,
                 current, expired, unsaved, scanned, quiet>>

Due(j) ==
  /\ completed[j] = 0 \/ ~Realtime \/ pending[j]
  /\ next[j] = 0

\* Mutant of Begin: the watches are never refreshed.
BeginUnwatched(j) ==
  /\ pc[j] = "deciding"
  /\ Due(j)
  /\ pc' = [pc EXCEPT ![j] = "creating"]
  /\ UNCHANGED <<source, archives, watched, tovisit, pending, next, failures,
                 completed, current, expired, scanned>>

\* A due snapshot refreshes the watches first, but the first snapshot relies
\* on those added before the loop.
Begin(j) ==
  /\ pc[j] = "deciding"
  /\ Due(j)
  /\ IF Realtime /\ completed[j] > 0
       THEN /\ pc' = [pc EXCEPT ![j] = "watching"]
            /\ watched' = [watched EXCEPT ![j] = {}]
            /\ tovisit' = [tovisit EXCEPT ![j] = {Root}]
       ELSE /\ pc' = [pc EXCEPT ![j] = "creating"]
            /\ UNCHANGED <<watched, tovisit>>
  /\ UNCHANGED <<source, archives, pending, next, failures, completed,
                 current, expired, scanned>>

Sleep(j) ==
  /\ pc[j] = "deciding"
  /\ ~Due(j)
  /\ pc' = [pc EXCEPT ![j] = "polling"]
  /\ next' = [next EXCEPT ![j] = IF @ > 0 THEN @ - 1 ELSE 0]
  /\ quiet' = [quiet EXCEPT ![j] = IF @ < Interval THEN @ + 1 ELSE @]
  /\ UNCHANGED <<tree, archives, watched, tovisit, events, pending, failures,
                 completed, current, expired, unsaved, scanned>>

\* create() scans the tree: later changes belong to a later snapshot.
Scan(j) ==
  /\ pc[j] = "creating"
  /\ pc' = [pc EXCEPT ![j] = "packing"]
  /\ scanned' = [scanned EXCEPT ![j] = unsaved[j]]
  /\ unsaved' = [unsaved EXCEPT ![j] = {}]
  /\ UNCHANGED <<tree, archives, watched, tovisit, events, pending, next,
                 failures, completed, current, expired, quiet>>

\* Mutant of CreateFails: the failed snapshot's changes are not pending again.
CreateFailsQuietly(j) ==
  /\ pc[j] = "packing"
  /\ unsaved' = [unsaved EXCEPT ![j] = @ \cup scanned[j]]
  /\ scanned' = [scanned EXCEPT ![j] = {}]
  /\ pending' = [pending EXCEPT ![j] = FALSE]
  /\ next' = [next EXCEPT ![j] = RetryDelay]
  /\ pc' = [pc EXCEPT ![j] = "polling"]
  /\ UNCHANGED <<tree, archives, watched, tovisit, events, failures, completed,
                 current, expired, quiet>>

\* Mutant of CreateFails: one retry too many.
CreateFailsOnceMore(j) ==
  /\ pc[j] = "packing"
  /\ unsaved' = [unsaved EXCEPT ![j] = @ \cup scanned[j]]
  /\ scanned' = [scanned EXCEPT ![j] = {}]
  /\ IF failures[j] <= MaxRetries
       THEN /\ failures' = [failures EXCEPT ![j] = @ + 1]
            /\ pc' = [pc EXCEPT ![j] = "polling"]
       ELSE /\ pc' = [pc EXCEPT ![j] = "stopped"]
            /\ UNCHANGED failures
  /\ UNCHANGED <<tree, archives, watched, tovisit, events, pending, next,
                 completed, current, expired, quiet>>

\* create() failed: three retries, then the job ends.
CreateFails(j) ==
  /\ pc[j] = "packing"
  /\ unsaved' = [unsaved EXCEPT ![j] = @ \cup scanned[j]]
  /\ scanned' = [scanned EXCEPT ![j] = {}]
  /\ IF failures[j] < MaxRetries
       THEN /\ failures' = [failures EXCEPT ![j] = @ + 1]
            /\ pending' = [pending EXCEPT ![j] = TRUE]
            /\ next' = [next EXCEPT ![j] = RetryDelay]
            /\ pc' = [pc EXCEPT ![j] = "polling"]
       ELSE /\ pc' = [pc EXCEPT ![j] = "stopped"]
            /\ UNCHANGED <<failures, pending, next>>
  /\ UNCHANGED <<tree, archives, watched, tovisit, events, completed, current,
                 expired, quiet>>

\* create() published the archive; its name carries the wall clock, which may
\* have been set back.
CreateSucceeds(j, stamp) ==
  /\ pc[j] = "packing"
  /\ stamp \notin archives
  /\ archives' = archives \cup {stamp}
  /\ current' = [current EXCEPT ![j] = {stamp}]
  /\ failures' = [failures EXCEPT ![j] = 0]
  /\ pc' = [pc EXCEPT ![j] = "listing"]
  /\ UNCHANGED <<source, watched, tovisit, pending, next, completed, expired,
                 scanned>>

\* Mutant of Newest: one too many is kept.
NewestAndOne(S, n) == {x \in S : Cardinality({y \in S : y > x}) <= n}

\* The archives of S that sort after all but n others of S.
Newest(S, n) == {x \in S : Cardinality({y \in S : y > x}) < n}

\* Mutant of ListExpired: the current archive competes with the others.
ListAllExpired(j) ==
  /\ pc[j] = "listing"
  /\ expired' = [expired EXCEPT ![j] = archives \ Newest(archives, Keep)]
  /\ pc' = [pc EXCEPT ![j] = "retaining"]
  /\ UNCHANGED <<source, archives, watched, tovisit, pending, next, failures,
                 completed, current, scanned>>

\* retainSnapshots lists the output directory without the current archive.
ListExpired(j) ==
  /\ pc[j] = "listing"
  /\ LET previous == archives \ current[j]
     IN  expired' = [expired EXCEPT ![j] = previous \ Newest(previous, Keep - 1)]
  /\ pc' = [pc EXCEPT ![j] = "retaining"]
  /\ UNCHANGED <<source, archives, watched, tovisit, pending, next, failures,
                 completed, current, scanned>>

\* It removes them newest first; one that is gone already ends the job.
RemoveExpired(j) ==
  /\ pc[j] = "retaining"
  /\ expired[j] # {}
  /\ LET victim == Max(expired[j])
     IN  /\ archives' = archives \ {victim}
         /\ expired' = [expired EXCEPT ![j] = @ \ {victim}]
         /\ IF victim \in archives
              THEN UNCHANGED pc
              ELSE pc' = [pc EXCEPT ![j] = "stopped"]
  /\ UNCHANGED <<source, watched, tovisit, pending, next, failures, completed,
                 current, scanned>>

\* The iteration ends: the last one returns, others start a new interval and
\* fall through to the sleep, nothing being due.
Complete(j) ==
  /\ pc[j] = "retaining"
  /\ expired[j] = {}
  /\ completed' = [completed EXCEPT ![j] =
       IF @ < CompletedCap THEN @ + 1 ELSE @]
  /\ scanned' = [scanned EXCEPT ![j] = {}]
  /\ IF MaxBackups > 0 /\ completed[j] + 1 >= MaxBackups
       THEN /\ pc' = [pc EXCEPT ![j] = "done"]
            /\ UNCHANGED <<pending, next>>
       ELSE /\ pc' = [pc EXCEPT ![j] = "deciding"]
            /\ pending' = [pending EXCEPT ![j] = FALSE]
            /\ next' = [next EXCEPT ![j] = Interval]
  /\ UNCHANGED <<source, archives, watched, tovisit, failures, current,
                 expired>>

\* Cancellation, or a watch or file-system error: the job reports and ends.
Stop(j) ==
  /\ ~Finished(j)
  /\ pc' = [pc EXCEPT ![j] = "stopped"]
  /\ UNCHANGED <<source, archives, watched, tovisit, pending, next, failures,
                 completed, current, expired, scanned>>
-----------------------------------------------------------------------------
JobStep(j) ==
  \/ \E d \in Dirs \cup {Root} : Visit(j, d)
  \/ Watched(j)
  \/ Poll(j)
  \/ Begin(j)
  \/ Sleep(j)
  \/ Scan(j)
  \/ CreateFails(j)
  \/ \E stamp \in Stamps : CreateSucceeds(j, stamp)
  \/ ListExpired(j)
  \/ RemoveExpired(j)
  \/ Complete(j)

Next ==
  \/ \E j \in Jobs : JobStep(j) \/ Stop(j)
  \/ \E d \in Dirs \cup {Root} : Modify(d)
  \/ \E d \in Dirs : MakeDirectory(d) \/ RemoveDirectory(d)

Spec == Init /\ [][Next]_vars

\* The job's thread keeps running; nothing obliges anybody to change the tree
\* or to cancel the job.
FairSpec == Spec /\ \A j \in Jobs : WF_vars(JobStep(j))
-----------------------------------------------------------------------------
TypeOK ==
  /\ tree \subseteq Dirs
  /\ archives \subseteq Stamps
  /\ pc \in [Jobs -> {"watching", "polling", "deciding", "creating", "packing",
                      "listing", "retaining", "stopped", "done"}]
  /\ watched \in [Jobs -> SUBSET (Dirs \cup {Root})]
  /\ tovisit \in [Jobs -> SUBSET (Dirs \cup {Root})]
  /\ events \in [Jobs -> BOOLEAN]
  /\ pending \in [Jobs -> BOOLEAN]
  /\ next \in [Jobs -> Nat]
  /\ failures \in [Jobs -> 0..MaxRetries]
  /\ completed \in [Jobs -> 0..CompletedCap]
  /\ current \in [Jobs -> SUBSET Stamps]
  /\ expired \in [Jobs -> SUBSET Stamps]
  /\ unsaved \in [Jobs -> SUBSET (Dirs \cup {Root})]
  /\ scanned \in [Jobs -> SUBSET (Dirs \cup {Root})]
  /\ quiet \in [Jobs -> 0..Interval]

\* Between the end of an iteration and the next archive, a job that runs alone
\* leaves at most Keep automatic archives, those of earlier runs included.
RetentionBounds ==
  \A j \in Jobs :
    completed[j] > 0 /\ pc[j] \notin {"listing", "retaining", "stopped"} =>
      Cardinality(archives) <= Keep

\* The archive a job published last is never expired by that job, even when
\* the clock was set back and its name sorts before older ones.
LatestSurvives == \A j \in Jobs : current[j] \subseteq archives

\* Completed snapshots remain valid: once some job on this source has
\* completed a snapshot, retention never leaves the output without any.
SomeSnapshotRemains ==
  (\E j \in Jobs : completed[j] > 0) => archives # {}

\* A real-time job that waits for changes with an empty queue and nothing
\* pending watches every directory of the tree, so no change can pass by.
NoBlindSpot ==
  \A j \in Jobs :
    /\ Realtime
    /\ completed[j] > 0
    /\ pc[j] \in {"polling", "deciding"}
    /\ ~events[j] /\ ~pending[j]
    => Exists \subseteq watched[j]

\* Continuous events do not reset the deadline: while a change is pending and
\* no create fails, the time left never grows.
DeadlineHolds ==
  [][\A j \in Jobs :
       pending[j] /\ pending'[j] /\ failures'[j] = failures[j] =>
         next'[j] <= next[j]]_vars

\* Every change is in a snapshot whose scan began after it, unless the
\* changed directory is removed or the job ends.
ChangesAreSaved ==
  \A j \in Jobs : \A d \in Dirs \cup {Root} :
    d \in unsaved[j] ~>
      \/ d \in scanned[j] /\ pc[j] = "retaining"
      \/ d \notin Exists
      \/ Finished(j)

\* design.md: a real-time snapshot starts after a whole interval without new
\* events.
QuietBeforeSnapshot ==
  [][\A j \in Jobs :
       pc[j] = "deciding" /\ pc'[j] = "watching" /\ failures[j] = 0 =>
         quiet[j] = Interval]_vars
=============================================================================
