---------------------------- MODULE GuiJobsProofs ----------------------------
(***************************************************************************)
(* What the desktop program promises, for any number of users, jobs and    *)
(* sessions, any tree and any filters, any archives and passwords.         *)
(*                                                                         *)
(* GuiJobs.  Jobs are never removed from the sequence and never change     *)
(* their page, user or revision, so a step is understood by what it does   *)
(* to each of them: Grown relates a job to what it was.  The strengthening *)
(* is about the revision: a job that bears the current one was started for *)
(* the account signed in now.                                              *)
(*                                                                         *)
(* EntryPicker.  The boxes change from an entry up or down the tree, so    *)
(* its facts are proved by taking the least deep, or the deepest, entry    *)
(* that has none of them.  The strengthening is that every directory       *)
(* always shows the summary of its children (Consistent).                  *)
(*                                                                         *)
(* RestoreChecks.  A verdict that is shown, or that a job may still bring, *)
(* is about the form at the revision it was asked for.                     *)
(***************************************************************************)
EXTENDS MCGui, TLAPS, FiniteSetTheorems, WellFoundedInduction

\* What is true of one job in a session s.
Sound(job, s) ==
  /\ job \in Job
  /\ job.page \in RemotePages \/ job.kind = "refresh" => job.user \in Users
  /\ job.revision <= s.revision
  /\ job.kind = "login" =>
       job.user \in Users /\ job.revision < MaxSessions
         /\ (job.revision = s.revision => s.user = NoUser)
  /\ job.kind \in {"refresh", "delete"} /\ job.revision = s.revision =>
       s.user \in Users /\ job.user = s.user
  /\ job.list # {} => job.kind = "refresh"
  /\ job.list \subseteq Backups(job.user)

SessionOK ==
  /\ session \in [user : Users \cup {NoUser}, revision : 0..MaxSessions + 1]
  /\ SignedIn => session.revision <= MaxSessions

GuiInv ==
  /\ TypeOK /\ SessionOK /\ ShownBelongsToAccount /\ ClosedAfterJobs
  /\ \A j \in DOMAIN jobs : Sound(jobs[j], session)

\* A job may have been cancelled and have come nearer to its end.
Waits(job) == job.stage \in {"working", "queued"}
Grown(job, before) ==
  /\ job \in Job
  /\ job.page = before.page /\ job.kind = before.kind
  /\ job.user = before.user /\ job.revision = before.revision
  /\ before.cancelled => job.cancelled
  /\ Waits(job) => Waits(before)
  /\ job.stage # "gone" => before.stage # "gone"
  /\ job.list # {} => job.kind = "refresh"
  /\ job.list \subseteq Backups(job.user)

AllGrown ==
  jobs' \in Seq(Job) /\ DOMAIN jobs' = DOMAIN jobs /\ \A j \in DOMAIN jobs : Grown(jobs'[j], jobs[j])

-----------------------------------------------------------------------------
\* A function on the indices of a sequence is one.
LEMMA Mapped ==
  ASSUME NEW S, NEW q \in Seq(S), NEW f, f = [j \in DOMAIN q |-> f[j]],
         \A j \in DOMAIN q : f[j] \in S
  PROVE  f \in Seq(S) /\ DOMAIN f = DOMAIN q
<1>1. DOMAIN q = 1..Len(q) /\ Len(q) \in Nat
  OBVIOUS
<1>2. f \in [1..Len(q) -> S]
  BY <1>1
<1> QED
  BY <1>1, <1>2

LEMMA AppendedJob ==
  ASSUME jobs \in Seq(Job), NEW job \in Job
  PROVE  /\ Append(jobs, job) \in Seq(Job)
         /\ DOMAIN Append(jobs, job) = DOMAIN jobs \cup {Len(jobs) + 1}
         /\ Len(jobs) + 1 \notin DOMAIN jobs
         /\ \A j \in DOMAIN jobs : Append(jobs, job)[j] = jobs[j]
         /\ Append(jobs, job)[Len(jobs) + 1] = job
  OBVIOUS

\* A job is an old one with some fields renewed.
LEMMA GrownSame ==
  ASSUME NEW job, NEW s, Sound(job, s)
  PROVE  Grown(job, job)
  BY DEF Grown, Sound

LEMMA GrownCancelled ==
  ASSUME NEW job, NEW s, Sound(job, s), NEW c \in BOOLEAN, job.cancelled => c
  PROVE  Grown([job EXCEPT !.cancelled = c], job)
<1>1. job \in Job
  BY DEF Sound
<1>2. [job EXCEPT !.cancelled = c] \in Job
  BY <1>1 DEF Job
<1> QED
  BY <1>1, <1>2 DEF Grown, Sound, Waits, Job

LEMMA GrownTwice ==
  ASSUME NEW a, NEW b, NEW c, Grown(b, a), Grown(c, b)
  PROVE  Grown(c, a)
  BY DEF Grown

LEMMA GrownIsSound ==
  ASSUME NEW job, NEW before, NEW s, Sound(before, s), Grown(job, before)
  PROVE  Sound(job, s)
  BY DEF Grown, Sound, Job

\* Whoever the next user is, what was started before bears an older revision.
LEMMA SoundIsOld ==
  ASSUME NEW job, NEW s, Sound(job, s), s.revision \in Nat, NEW user
  PROVE  Sound(job, [user |-> user, revision |-> s.revision + 1])
<1>1. job.revision \in Nat
  BY ConstantsAssumption DEF Sound, Job
<1> QED
  BY <1>1 DEF Sound

-----------------------------------------------------------------------------
(* What the operations do to the jobs.                                     *)

LEMMA CancelledGrown ==
  ASSUME GuiInv, NEW chosen
  PROVE  /\ Cancelled(chosen) \in Seq(Job) /\ DOMAIN Cancelled(chosen) = DOMAIN jobs
         /\ \A j \in DOMAIN jobs : /\ Grown(Cancelled(chosen)[j], jobs[j])
                                   /\ Cancelled(chosen)[j].stage = jobs[j].stage
                                   /\ j \in chosen => Cancelled(chosen)[j].cancelled
<1> DEFINE after == Cancelled(chosen)
<1>1. ASSUME NEW j \in DOMAIN jobs
      PROVE  /\ Grown(after[j], jobs[j]) /\ after[j].stage = jobs[j].stage
             /\ j \in chosen => after[j].cancelled
  <2>1. Sound(jobs[j], session)
    BY DEF GuiInv
  <2>2. jobs[j].cancelled \in BOOLEAN /\ jobs[j] \in Job
    BY <2>1 DEF Sound, Job
  <2>3. PICK c \in BOOLEAN : c = (jobs[j].cancelled \/ j \in chosen)
    BY <2>2, Zenon
  <2>4. after[j] = [jobs[j] EXCEPT !.cancelled = c]
    BY <2>3, Zenon DEF Cancelled
  <2>5. jobs[j].cancelled => c
    BY <2>3
  <2>6. after[j].stage = jobs[j].stage /\ after[j].cancelled = c
    BY <2>2, <2>4 DEF Job
  <2> QED
    BY <2>1, <2>3, <2>4, <2>5, <2>6, GrownCancelled
<1>2. \A j \in DOMAIN jobs : after[j] \in Job
  BY <1>1 DEF Grown
<1>3. after = [j \in DOMAIN jobs |-> after[j]] /\ jobs \in Seq(Job)
  BY DEF Cancelled, GuiInv, TypeOK
<1>4. after \in Seq(Job) /\ DOMAIN after = DOMAIN jobs
  <2> HIDE DEF after
  <2> QED
    BY <1>2, <1>3, Mapped
<1> QED
  BY <1>1, <1>4

LEMMA WoundGrown ==
  ASSUME GuiInv, NEW all \in Seq(Job), DOMAIN all = DOMAIN jobs,
         \A j \in DOMAIN jobs : Grown(all[j], jobs[j])
  PROVE  /\ Wound(all) \in Seq(Job) /\ DOMAIN Wound(all) = DOMAIN jobs
         /\ \A j \in DOMAIN jobs :
              /\ Grown(Wound(all)[j], jobs[j])
              /\ Wound(all)[j].page \in RemotePages /\ Waits(Wound(all)[j])
                   => Wound(all)[j].cancelled
<1> DEFINE after == Wound(all)
<1>1. ASSUME NEW j \in DOMAIN jobs
      PROVE  /\ Grown(after[j], jobs[j])
             /\ after[j].page \in RemotePages /\ Waits(after[j]) => after[j].cancelled
  <2>1. Sound(all[j], session)
    BY GrownIsSound DEF GuiInv
  <2>2. all[j].cancelled \in BOOLEAN /\ all[j] \in Job
    BY <2>1 DEF Sound, Job
  <2>3. PICK c \in BOOLEAN :
          c = (all[j].cancelled
               \/ (all[j].page \in RemotePages /\ all[j].stage \in {"working", "queued"}))
    BY <2>2, Zenon
  <2>4. after[j] = [all[j] EXCEPT !.cancelled = c]
    BY <2>3, Zenon DEF Wound
  <2>5. all[j].cancelled => c
    BY <2>3
  <2>6. Grown(after[j], all[j])
    BY <2>1, <2>3, <2>4, <2>5, GrownCancelled
  <2>7. /\ after[j].stage = all[j].stage /\ after[j].cancelled = c
        /\ after[j].page = all[j].page
    BY <2>2, <2>4 DEF Job
  <2>8. Grown(after[j], jobs[j])
    BY <2>6, GrownTwice
  <2> QED
    BY <2>3, <2>7, <2>8 DEF Waits
<1>2. \A j \in DOMAIN jobs : after[j] \in Job
  BY <1>1 DEF Grown
<1>3. after = [j \in DOMAIN jobs |-> after[j]] /\ jobs \in Seq(Job)
  BY DEF Wound, GuiInv, TypeOK
<1>4. after \in Seq(Job) /\ DOMAIN after = DOMAIN jobs
  <2> HIDE DEF after
  <2> QED
    BY <1>2, <1>3, Mapped
<1> QED
  BY <1>1, <1>4

\* One job gets another stage, and what belongs to it.
LEMMA OneGrown ==
  ASSUME GuiInv, NEW j \in DOMAIN jobs, NEW job, Grown(job, jobs[j]),
         NEW after, after = [jobs EXCEPT ![j] = job]
  PROVE  /\ after \in Seq(Job) /\ DOMAIN after = DOMAIN jobs
         /\ after[j] = job /\ \A i \in DOMAIN jobs : Grown(after[i], jobs[i])
         /\ \A i \in DOMAIN jobs \ {j} : after[i] = jobs[i]
<1>1. jobs \in Seq(Job) /\ job \in Job
  BY DEF GuiInv, TypeOK, Grown
<1>2. after \in Seq(Job) /\ DOMAIN after = DOMAIN jobs /\ after[j] = job
      /\ \A i \in DOMAIN jobs \ {j} : after[i] = jobs[i]
  BY <1>1
<1>3. \A i \in DOMAIN jobs : Grown(jobs[i], jobs[i])
  BY GrownSame DEF GuiInv
<1> QED
  BY <1>2, <1>3

LEMMA ReportedGrown ==
  ASSUME GuiInv, NEW j \in DOMAIN jobs, jobs[j].stage = "queued"
  PROVE  /\ Reported(j) \in Seq(Job) /\ DOMAIN Reported(j) = DOMAIN jobs
         /\ \A i \in DOMAIN jobs : Grown(Reported(j)[i], jobs[i])
<1> DEFINE job == [jobs[j] EXCEPT !.stage = "reported", !.list = {}, !.previous = NoId,
                                 !.typed = FALSE]
<1>1. Sound(jobs[j], session) /\ jobs[j] \in Job
  BY DEF GuiInv, Sound
<1>2. job \in Job
  BY <1>1 DEF Job, Stages
<1>3. Grown(job, jobs[j])
  BY <1>1, <1>2 DEF Grown, Waits, Job
<1>4. Reported(j) = [jobs EXCEPT ![j] = job]
  BY DEF Reported
<1> HIDE DEF job
<1> QED
  BY <1>3, <1>4, OneGrown

-----------------------------------------------------------------------------
(* What the invariant says of the next state, piece by piece.              *)

OnePerPage ==
  \A i, j \in DOMAIN jobs : jobs[i].page = jobs[j].page /\ Unreported(i) /\ Unreported(j) => i = j
NoneActive == \A j \in DOMAIN jobs : ~Active(j)

LEMMA GrownKeeps ==
  ASSUME GuiInv, AllGrown
  PROVE  /\ OnePerPage' /\ (NoneActive => NoneActive')
         /\ \A j \in DOMAIN jobs' : Sound(jobs'[j], session)
<1>1. OnePerPage'
  BY DEF GuiInv, TypeOK, OnePerPage, AllGrown, Grown, Unreported, Waits
<1>2. NoneActive => NoneActive'
  BY DEF NoneActive, Active, AllGrown, Grown
<1>3. \A j \in DOMAIN jobs' : Sound(jobs'[j], session)
  BY GrownIsSound DEF GuiInv, AllGrown
<1> QED
  BY <1>1, <1>2, <1>3

LEMMA StartedKeeps ==
  ASSUME GuiInv, NEW page \in Pages, NEW kind \in Kinds, NEW user \in Users \cup {NoUser},
         StartJob(page, kind, user), Sound(NewJob(page, kind, user), session)
  PROVE  /\ jobs' \in Seq(Job) /\ OnePerPage'
         /\ \A j \in DOMAIN jobs' : Sound(jobs'[j], session)
<1> DEFINE job == NewJob(page, kind, user)
<1>1. job \in Job /\ jobs \in Seq(Job) /\ job.page = page
  BY DEF Sound, GuiInv, TypeOK, NewJob
<1>2. jobs' = Append(jobs, job)
  BY DEF StartJob
<1>5. \A j \in DOMAIN jobs : jobs[j].page = page => ~Unreported(j)
  BY DEF StartJob, Running
<1>6. Sound(job, session)
  OBVIOUS
<1> HIDE DEF job
<1>3. /\ jobs' \in Seq(Job) /\ DOMAIN jobs' = DOMAIN jobs \cup {Len(jobs) + 1}
      /\ Len(jobs) + 1 \notin DOMAIN jobs
      /\ \A j \in DOMAIN jobs : jobs'[j] = jobs[j]
      /\ jobs'[Len(jobs) + 1] = job
  BY <1>1, <1>2, AppendedJob
<1>4. OnePerPage'
  BY <1>1, <1>3, <1>5 DEF GuiInv, TypeOK, OnePerPage, Unreported
<1>7. \A j \in DOMAIN jobs' : Sound(jobs'[j], session)
  BY <1>3, <1>6 DEF GuiInv
<1> QED
  BY <1>3, <1>4, <1>7

LEMMA ChangedKeeps ==
  ASSUME GuiInv, NEW user \in Users \cup {NoUser}, Changed(user),
         session.revision <= MaxSessions, user # NoUser => session.revision < MaxSessions
  PROVE  /\ SessionOK' /\ ShownBelongsToAccount'
         /\ history' = {} /\ items' = {} /\ text' \in (Users \X Numbers) \cup {NoId}
         /\ fromItem' = FALSE /\ typed' \in BOOLEAN
         /\ \A job : Sound(job, session) => Sound(job, session')
<1>1. /\ session' = [user |-> user, revision |-> session.revision + 1]
      /\ session.revision \in Nat /\ MaxSessions \in Nat
  BY ConstantsAssumption DEF Changed, GuiInv, SessionOK
<1>2. SessionOK'
  BY <1>1 DEF SessionOK, SignedIn
<1>3. /\ history' = {} /\ items' = {} /\ fromItem' = FALSE
      /\ text' \in (Users \X Numbers) \cup {NoId}
  BY DEF Changed, DropStaleList, GuiInv, TypeOK
<1>4. typed' \in BOOLEAN
  BY Zenon DEF Changed, DropStaleList
<1>5. ShownBelongsToAccount'
  BY <1>3 DEF ShownBelongsToAccount
<1>6. \A job : Sound(job, session) => Sound(job, session')
  BY <1>1, SoundIsOld
<1> QED
  BY <1>2, <1>3, <1>4, <1>5, <1>6

\* The state apart from the jobs has its types, and the jobs are sound: all
\* that the invariant says but for the pages and the window.
LEMMA Assembled ==
  ASSUME (/\ session.user \in Users \cup {NoUser} /\ session.revision \in 0..MaxSessions + 1
          /\ jobs \in Seq(Job)
          /\ history \subseteq Users \X Numbers /\ items \subseteq Users \X Numbers
          /\ text \in (Users \X Numbers) \cup {NoId} /\ fromItem \in BOOLEAN /\ typed \in BOOLEAN
          /\ fromItem => text \in items
          /\ asking \in Users \cup {NoUser} /\ window \in {"open", "closing", "closed"}
          /\ OnePerPage)'
  PROVE  TypeOK'
  BY DEF TypeOK, OnePerPage

\* A step that only lets jobs grow.
LEMMA OnlyGrown ==
  ASSUME GuiInv, AllGrown, UNCHANGED <<session, history, combo>>,
         asking' \in Users \cup {NoUser}, window' \in {"open", "closing", "closed"},
         window' = "closed" => window = "closed" \/ NoneActive'
  PROVE  GuiInv'
<1>1. /\ OnePerPage' /\ (NoneActive => NoneActive')
      /\ \A j \in DOMAIN jobs' : Sound(jobs'[j], session')
  BY GrownKeeps DEF combo
<1>2. TypeOK'
  BY <1>1, Assembled DEF GuiInv, TypeOK, AllGrown, combo
<1>3. SessionOK' /\ ShownBelongsToAccount'
  BY DEF GuiInv, SessionOK, ShownBelongsToAccount, SignedIn, combo
<1>4. ClosedAfterJobs'
  BY <1>1 DEF GuiInv, ClosedAfterJobs, NoneActive
<1> QED
  BY <1>1, <1>2, <1>3, <1>4 DEF GuiInv

\* A step that starts a job.
LEMMA OnlyStarted ==
  ASSUME GuiInv, NEW page \in Pages, NEW kind \in Kinds, NEW user \in Users \cup {NoUser},
         StartJob(page, kind, user), Sound(NewJob(page, kind, user), session),
         UNCHANGED <<session, history, combo, window>>, window # "closed",
         asking' \in Users \cup {NoUser}
  PROVE  GuiInv'
<1>1. /\ jobs' \in Seq(Job) /\ OnePerPage'
      /\ \A j \in DOMAIN jobs' : Sound(jobs'[j], session')
  BY StartedKeeps DEF combo
<1>2. TypeOK'
  BY <1>1, Assembled DEF GuiInv, TypeOK, combo
<1>3. SessionOK' /\ ShownBelongsToAccount' /\ ClosedAfterJobs'
  BY DEF GuiInv, SessionOK, ShownBelongsToAccount, ClosedAfterJobs, SignedIn, combo
<1> QED
  BY <1>1, <1>2, <1>3 DEF GuiInv

\* A step that ends a session, or begins one.
LEMMA OnlyChanged ==
  ASSUME GuiInv, AllGrown, NEW user \in Users \cup {NoUser}, Changed(user),
         session.revision <= MaxSessions, user # NoUser => session.revision < MaxSessions,
         UNCHANGED <<asking, window>>
  PROVE  GuiInv'
<1>1. /\ SessionOK' /\ ShownBelongsToAccount'
      /\ history' = {} /\ items' = {} /\ text' \in (Users \X Numbers) \cup {NoId}
      /\ fromItem' = FALSE /\ typed' \in BOOLEAN
      /\ \A job : Sound(job, session) => Sound(job, session')
  BY ChangedKeeps
<1>2. /\ OnePerPage' /\ (NoneActive => NoneActive')
      /\ \A j \in DOMAIN jobs' : Sound(jobs'[j], session')
  BY <1>1, GrownKeeps
<1>3. TypeOK'
  <2>1. session'.user \in Users \cup {NoUser} /\ session'.revision \in 0..MaxSessions + 1
    BY <1>1 DEF SessionOK
  <2> QED
    BY <1>1, <1>2, <2>1, Assembled DEF GuiInv, TypeOK, AllGrown
<1>4. ClosedAfterJobs'
  BY <1>2 DEF GuiInv, ClosedAfterJobs, NoneActive
<1> QED
  BY <1>1, <1>2, <1>3, <1>4 DEF GuiInv

-----------------------------------------------------------------------------
LEMMA InitInv == Init => GuiInv
<1> SUFFICES ASSUME Init PROVE GuiInv
  OBVIOUS
<1>1. jobs = <<>> /\ jobs \in Seq(Job) /\ DOMAIN jobs = {}
  BY DEF Init
<1>2. SessionOK /\ session.user = NoUser /\ ~SignedIn
  BY ConstantsAssumption DEF Init, SessionOK, SignedIn
<1>3. TypeOK
  BY <1>1, <1>2 DEF Init, TypeOK, SessionOK
<1>4. ShownBelongsToAccount /\ ClosedAfterJobs
  BY DEF Init, ShownBelongsToAccount, ClosedAfterJobs
<1> QED
  BY <1>1, <1>2, <1>3, <1>4 DEF GuiInv

\* A new job of the session that is current.
LEMMA NewIsSound ==
  ASSUME GuiInv, NEW page \in Pages, NEW kind \in Kinds, NEW user \in Users \cup {NoUser},
         page \in RemotePages => user \in Users,
         kind = "login" => user \in Users /\ ~SignedIn /\ session.revision < MaxSessions,
         kind \in {"refresh", "delete"} => SignedIn /\ user = session.user
  PROVE  Sound(NewJob(page, kind, user), session)
<1>1. /\ text \in (Users \X Numbers) \cup {NoId} /\ typed \in BOOLEAN
      /\ session.revision \in 0..MaxSessions + 1 /\ session.user \in Users \cup {NoUser}
      /\ MaxSessions \in Nat
  BY ConstantsAssumption DEF GuiInv, TypeOK
<1>2. NewJob(page, kind, user) \in Job
  BY <1>1 DEF NewJob, Job, Stages
<1> QED
  BY <1>1, <1>2 DEF NewJob, Sound, SignedIn, Backups

LEMMA StartInv == ASSUME GuiInv, Start PROVE GuiInv'
<1> USE DEF Pages, Kinds
<1>0. asking' \in Users \cup {NoUser} /\ window # "closed" /\ session.user \in Users \cup {NoUser}
  BY DEF Start, Ready, GuiInv, TypeOK
<1>1. CASE StartJob("local", IF Watching THEN "watch" ELSE "create", NoUser)
  <2>1. PICK kind \in {"watch", "create"} : kind = IF Watching THEN "watch" ELSE "create"
    OBVIOUS
  <2>2. Sound(NewJob("local", kind, NoUser), session)
    BY NewIsSound DEF RemotePages
  <2>3. StartJob("local", kind, NoUser)
    BY <1>1, <2>1
  <2> QED
    BY <1>0, <2>2, <2>3, OnlyStarted DEF Start
<1>2. CASE SignedIn /\ StartJob("backup", "upload", session.user)
  <2>1. Sound(NewJob("backup", "upload", session.user), session)
    BY <1>0, <1>2, NewIsSound DEF SignedIn
  <2> QED
    BY <1>0, <1>2, <2>1, OnlyStarted DEF Start
<1>3. ASSUME SignedIn, NEW page \in {"restore", "history"}, StartJob(page, "refresh", session.user)
      PROVE  GuiInv'
  <2>1. Sound(NewJob(page, "refresh", session.user), session)
    BY <1>0, <1>3, NewIsSound DEF SignedIn
  <2> QED
    BY <1>0, <1>3, <2>1, OnlyStarted DEF Start
<1>4. CASE SignedIn /\ StartJob("account", "delete", session.user)
  <2>1. Sound(NewJob("account", "delete", session.user), session)
    BY <1>0, <1>4, NewIsSound DEF RemotePages
  <2> QED
    BY <1>0, <1>4, <2>1, OnlyStarted DEF Start
<1>5. ASSUME ~SignedIn, session.revision < MaxSessions, NEW u \in Users,
             StartJob("account", "login", u)
      PROVE  GuiInv'
  <2>1. Sound(NewJob("account", "login", u), session)
    BY <1>5, NewIsSound DEF RemotePages
  <2> QED
    BY <1>0, <1>5, <2>1, OnlyStarted DEF Start
<1> QED
  BY <1>1, <1>2, <1>3, <1>4, <1>5 DEF Start

LEMMA RestoreInv == ASSUME GuiInv, Restore \/ Confirm PROVE GuiInv'
<1> USE DEF Pages, Kinds, RemotePages
<1>1. ASSUME NEW user \in Users, StartJob("restore", "restore", user), window # "closed",
             asking' \in Users \cup {NoUser}, UNCHANGED <<session, history, combo, window>>
      PROVE  GuiInv'
  <2>1. Sound(NewJob("restore", "restore", user), session)
    BY NewIsSound
  <2> QED
    BY <1>1, <2>1, OnlyStarted
<1>2. ASSUME UNCHANGED <<session, history, combo, window, jobs>>, asking' \in Users \cup {NoUser}
      PROVE  GuiInv'
  <2>1. AllGrown
    BY <1>2, GrownSame DEF GuiInv, TypeOK, AllGrown
  <2> QED
    BY <1>2, <2>1, OnlyGrown DEF GuiInv, TypeOK
<1>3. CASE Restore
  <2>1. session.user \in Users /\ window # "closed"
    BY <1>3 DEF Restore, SignedIn, Ready, GuiInv, TypeOK
  <2>2. CASE MayAsk
    BY <1>2, <1>3, <2>1, <2>2 DEF Restore
  <2>3. CASE ~MayAsk
    BY <1>1, <1>3, <2>1, <2>3 DEF Restore, GuiInv, TypeOK
  <2> QED
    BY <2>2, <2>3
<1>4. CASE Confirm
  <2>1. asking \in Users
    BY <1>4 DEF Confirm, GuiInv, TypeOK
  <2>2. CASE UNCHANGED jobs
    BY <1>2, <1>4, <2>2 DEF Confirm
  <2>3. CASE window # "closed" /\ StartJob("restore", "restore", asking)
    BY <1>1, <1>4, <2>1, <2>3 DEF Confirm
  <2> QED
    BY <1>4, <2>2, <2>3 DEF Confirm
<1> QED
  BY <1>3, <1>4

LEMMA CancelInv == ASSUME GuiInv, CancelJob \/ Close PROVE GuiInv'
<1>1. CASE CancelJob
  <2>1. PICK page \in Pages : jobs' = Cancelled(UnreportedOf(page))
    BY <1>1 DEF CancelJob
  <2>2. AllGrown
    BY <2>1, CancelledGrown DEF AllGrown
  <2> QED
    BY <1>1, <2>2, OnlyGrown DEF CancelJob, GuiInv, TypeOK
<1>2. CASE Close
  <2>1. /\ AllGrown
        /\ \A j \in DOMAIN jobs : jobs'[j].stage = jobs[j].stage
    BY <1>2, CancelledGrown DEF Close, AllGrown
  <2>2. AllActive = {} => NoneActive'
    BY <2>1 DEF AllActive, NoneActive, Active, AllGrown
  <2> QED
    BY <1>2, <2>1, <2>2, OnlyGrown DEF Close, GuiInv, TypeOK
<1> QED
  BY <1>1, <1>2

LEMMA SignOutInv == ASSUME GuiInv, SignOut PROVE GuiInv'
<1>1. AllGrown
  BY CancelledGrown, WoundGrown DEF SignOut, AllGrown
<1>2. session.revision <= MaxSessions
  BY DEF SignOut, GuiInv, SessionOK
<1> QED
  BY <1>1, <1>2, OnlyChanged DEF SignOut

LEMMA BoxInv == ASSUME GuiInv, TakeFromHistory \/ SelectItem \/ TypeId PROVE GuiInv'
<1>1. /\ UNCHANGED <<session, jobs, history, items, asking, window>>
      /\ text' \in Users \X Numbers /\ fromItem' \in BOOLEAN /\ typed' \in BOOLEAN
      /\ fromItem' => text' \in items
  BY ConstantsAssumption DEF TakeFromHistory, SelectItem, TypeId, GuiInv, TypeOK
<1> QED
  BY <1>1 DEF GuiInv, TypeOK, SessionOK, SignedIn, ShownBelongsToAccount, ClosedAfterJobs, Active,
     Unreported

LEMMA JobEndsInv == ASSUME GuiInv, NEW j \in DOMAIN jobs, JobEnds(j) PROVE GuiInv'
<1>1. PICK ok \in BOOLEAN,
           list \in SUBSET (IF jobs[j].kind = "refresh" THEN Backups(jobs[j].user) ELSE {}) :
        jobs' = [jobs EXCEPT ![j].stage = "queued", ![j].ok = ok, ![j].list = list]
  BY DEF JobEnds
<1> DEFINE job == [jobs[j] EXCEPT !.stage = "queued", !.ok = ok, !.list = list]
<1>2. Sound(jobs[j], session) /\ jobs[j] \in Job /\ jobs[j].stage = "working"
  BY DEF GuiInv, Sound, JobEnds
<1>3. list \subseteq Backups(jobs[j].user) /\ (list # {} => jobs[j].kind = "refresh")
  OBVIOUS
<1>4. list \subseteq Users \X Numbers
  <2>1. CASE list = {}
    BY <2>1
  <2>2. CASE list # {}
    <3>1. \A id \in list : id \in Users \X Numbers
      BY <1>2, <1>3, <2>2 DEF Sound, Job, Backups, GuiInv
    <3> QED
      BY <3>1
  <2> QED
    BY <2>1, <2>2
<1>5. job \in Job
  BY <1>2, <1>4 DEF Job, Stages
<1>6. Grown(job, jobs[j])
  BY <1>2, <1>3, <1>5 DEF Grown, Waits, Job
<1>7. jobs' = [jobs EXCEPT ![j] = job]
  BY <1>1
<1> HIDE DEF job
<1>8. AllGrown
  BY <1>6, <1>7, OneGrown DEF AllGrown
<1> QED
  BY <1>8, OnlyGrown DEF JobEnds, GuiInv, TypeOK

\* A list that is expected belongs to the account that is signed in.
LEMMA ReportInv == ASSUME GuiInv, NEW j \in DOMAIN jobs, Report(j) PROVE GuiInv'
<1>1. /\ Sound(jobs[j], session) /\ jobs[j] \in Job /\ jobs[j].stage = "queued"
      /\ UNCHANGED <<asking, window>>
  BY DEF GuiInv, Sound, Report
<1>2. /\ Reported(j) \in Seq(Job) /\ DOMAIN Reported(j) = DOMAIN jobs
      /\ \A i \in DOMAIN jobs : Grown(Reported(j)[i], jobs[i])
  BY <1>1, ReportedGrown
<1> DEFINE shown == jobs[j].ok /\ jobs[j].kind \in {"login", "delete", "refresh"} /\ Expected(j)
<1>3. CASE ~shown
  <2>1. AllGrown /\ UNCHANGED <<session, history, combo>>
    BY <1>2, <1>3 DEF Report, AllGrown
  <2> QED
    BY <1>1, <2>1, OnlyGrown DEF GuiInv, TypeOK
<1>4. CASE shown /\ jobs[j].kind = "login"
  <2>1. AllGrown /\ Changed(jobs[j].user)
    BY <1>2, <1>4 DEF Report, AllGrown
  <2>2. jobs[j].user \in Users /\ session.revision < MaxSessions
    BY <1>1, <1>4 DEF Sound, Expected
  <2>3. session.revision <= MaxSessions
    BY <2>2, ConstantsAssumption DEF GuiInv, TypeOK
  <2> QED
    BY <1>1, <2>1, <2>2, <2>3, OnlyChanged
<1>5. CASE shown /\ jobs[j].kind = "delete"
  <2>1. AllGrown /\ Changed(NoUser)
    BY <1>2, <1>5, WoundGrown DEF Report, AllGrown
  <2>2. session.revision <= MaxSessions
    BY <1>1, <1>5, ConstantsAssumption DEF Sound, Expected, GuiInv, SessionOK, SignedIn
  <2> QED
    BY <1>1, <2>1, <2>2, OnlyChanged
<1>6. CASE shown /\ jobs[j].kind = "refresh"
  <2>1. AllGrown /\ ShowList(j) /\ UNCHANGED session
    BY <1>2, <1>6 DEF Report, AllGrown
  <2> DEFINE list == jobs[j].list
             previous == jobs[j].previous
  <2>2. /\ SignedIn /\ list \subseteq Backups(session.user) /\ list \subseteq Users \X Numbers
        /\ previous \in (Users \X Numbers) \cup {NoId}
    BY <1>1, <1>6, ConstantsAssumption DEF Sound, Expected, Job, SignedIn
  <2>3. \/ history' = list /\ UNCHANGED combo
        \/ /\ items' = list /\ UNCHANGED history
           /\ fromItem' = (previous \in list \/ (previous = NoId /\ list # {}))
           /\ text' = IF previous = NoId /\ list # {} THEN FirstItem(list) ELSE previous
           /\ typed' = (jobs[j].typed /\ previous \notin list)
    BY <2>1 DEF ShowList
  <2>4. list # {} => FirstItem(list) \in list
    BY DEF FirstItem
  <2>5. fromItem' \in BOOLEAN
    <3>1. (previous \in list \/ (previous = NoId /\ list # {})) \in BOOLEAN
      BY Zenon
    <3> QED
      BY <2>3, <3>1, Zenon DEF combo, GuiInv, TypeOK
  <2>6. typed' \in BOOLEAN
    <3>1. (jobs[j].typed /\ previous \notin list) \in BOOLEAN
      BY Zenon
    <3> QED
      BY <2>3, <3>1, Zenon DEF combo, GuiInv, TypeOK
  <2>7. text' \in (Users \X Numbers) \cup {NoId} /\ (fromItem' => text' \in items')
    <3>1. CASE UNCHANGED combo
      BY <3>1 DEF combo, GuiInv, TypeOK
    <3>2. CASE /\ items' = list
               /\ fromItem' = (previous \in list \/ (previous = NoId /\ list # {}))
               /\ text' = IF previous = NoId /\ list # {} THEN FirstItem(list) ELSE previous
      <4>1. CASE previous = NoId /\ list # {}
        BY <2>2, <2>4, <3>2, <4>1
      <4>2. CASE ~(previous = NoId /\ list # {})
        <5>1. text' = previous /\ (fromItem' => previous \in list)
          BY <3>2, <4>2
        <5> QED
          BY <2>2, <3>2, <5>1
      <4> QED
        BY <4>1, <4>2
    <3> QED
      BY <2>3, <3>1, <3>2
  <2>8. /\ history' \subseteq Users \X Numbers /\ items' \subseteq Users \X Numbers
        /\ history' \cup items' \subseteq Backups(session.user)
    BY <2>2, <2>3 DEF combo, GuiInv, TypeOK, ShownBelongsToAccount
  <2>9. /\ OnePerPage' /\ (NoneActive => NoneActive')
        /\ \A i \in DOMAIN jobs' : Sound(jobs'[i], session')
    BY <2>1, GrownKeeps
  <2>10. TypeOK'
    BY <1>1, <2>1, <2>5, <2>6, <2>7, <2>8, <2>9, Assembled DEF GuiInv, TypeOK, AllGrown
  <2>11. SessionOK' /\ ShownBelongsToAccount'
    BY <2>1, <2>2, <2>8 DEF GuiInv, SessionOK, ShownBelongsToAccount, SignedIn, Backups
  <2>12. ClosedAfterJobs'
    BY <1>1, <2>9 DEF GuiInv, ClosedAfterJobs, NoneActive
  <2> QED
    BY <2>9, <2>10, <2>11, <2>12 DEF GuiInv
<1> QED
  BY <1>3, <1>4, <1>5, <1>6

LEMMA FinishedInv == ASSUME GuiInv, NEW j \in DOMAIN jobs, ThreadFinished(j) PROVE GuiInv'
<1> DEFINE job == [jobs[j] EXCEPT !.stage = "gone"]
<1>1. Sound(jobs[j], session) /\ jobs[j] \in Job /\ jobs[j].stage = "reported"
  BY DEF GuiInv, Sound, ThreadFinished
<1>2. job \in Job
  BY <1>1 DEF Job, Stages
<1>3. Grown(job, jobs[j]) /\ job.stage = "gone"
  BY <1>1, <1>2 DEF Grown, Waits, Job, Sound
<1>4. jobs' = [jobs EXCEPT ![j] = job]
  BY DEF ThreadFinished
<1> HIDE DEF job
<1>5. AllGrown /\ jobs'[j] = job /\ \A i \in DOMAIN jobs \ {j} : jobs'[i] = jobs[i]
  BY <1>3, <1>4, OneGrown DEF AllGrown
<1>6. (\A i \in DOMAIN jobs \ {j} : ~Active(i)) => NoneActive'
  BY <1>3, <1>5 DEF NoneActive, Active, AllGrown
<1> QED
  BY <1>5, <1>6, OnlyGrown DEF ThreadFinished, GuiInv, TypeOK

LEMMA NextInv == GuiInv /\ [Next]_vars => GuiInv'
<1> SUFFICES ASSUME GuiInv, [Next]_vars PROVE GuiInv'
  OBVIOUS
<1>1. CASE UNCHANGED vars
  BY <1>1 DEF vars, combo, GuiInv, TypeOK, SessionOK, SignedIn, ShownBelongsToAccount,
     ClosedAfterJobs, Active, Unreported
<1>2. CASE Next
  BY <1>2, StartInv, RestoreInv, CancelInv, SignOutInv, BoxInv, JobEndsInv, ReportInv, FinishedInv
     DEF Next
<1> QED
  BY <1>1, <1>2

LEMMA SpecInv == Spec => []GuiInv
  BY InitInv, NextInv, PTL DEF Spec

-----------------------------------------------------------------------------
(* Credentials.  Without a question between reading the session and using  *)
(* it, a job of a session that has ended has been told to stop.            *)

Contained == GuiInv /\ asking = NoUser /\ JobsBelongToSession

LEMMA ContainedGrown ==
  ASSUME GuiInv, AllGrown, JobsBelongToSession, UNCHANGED session
  PROVE  JobsBelongToSession'
<1> SUFFICES ASSUME NEW j \in DOMAIN jobs,
                    jobs'[j].page \in RemotePages, Unreported(j)', ~jobs'[j].cancelled
             PROVE  jobs'[j].user = session.user
  BY DEF JobsBelongToSession, AllGrown
<1>1. Grown(jobs'[j], jobs[j])
  BY DEF AllGrown
<1>2. /\ jobs[j].page \in RemotePages /\ Unreported(j) /\ ~jobs[j].cancelled
      /\ jobs'[j].user = jobs[j].user
  BY <1>1 DEF Grown, Unreported, Waits
<1> QED
  BY <1>2 DEF JobsBelongToSession

LEMMA ContainedStarted ==
  ASSUME GuiInv, JobsBelongToSession, NEW page, NEW kind, NEW user, StartJob(page, kind, user),
         page \in RemotePages => user = session.user, UNCHANGED session,
         NewJob(page, kind, user) \in Job
  PROVE  JobsBelongToSession'
<1> DEFINE job == NewJob(page, kind, user)
<1>1. job \in Job /\ jobs \in Seq(Job) /\ job.page = page /\ job.user = user
  BY DEF GuiInv, TypeOK, NewJob
<1>2. jobs' = Append(jobs, job)
  BY DEF StartJob
<1> HIDE DEF job
<1>3. /\ DOMAIN jobs' = DOMAIN jobs \cup {Len(jobs) + 1}
      /\ \A j \in DOMAIN jobs : jobs'[j] = jobs[j]
      /\ jobs'[Len(jobs) + 1] = job
  BY <1>1, <1>2, AppendedJob
<1> QED
  BY <1>1, <1>3 DEF JobsBelongToSession, Unreported

LEMMA ContainedNext ==
  ASSUME ~MayAsk, Contained, [Next]_vars
  PROVE  Contained'
<1> USE DEF Contained
<1>0. GuiInv'
  BY NextInv
<1>1. CASE UNCHANGED vars
  BY <1>0, <1>1 DEF vars, JobsBelongToSession, Unreported
<1>2. CASE Start
  <2>1. asking' = NoUser /\ UNCHANGED session
    BY <1>2 DEF Start
  <2>2. ASSUME NEW page, NEW kind, NEW user, StartJob(page, kind, user),
               page \in RemotePages => user = session.user,
               NewJob(page, kind, user) \in Job
        PROVE  JobsBelongToSession'
    BY <2>1, <2>2, ContainedStarted
  <2>3. ASSUME NEW page \in Pages, NEW kind \in Kinds, NEW user \in Users \cup {NoUser}
        PROVE  NewJob(page, kind, user) \in Job
    BY ConstantsAssumption DEF GuiInv, TypeOK, NewJob, Job, Stages
  <2>4. session.user \in Users \cup {NoUser}
    BY DEF GuiInv, TypeOK
  <2>5. CASE StartJob("local", IF Watching THEN "watch" ELSE "create", NoUser)
    <3>1. PICK kind \in {"watch", "create"} : kind = IF Watching THEN "watch" ELSE "create"
      OBVIOUS
    <3> QED
      BY <1>0, <2>1, <2>2, <2>3, <2>5, <3>1 DEF RemotePages, Pages, Kinds
  <2>6. CASE SignedIn /\ StartJob("backup", "upload", session.user)
    BY <1>0, <2>1, <2>2, <2>3, <2>4, <2>6 DEF Pages, Kinds
  <2>7. ASSUME NEW page \in {"restore", "history"}, StartJob(page, "refresh", session.user)
        PROVE  JobsBelongToSession'
    BY <2>2, <2>3, <2>4, <2>7 DEF Pages, Kinds
  <2>8. CASE SignedIn /\ StartJob("account", "delete", session.user)
    BY <1>0, <2>1, <2>2, <2>3, <2>4, <2>8 DEF RemotePages, Pages, Kinds
  <2>9. ASSUME NEW u \in Users, StartJob("account", "login", u)
        PROVE  JobsBelongToSession'
    BY <2>2, <2>3, <2>9 DEF RemotePages, Pages, Kinds
  <2> QED
    BY <1>0, <1>2, <2>1, <2>5, <2>6, <2>7, <2>8, <2>9 DEF Start
<1>3. CASE Restore
  <2>1. session.user \in Users /\ StartJob("restore", "restore", session.user)
        /\ asking' = NoUser /\ UNCHANGED session
    BY <1>3 DEF Restore, SignedIn, GuiInv, TypeOK
  <2>2. NewJob("restore", "restore", session.user) \in Job
    BY <2>1, ConstantsAssumption DEF GuiInv, TypeOK, NewJob, Job, Stages, Pages, Kinds
  <2> QED
    BY <1>0, <2>1, <2>2, ContainedStarted
<1>4. CASE Confirm
  BY <1>4 DEF Confirm
<1>5. CASE CancelJob
  <2>1. PICK page \in Pages : jobs' = Cancelled(UnreportedOf(page))
    BY <1>5 DEF CancelJob
  <2>2. AllGrown
    BY <2>1, CancelledGrown DEF AllGrown
  <2> QED
    BY <1>0, <1>5, <2>2, ContainedGrown DEF CancelJob
<1>6. CASE Close
  <2>1. AllGrown
    BY <1>6, CancelledGrown DEF Close, AllGrown
  <2> QED
    BY <1>0, <1>6, <2>1, ContainedGrown DEF Close
<1>7. CASE SignOut
  <2>1. \A j \in DOMAIN jobs : jobs'[j].page \in RemotePages /\ Waits(jobs'[j]) => jobs'[j].cancelled
    BY <1>7, CancelledGrown, WoundGrown DEF SignOut
  <2>2. DOMAIN jobs' = DOMAIN jobs
    BY <1>7, CancelledGrown, WoundGrown DEF SignOut
  <2> QED
    BY <1>0, <1>7, <2>1, <2>2 DEF SignOut, JobsBelongToSession, Unreported, Waits
<1>8. CASE TakeFromHistory \/ SelectItem \/ TypeId
  BY <1>0, <1>8 DEF TakeFromHistory, SelectItem, TypeId, JobsBelongToSession, Unreported
<1>9. ASSUME NEW j \in DOMAIN jobs, JobEnds(j) PROVE Contained'
  <2>1. /\ asking' = NoUser /\ UNCHANGED session /\ jobs[j] \in Job
        /\ jobs[j].stage = "working"
    BY <1>9 DEF JobEnds, GuiInv, Sound
  <2>2. PICK ok, list :
          jobs' = [jobs EXCEPT ![j].stage = "queued", ![j].ok = ok, ![j].list = list]
    BY ONLY <1>9, ZenonT(60) DEF JobEnds
  <2>3. /\ DOMAIN jobs' = DOMAIN jobs
        /\ \A i \in DOMAIN jobs : /\ jobs'[i].page = jobs[i].page /\ jobs'[i].user = jobs[i].user
                                  /\ jobs'[i].cancelled = jobs[i].cancelled
                                  /\ i # j => jobs'[i].stage = jobs[i].stage
    BY <2>1, <2>2 DEF Job
  <2> QED
    BY <1>0, <2>1, <2>3 DEF JobsBelongToSession, Unreported
<1>10. ASSUME NEW j \in DOMAIN jobs, Report(j) PROVE Contained'
  <2>1. /\ asking' = NoUser /\ jobs[j].stage = "queued" /\ Sound(jobs[j], session)
    BY <1>10 DEF Report, GuiInv
  <2>2. /\ Reported(j) \in Seq(Job) /\ DOMAIN Reported(j) = DOMAIN jobs
        /\ \A i \in DOMAIN jobs : Grown(Reported(j)[i], jobs[i])
    BY <2>1, ReportedGrown
  <2>3. CASE UNCHANGED session /\ jobs' = Reported(j)
    <3>1. AllGrown
      BY <2>2, <2>3 DEF AllGrown
    <3> QED
      BY <1>0, <2>1, <2>3, <3>1, ContainedGrown
  <2>4. CASE jobs' = Wound(Reported(j))
    <3>1. /\ DOMAIN jobs' = DOMAIN jobs
          /\ \A i \in DOMAIN jobs :
               jobs'[i].page \in RemotePages /\ Waits(jobs'[i]) => jobs'[i].cancelled
      BY <2>2, <2>4, WoundGrown
    <3> QED
      BY <1>0, <2>1, <3>1 DEF JobsBelongToSession, Unreported, Waits
  <2>5. CASE jobs[j].kind = "login" /\ Expected(j) /\ jobs' = Reported(j)
    \* Nobody was signed in, so no job had credentials to go on with.
    <3>1. session.user = NoUser
      BY <2>1, <2>5 DEF Sound, Expected
    <3>2. \A i \in DOMAIN jobs :
            jobs[i].page \in RemotePages /\ Unreported(i) => jobs[i].cancelled
      <4> SUFFICES ASSUME NEW i \in DOMAIN jobs, jobs[i].page \in RemotePages, Unreported(i),
                          ~jobs[i].cancelled
                   PROVE  FALSE
        OBVIOUS
      <4>1. jobs[i].user \in Users
        BY DEF GuiInv, Sound
      <4> QED
        BY <3>1, <4>1, ConstantsAssumption DEF JobsBelongToSession
    <3>3. \A i \in DOMAIN jobs :
            jobs'[i].page \in RemotePages /\ Waits(jobs'[i]) => jobs'[i].cancelled
      BY <2>2, <2>5, <3>2 DEF Grown, Unreported, Waits
    <3> QED
      BY <1>0, <2>1, <2>2, <2>5, <3>3 DEF JobsBelongToSession, Unreported, Waits
  <2> QED
    BY <1>10, <2>3, <2>4, <2>5 DEF Report
<1>11. ASSUME NEW j \in DOMAIN jobs, ThreadFinished(j) PROVE Contained'
  <2>1. /\ asking' = NoUser /\ UNCHANGED session /\ jobs[j] \in Job
        /\ jobs' = [jobs EXCEPT ![j].stage = "gone"]
    BY <1>11 DEF ThreadFinished, GuiInv, Sound
  <2>2. /\ DOMAIN jobs' = DOMAIN jobs
        /\ \A i \in DOMAIN jobs : /\ jobs'[i].page = jobs[i].page /\ jobs'[i].user = jobs[i].user
                                  /\ jobs'[i].cancelled = jobs[i].cancelled
                                  /\ jobs'[i].stage \in {jobs[i].stage, "gone"}
    BY <2>1 DEF Job
  <2> QED
    BY <1>0, <2>1, <2>2 DEF JobsBelongToSession, Unreported
<1> QED
  BY <1>1, <1>2, <1>3, <1>4, <1>5, <1>6, <1>7, <1>8, <1>9, <1>10, <1>11 DEF Next

-----------------------------------------------------------------------------
\* The variables of the program keep their types; a page never has two jobs
\* whose results are still to come.
THEOREM TypeCorrect == Spec => []TypeOK
<1>1. GuiInv => TypeOK
  BY DEF GuiInv
<1> QED
  BY <1>1, SpecInv, PTL

\* The pages show backups of the account signed in only, and no job outlives
\* the window, even if the user is asked questions.
THEOREM ShownCorrect == Spec => [](ShownBelongsToAccount /\ ClosedAfterJobs)
<1>1. GuiInv => ShownBelongsToAccount /\ ClosedAfterJobs
  BY DEF GuiInv
<1> QED
  BY <1>1, SpecInv, PTL

\* If no question comes between reading the credentials and using them, what a
\* job leads to stays within its session and its window.  (With the question
\* it does not: a job confirmed too late runs for a session that has ended.)
THEOREM ContainedCorrect ==
  ASSUME ~MayAsk
  PROVE  Spec => []JobsAreContained
<1>1. Init => Contained
  BY InitInv DEF Contained, Init, JobsBelongToSession
<1>2. Contained /\ [Next]_vars => Contained'
  BY ContainedNext
<1>3. Contained => JobsAreContained
  BY DEF Contained, GuiInv, JobsAreContained
<1> QED
  BY <1>1, <1>2, <1>3, PTL DEF Spec

-----------------------------------------------------------------------------
\* EntryPicker: induction on the depth of entries.

\* A set of numbers that is not empty has a least one.
LEMMA LeastNumber ==
  ASSUME NEW R \in SUBSET Nat, R # {}
  PROVE  \E m \in R : \A h \in R : m <= h
<1>1. PICK m \in R : \A h \in R : ~(<<h, m>> \in OpToRel(<, Nat))
  BY NatLessThanWellFounded, WFMin, Zenon
<1>2. \A h \in R : ~(h < m)
  BY <1>1, Zenon DEF OpToRel
<1> QED
  BY <1>2

-----------------------------------------------------------------------------
\* EntryPicker: the tree.
Height == Cardinality(E!Names)
Parent(n) == Tree[n].parent

LEMMA TreeFacts ==
  /\ Height \in Nat /\ Top \notin E!Names
  /\ \A n \in E!Names :
       /\ Tree[n].depth \in 1..Height
       /\ Parent(n) # Top => /\ Parent(n) \in E!Names /\ Tree[Parent(n)].dir
                             /\ Tree[n].depth = Tree[Parent(n)].depth + 1
  /\ \A n \in E!Names : \A m \in E!Children(n) :
       /\ m \in E!Names /\ Parent(m) = n /\ n # Top
       /\ Tree[n].dir /\ Tree[m].depth = Tree[n].depth + 1
<1>1. Height \in Nat /\ Top \notin E!Names
  BY PickerAssumption, FS_CardinalityType
  DEF E!TreeAssumption, Height, E!IsFiniteSet, E!Cardinality, IsFiniteSet, Cardinality
<1>2. ASSUME NEW n \in E!Names
      PROVE  /\ Tree[n].depth \in 1..Height
             /\ Parent(n) # Top => /\ Parent(n) \in E!Names /\ Tree[Parent(n)].dir
                                   /\ Tree[n].depth = Tree[Parent(n)].depth + 1
  BY PickerAssumption
  DEF E!TreeAssumption, Height, Parent, E!IsFiniteSet, E!Cardinality, IsFiniteSet, Cardinality
<1>3. ASSUME NEW n \in E!Names, NEW m \in E!Children(n)
      PROVE  /\ m \in E!Names /\ Parent(m) = n /\ n # Top
             /\ Tree[n].dir /\ Tree[m].depth = Tree[n].depth + 1
  <2>1. m \in E!Names /\ Parent(m) = n /\ n # Top
    BY <1>1 DEF E!Children, Parent
  <2> QED
    BY <1>2, <2>1
<1> QED
  BY <1>1, <1>2, <1>3

\* The least deep entries of a set of them.
LEMMA LeastDeep ==
  ASSUME NEW N \in SUBSET E!Names, N # {}
  PROVE  \E n \in N : \A m \in N : Tree[n].depth <= Tree[m].depth
<1> DEFINE Depths == {d \in Nat : \E n \in N : Tree[n].depth = d}
<1>1. \A n \in N : Tree[n].depth \in Nat
  BY TreeFacts
<1>2. Depths # {}
  <2>1. PICK n \in N : TRUE
    OBVIOUS
  <2>2. Tree[n].depth \in Depths
    BY <1>1, <2>1
  <2> QED
    BY <2>2
<1>3. Depths \in SUBSET Nat
  OBVIOUS
<1>4. PICK d \in Depths : \A h \in Depths : d <= h
  <2> HIDE DEF Depths
  <2> QED
    BY <1>2, <1>3, LeastNumber
<1>5. PICK n \in N : Tree[n].depth = d
  BY <1>4
<1>6. \A m \in N : Tree[m].depth \in Depths
  BY <1>1
<1> QED
  BY <1>4, <1>5, <1>6

\* The deepest ones.
LEMMA MostDeep ==
  ASSUME NEW N \in SUBSET E!Names, N # {}
  PROVE  \E n \in N : \A m \in N : Tree[m].depth <= Tree[n].depth
<1> DEFINE Depths == {d \in Nat : \E n \in N : Tree[n].depth + d = Height}
<1>1. \A n \in N : Tree[n].depth \in 1..Height
  BY TreeFacts
<1>2. Height \in Nat
  BY TreeFacts
<1>3. \A n \in N : Height - Tree[n].depth \in Depths
  BY <1>1, <1>2
<1>4. Depths # {}
  BY <1>3
<1>5. Depths \in SUBSET Nat
  OBVIOUS
<1>6. PICK d \in Depths : \A h \in Depths : d <= h
  <2> HIDE DEF Depths
  <2> QED
    BY <1>4, <1>5, LeastNumber
<1>7. PICK n \in N : Tree[n].depth + d = Height
  BY <1>6
<1>8. d \in Nat
  BY <1>6
<1>9. ASSUME NEW m \in N PROVE Tree[m].depth <= Tree[n].depth
  <2>1. d <= Height - Tree[m].depth
    BY <1>3, <1>6
  <2>2. Tree[m].depth \in Nat /\ Tree[n].depth \in Nat
    BY <1>1
  <2> QED
    BY <1>2, <1>7, <1>8, <2>1, <2>2
<1> QED
  BY <1>9

-----------------------------------------------------------------------------
\* Ancestors are what their definition says.
UpStep(f, n) == IF Parent(n) = Top THEN {} ELSE {Parent(n)} \cup f[Parent(n)]
UpTo(d) == {n \in E!Names : Tree[n].depth <= d}

LEMMA AncestorsExist ==
  \E f \in [E!Names -> SUBSET E!Names] : \A n \in E!Names : f[n] = UpStep(f, n)
<1> DEFINE Good(d) == \E f \in [UpTo(d) -> SUBSET E!Names] : \A n \in UpTo(d) : f[n] = UpStep(f, n)
           Bad == {d \in Nat : ~Good(d)}
<1>1. Bad = {}
  <2>1. SUFFICES ASSUME Bad # {} PROVE FALSE
    OBVIOUS
  <2>2. PICK d \in Bad : \A h \in Bad : d <= h
    <3>1. Bad \in SUBSET Nat
      OBVIOUS
    <3> HIDE DEF Bad
    <3> QED
      BY <2>1, <3>1, LeastNumber
  <2>3. d \in Nat /\ ~Good(d)
    BY <2>2
  <2>4. CASE d = 0
    <3>1. UpTo(0) = {}
      BY TreeFacts DEF UpTo
    <3> DEFINE f == [n \in {} |-> {}]
    <3>2. f \in [UpTo(0) -> SUBSET E!Names] /\ \A n \in UpTo(0) : f[n] = UpStep(f, n)
      BY <3>1
    <3>3. Good(0)
      <4> HIDE DEF f
      <4> QED
        BY <3>2
    <3> QED
      BY <2>3, <2>4, <3>3
  <2>5. CASE d # 0
    <3>1. d - 1 \in Nat /\ ~(d <= d - 1)
      BY <2>3, <2>5
    <3>2. Good(d - 1)
      BY <2>2, <3>1
    <3>3. PICK f \in [UpTo(d - 1) -> SUBSET E!Names] : \A n \in UpTo(d - 1) : f[n] = UpStep(f, n)
      BY <3>2
    <3> DEFINE g == [n \in UpTo(d) |-> UpStep(f, n)]
    <3>4. ASSUME NEW n \in UpTo(d), Parent(n) # Top PROVE Parent(n) \in UpTo(d - 1)
      <4>1. n \in E!Names /\ Tree[n].depth <= d
        BY DEF UpTo
      <4>2. Parent(n) \in E!Names /\ Tree[n].depth = Tree[Parent(n)].depth + 1
            /\ Tree[Parent(n)].depth \in Nat
        BY <3>4, <4>1, TreeFacts
      <4> QED
        BY <2>3, <4>1, <4>2 DEF UpTo
    <3>5. UpTo(d - 1) \subseteq UpTo(d)
      <4>1. \A n \in E!Names : Tree[n].depth \in Nat
        BY TreeFacts
      <4> QED
        BY <2>3, <4>1 DEF UpTo
    <3>6. g \in [UpTo(d) -> SUBSET E!Names]
      <4>1. ASSUME NEW n \in UpTo(d) PROVE UpStep(f, n) \in SUBSET E!Names
        BY <3>4, TreeFacts DEF UpStep, UpTo
      <4> QED
        BY <4>1
    <3>7. ASSUME NEW n \in UpTo(d) PROVE g[n] = UpStep(g, n)
      <4>1. g[n] = UpStep(f, n)
        OBVIOUS
      <4>2. Parent(n) # Top => g[Parent(n)] = UpStep(f, Parent(n))
        BY <3>4, <3>5
      <4>3. Parent(n) # Top => f[Parent(n)] = UpStep(f, Parent(n))
        BY <3>3, <3>4
      <4> HIDE DEF g
      <4>4. Parent(n) # Top => g[Parent(n)] = f[Parent(n)]
        BY <4>2, <4>3
      <4> QED
        BY <4>1, <4>4 DEF UpStep
    <3>8. Good(d)
      <4> HIDE DEF g
      <4> QED
        BY <3>6, <3>7
    <3> QED
      BY <2>3, <3>8
  <2> QED
    BY <2>4, <2>5
<1>2. Good(Height)
  BY <1>1, TreeFacts
<1>3. UpTo(Height) = E!Names
  BY TreeFacts DEF UpTo
<1> QED
  BY <1>2, <1>3

LEMMA AncestorsMeans == \A n \in E!Names : E!Ancestors[n] = UpStep(E!Ancestors, n)
<1> DEFINE Is(f) == f = [n \in E!Names |-> LET p == Tree[n].parent IN
                                         IF p = Top THEN {} ELSE {p} \cup f[p]]
<1>1. \E f : Is(f)
  <2>1. PICK f \in [E!Names -> SUBSET E!Names] : \A n \in E!Names : f[n] = UpStep(f, n)
    BY AncestorsExist
  <2>2. Is(f)
    BY <2>1 DEF UpStep, Parent
  <2> QED
    BY <2>2
<1>2. Is(CHOOSE f : Is(f))
  BY <1>1
<1>3. E!Ancestors = CHOOSE f : Is(f)
  BY DEF E!Ancestors
<1>4. Is(E!Ancestors)
  BY <1>2, <1>3
<1> QED
  BY <1>4 DEF UpStep, Parent

\* What is above an entry is less deep and is a directory with entries.
LEMMA AncestorsFacts ==
  \A n \in E!Names : \A m \in E!Ancestors[n] :
    /\ m \in E!Names /\ Tree[m].depth < Tree[n].depth /\ Tree[m].dir /\ E!Children(m) # {}
    /\ E!Ancestors[m] \subseteq E!Ancestors[n]
<1> DEFINE Good(n) == \A m \in E!Ancestors[n] :
             /\ m \in E!Names /\ Tree[m].depth < Tree[n].depth /\ Tree[m].dir /\ E!Children(m) # {}
             /\ E!Ancestors[m] \subseteq E!Ancestors[n]
           Bad == {n \in E!Names : ~Good(n)}
<1>1. SUFFICES ASSUME Bad # {} PROVE FALSE
  OBVIOUS
<1>2. PICK n \in Bad : \A h \in Bad : Tree[n].depth <= Tree[h].depth
  <2>1. Bad \in SUBSET E!Names
    OBVIOUS
  <2> HIDE DEF Bad
  <2> QED
    BY <1>1, <2>1, LeastDeep
<1>3. n \in E!Names /\ ~Good(n)
  BY <1>2
<1>4. E!Ancestors[n] = UpStep(E!Ancestors, n)
  BY <1>3, AncestorsMeans
<1>5. CASE Parent(n) = Top
  BY <1>3, <1>4, <1>5 DEF UpStep
<1>6. CASE Parent(n) # Top
  <2> DEFINE p == Parent(n)
  <2>1. /\ p \in E!Names /\ Tree[p].dir /\ Tree[n].depth = Tree[p].depth + 1
        /\ Tree[p].depth \in Nat
    BY <1>3, <1>6, TreeFacts
  <2>2. n \in E!Children(p)
    BY <1>3 DEF E!Children, Parent
  <2>3. Good(p)
    <3>1. ~(Tree[n].depth <= Tree[p].depth)
      BY <2>1
    <3> QED
      BY <1>2, <2>1, <3>1
  <2>4. E!Ancestors[n] = {p} \cup E!Ancestors[p]
    BY <1>4, <1>6 DEF UpStep
  <2> HIDE DEF p
  <2>5. ASSUME NEW m \in E!Ancestors[n]
        PROVE  /\ m \in E!Names /\ Tree[m].depth < Tree[n].depth /\ Tree[m].dir
               /\ E!Children(m) # {} /\ E!Ancestors[m] \subseteq E!Ancestors[n]
    <3>1. CASE m = p
      BY <2>1, <2>2, <2>4, <3>1
    <3>2. CASE m \in E!Ancestors[p]
      <4>1. /\ m \in E!Names /\ Tree[m].depth < Tree[p].depth /\ Tree[m].dir
            /\ E!Children(m) # {} /\ E!Ancestors[m] \subseteq E!Ancestors[p]
        BY <2>3, <3>2
      <4>2. Tree[m].depth \in Nat
        BY <4>1, TreeFacts
      <4> QED
        BY <2>1, <2>4, <4>1, <4>2
    <3> QED
      BY <2>4, <3>1, <3>2
  <2> QED
    BY <1>3, <2>5
<1> QED
  BY <1>5, <1>6

\* What is above a child: its directory and what is above that.
LEMMA ChildFacts ==
  ASSUME NEW n \in E!Names, NEW m \in E!Children(n)
  PROVE  m \in E!Names /\ E!Ancestors[m] = {n} \cup E!Ancestors[n]
<1>1. m \in E!Names /\ Parent(m) = n /\ n # Top
  BY TreeFacts
<1> QED
  BY <1>1, AncestorsMeans DEF UpStep

-----------------------------------------------------------------------------
\* Settled boxes are what their definition says.
Shown(c, n) == {c[m] : m \in E!Children(n)}
DownStep(c, D, f, n) == IF n \in D THEN E!Summary(Shown(f, n)) ELSE c[n]
From(d) == {n \in E!Names : Tree[n].depth + d > Height}

LEMMA SummaryIsState ==
  ASSUME NEW states \in SUBSET E!States, states # {}
  PROVE  E!Summary(states) \in E!States
  BY DEF E!Summary, E!States

LEMMA SummaryOfOne ==
  ASSUME NEW v
  PROVE  E!Summary({v}) = v
  BY DEF E!Summary

LEMMA SettledExists ==
  ASSUME NEW c \in [E!Names -> E!States], NEW D \in SUBSET E!Names,
         \A n \in D : E!Children(n) # {}
  PROVE  \E f \in [E!Names -> E!States] : \A n \in E!Names : f[n] = DownStep(c, D, f, n)
<1> DEFINE Good(d) == \E f \in [From(d) -> E!States] : \A n \in From(d) : f[n] = DownStep(c, D, f, n)
           Bad == {d \in Nat : ~Good(d)}
<1>1. Bad = {}
  <2>1. SUFFICES ASSUME Bad # {} PROVE FALSE
    OBVIOUS
  <2>2. PICK d \in Bad : \A h \in Bad : d <= h
    <3>1. Bad \in SUBSET Nat
      OBVIOUS
    <3> HIDE DEF Bad
    <3> QED
      BY <2>1, <3>1, LeastNumber
  <2>3. d \in Nat /\ ~Good(d)
    BY <2>2
  <2>4. CASE d = 0
    <3>1. From(0) = {}
      BY TreeFacts DEF From
    <3> DEFINE f == [n \in {} |-> "no"]
    <3>2. f \in [From(0) -> E!States] /\ \A n \in From(0) : f[n] = DownStep(c, D, f, n)
      BY <3>1
    <3>3. Good(0)
      <4> HIDE DEF f
      <4> QED
        BY <3>2
    <3> QED
      BY <2>3, <2>4, <3>3
  <2>5. CASE d # 0
    <3>1. d - 1 \in Nat /\ ~(d <= d - 1)
      BY <2>3, <2>5
    <3>2. Good(d - 1)
      BY <2>2, <3>1
    <3>3. PICK f \in [From(d - 1) -> E!States] : \A n \in From(d - 1) : f[n] = DownStep(c, D, f, n)
      BY <3>2
    <3> DEFINE g == [n \in From(d) |-> DownStep(c, D, f, n)]
    <3>4. ASSUME NEW n \in From(d), NEW m \in E!Children(n) PROVE m \in From(d - 1)
      <4>1. n \in E!Names /\ Tree[n].depth + d > Height /\ Height \in Nat /\ Tree[n].depth \in Nat
        BY TreeFacts DEF From
      <4>2. m \in E!Names /\ Tree[m].depth = Tree[n].depth + 1
        BY <4>1, TreeFacts
      <4> QED
        BY <2>3, <4>1, <4>2 DEF From
    <3>5. From(d - 1) \subseteq From(d)
      <4>1. Height \in Nat /\ \A n \in E!Names : Tree[n].depth \in Nat
        BY TreeFacts
      <4> QED
        BY <2>3, <4>1 DEF From
    <3>6. g \in [From(d) -> E!States]
      <4>1. ASSUME NEW n \in From(d) PROVE DownStep(c, D, f, n) \in E!States
        <5>1. CASE n \in D
          <6>1. Shown(f, n) \in SUBSET E!States
            BY <3>4 DEF Shown
          <6>2. Shown(f, n) # {}
            BY <5>1 DEF Shown
          <6> QED
            BY <5>1, <6>1, <6>2, SummaryIsState DEF DownStep
        <5>2. CASE n \notin D
          BY <5>2 DEF DownStep, From
        <5> QED
          BY <5>1, <5>2
      <4> QED
        BY <4>1
    <3>7. ASSUME NEW n \in From(d) PROVE g[n] = DownStep(c, D, g, n)
      <4>1. g[n] = DownStep(c, D, f, n)
        OBVIOUS
      <4>2. \A m \in E!Children(n) : g[m] = DownStep(c, D, f, m)
        BY <3>4, <3>5
      <4>3. \A m \in E!Children(n) : f[m] = DownStep(c, D, f, m)
        BY <3>3, <3>4
      <4> HIDE DEF g
      <4>4. \A m \in E!Children(n) : g[m] = f[m]
        BY <4>2, <4>3
      <4>5. Shown(g, n) = Shown(f, n)
        BY <4>4 DEF Shown
      <4> QED
        BY <4>1, <4>5 DEF DownStep
    <3>8. Good(d)
      <4> HIDE DEF g
      <4> QED
        BY <3>6, <3>7
    <3> QED
      BY <2>3, <3>8
  <2> QED
    BY <2>4, <2>5
<1>2. Good(Height)
  BY <1>1, TreeFacts
<1>3. From(Height) = E!Names
  BY TreeFacts DEF From
<1> QED
  BY <1>2, <1>3

LEMMA SettledMeans ==
  ASSUME NEW c \in [E!Names -> E!States], NEW D \in SUBSET E!Names,
         \A n \in D : E!Children(n) # {}
  PROVE  /\ E!Settled(c, D) \in [E!Names -> E!States]
         /\ \A n \in E!Names : E!Settled(c, D)[n] = DownStep(c, D, E!Settled(c, D), n)
<1> DEFINE Is(f) == f = [n \in E!Names |-> IF n \in D THEN E!Summary({f[m] : m \in E!Children(n)})
                                         ELSE c[n]]
<1>1. PICK f \in [E!Names -> E!States] : \A n \in E!Names : f[n] = DownStep(c, D, f, n)
  BY SettledExists
<1>2. Is(f)
  BY <1>1 DEF DownStep, Shown
<1> DEFINE g == CHOOSE h : Is(h)
<1>3. Is(g)
  BY <1>2
<1>4. E!Settled(c, D) = g
  BY DEF E!Settled
<1> HIDE DEF g
<1>5. \A n \in E!Names : g[n] = DownStep(c, D, g, n)
  BY <1>3 DEF DownStep, Shown
<1>6. DOMAIN g = E!Names /\ g = [n \in E!Names |-> g[n]]
  BY <1>3
<1> HIDE DEF Is
<1> DEFINE Bad == {n \in E!Names : g[n] # f[n]}
<1>7. Bad = {}
  <2>1. SUFFICES ASSUME Bad # {} PROVE FALSE
    OBVIOUS
  <2>2. PICK n \in Bad : \A m \in Bad : Tree[m].depth <= Tree[n].depth
    <3>1. Bad \in SUBSET E!Names
      OBVIOUS
    <3> HIDE DEF Bad
    <3> QED
      BY <2>1, <3>1, MostDeep
  <2>3. n \in E!Names /\ g[n] # f[n]
    BY <2>2
  <2>4. ASSUME NEW m \in E!Children(n) PROVE g[m] = f[m]
    <3>1. m \in E!Names /\ Tree[m].depth = Tree[n].depth + 1 /\ Tree[n].depth \in Nat
      BY <2>3, TreeFacts
    <3>2. ~(Tree[m].depth <= Tree[n].depth)
      BY <3>1
    <3> QED
      BY <2>2, <3>1, <3>2
  <2>5. Shown(g, n) = Shown(f, n)
    BY <2>4 DEF Shown
  <2>6. g[n] = DownStep(c, D, g, n) /\ f[n] = DownStep(c, D, f, n)
    BY <1>1, <1>5, <2>3
  <2> QED
    BY <2>3, <2>5, <2>6 DEF DownStep
<1>8. g \in [E!Names -> E!States]
  <2>1. \A n \in E!Names : g[n] \in E!States
    BY <1>1, <1>7
  <2> QED
    BY <1>6, <2>1
<1> QED
  BY <1>4, <1>5, <1>8

\* Boxes that show what is below them.
Consistent(c) == \A n \in E!Names : E!Children(n) # {} => c[n] = E!Summary(Shown(c, n))

\* To settle the directories above what has changed is enough.
LEMMA SettledIsConsistent ==
  ASSUME NEW c \in [E!Names -> E!States], NEW D \in SUBSET E!Names,
         \A n \in D : E!Children(n) # {} /\ E!Ancestors[n] \subseteq D,
         \A n \in E!Names \ D : E!Children(n) # {} => c[n] = E!Summary(Shown(c, n))
  PROVE  E!Settled(c, D) \in [E!Names -> E!States] /\ Consistent(E!Settled(c, D))
<1> DEFINE r == E!Settled(c, D)
<1>1. r \in [E!Names -> E!States] /\ \A n \in E!Names : r[n] = DownStep(c, D, r, n)
  BY SettledMeans
<1> HIDE DEF r
<1>2. ASSUME NEW n \in E!Names, E!Children(n) # {} PROVE r[n] = E!Summary(Shown(r, n))
  <2>1. CASE n \in D
    BY <1>1, <2>1 DEF DownStep
  <2>2. CASE n \notin D
    <3>1. ASSUME NEW m \in E!Children(n) PROVE r[m] = c[m]
      <4>1. m \in E!Names /\ E!Ancestors[m] = {n} \cup E!Ancestors[n]
        BY ChildFacts
      <4>2. m \notin D
        BY <2>2, <4>1
      <4> QED
        BY <1>1, <4>1, <4>2 DEF DownStep
    <3>2. Shown(r, n) = Shown(c, n)
      BY <3>1 DEF Shown
    <3> QED
      BY <1>1, <1>2, <2>2, <3>2 DEF DownStep
  <2> QED
    BY <2>1, <2>2
<1> QED
  BY <1>1, <1>2 DEF Consistent, r

-----------------------------------------------------------------------------
\* Every operation leaves the boxes consistent.
LEMMA AllConsistent ==
  /\ E!Everything \in [E!Names -> E!States] /\ Consistent(E!Everything)
  /\ E!Nothing \in [E!Names -> E!States] /\ Consistent(E!Nothing)
<1>1. E!Everything \in [E!Names -> E!States] /\ E!Nothing \in [E!Names -> E!States]
  BY DEF E!Everything, E!Nothing, E!States
<1>2. ASSUME NEW n \in E!Names, E!Children(n) # {}
      PROVE  Shown(E!Everything, n) = {"all"} /\ Shown(E!Nothing, n) = {"no"}
  <2>1. \A m \in E!Children(n) : E!Everything[m] = "all" /\ E!Nothing[m] = "no"
    BY TreeFacts DEF E!Everything, E!Nothing
  <2> QED
    BY <1>2, <2>1 DEF Shown
<1>3. \A n \in E!Names : E!Everything[n] = "all" /\ E!Nothing[n] = "no"
  BY DEF E!Everything, E!Nothing
<1> QED
  BY <1>1, <1>2, <1>3, SummaryOfOne DEF Consistent

LEMMA ToggledIsConsistent ==
  ASSUME NEW c \in [E!Names -> E!States], Consistent(c), NEW n \in E!Names, NEW v \in {"no", "all"}
  PROVE  /\ E!Refreshed(E!WithSubtree(c, n, v), n) \in [E!Names -> E!States]
         /\ Consistent(E!Refreshed(E!WithSubtree(c, n, v), n))
<1> DEFINE w == E!WithSubtree(c, n, v)
           D == E!Ancestors[n]
<1>1. \A m \in E!Names : w[m] = IF m = n \/ m \in E!Below(n) THEN v ELSE c[m]
  BY DEF E!WithSubtree
<1>2. w \in [E!Names -> E!States]
  BY DEF E!WithSubtree, E!States
<1>3. D \in SUBSET E!Names /\ \A m \in D : E!Children(m) # {} /\ E!Ancestors[m] \subseteq D
  BY AncestorsFacts
<1> HIDE DEF w
<1>4. ASSUME NEW m \in E!Names \ D, E!Children(m) # {} PROVE w[m] = E!Summary(Shown(w, m))
  <2>1. CASE m = n \/ m \in E!Below(n)
    <3>1. ASSUME NEW h \in E!Children(m) PROVE w[h] = v
      <4>1. h \in E!Names /\ E!Ancestors[h] = {m} \cup E!Ancestors[m]
        BY ChildFacts
      <4>2. h \in E!Below(n)
        BY <2>1, <4>1 DEF E!Below
      <4> QED
        BY <1>1, <4>1, <4>2
    <3>2. Shown(w, m) = {v}
      BY <1>4, <3>1 DEF Shown
    <3> QED
      BY <1>1, <2>1, <3>2, SummaryOfOne
  <2>2. CASE ~(m = n \/ m \in E!Below(n))
    <3>1. ASSUME NEW h \in E!Children(m) PROVE w[h] = c[h]
      <4>1. h \in E!Names /\ E!Ancestors[h] = {m} \cup E!Ancestors[m]
        BY ChildFacts
      <4>2. h # n
        BY <1>4, <4>1
      <4>3. h \notin E!Below(n)
        BY <2>2, <4>1 DEF E!Below
      <4> QED
        BY <1>1, <4>1, <4>2, <4>3
    <3>2. Shown(w, m) = Shown(c, m)
      BY <3>1 DEF Shown
    <3> QED
      BY <1>1, <1>4, <2>2, <3>2 DEF Consistent
  <2> QED
    BY <2>1, <2>2
<1>5. E!Settled(w, D) \in [E!Names -> E!States] /\ Consistent(E!Settled(w, D))
  <2> HIDE DEF D
  <2> QED
    BY <1>2, <1>3, <1>4, SettledIsConsistent
<1> QED
  BY <1>5 DEF E!Refreshed, w

LEMMA OpenedIsConsistent ==
  ASSUME NEW s
  PROVE  E!Opened(s) \in [E!Names -> E!States] /\ Consistent(E!Opened(s))
<1> DEFINE w == [n \in E!Names |-> IF n \in E!Included(s) THEN "all" ELSE "no"]
           D == UNION {E!Ancestors[n] : n \in s \cap E!Names}
<1>1. \A m \in E!Names : w[m] = IF m \in E!Included(s) THEN "all" ELSE "no"
  OBVIOUS
<1>2. w \in [E!Names -> E!States]
  BY DEF E!States
<1>3. D \in SUBSET E!Names /\ \A m \in D : E!Children(m) # {} /\ E!Ancestors[m] \subseteq D
  BY AncestorsFacts
<1>4. \A h \in s \cap E!Names : E!Ancestors[h] \subseteq D
  OBVIOUS
<1> HIDE DEF w, D
<1>5. ASSUME NEW m \in E!Names \ D, E!Children(m) # {} PROVE w[m] = E!Summary(Shown(w, m))
  <2>1. ASSUME NEW h \in E!Children(m) PROVE w[h] = w[m]
    <3>1. h \in E!Names /\ E!Ancestors[h] = {m} \cup E!Ancestors[m]
      BY ChildFacts
    <3>2. h \notin s
      BY <1>4, <1>5, <3>1
    <3>3. h \in E!Included(s) <=> m \in E!Included(s)
      BY <3>1, <3>2 DEF E!Included
    <3> QED
      BY <1>1, <3>1, <3>3
  <2>2. Shown(w, m) = {w[m]}
    BY <1>5, <2>1 DEF Shown
  <2> QED
    BY <2>2, SummaryOfOne
<1>6. E!Settled(w, D) \in [E!Names -> E!States] /\ Consistent(E!Settled(w, D))
  BY <1>2, <1>3, <1>5, SettledIsConsistent
<1> QED
  BY <1>6 DEF E!Opened, w, D

LEMMA FilteredFacts ==
  ASSUME NEW w \in [E!Names -> E!States]
  PROVE  LET r == E!Settled(w, {n \in E!Names : E!Children(n) # {}}) IN
         /\ r \in [E!Names -> E!States] /\ Consistent(r)
         /\ \A n \in E!Names : E!Children(n) = {} => r[n] = w[n]
<1> DEFINE D == {n \in E!Names : E!Children(n) # {}}
<1>1. D \in SUBSET E!Names /\ \A n \in D : E!Children(n) # {} /\ E!Ancestors[n] \subseteq D
  BY AncestorsFacts
<1>2. \A n \in E!Names \ D : E!Children(n) # {} => w[n] = E!Summary(Shown(w, n))
  OBVIOUS
<1>3. \A n \in E!Names : E!Children(n) = {} => n \notin D
  OBVIOUS
<1> HIDE DEF D
<1>4. E!Settled(w, D) \in [E!Names -> E!States] /\ Consistent(E!Settled(w, D))
  BY <1>1, <1>2, SettledIsConsistent
<1>5. \A n \in E!Names : E!Settled(w, D)[n] = DownStep(w, D, E!Settled(w, D), n)
  BY <1>1, SettledMeans
<1>6. \A n \in E!Names : E!Children(n) = {} => E!Settled(w, D)[n] = w[n]
  BY <1>3, <1>5 DEF DownStep
<1> QED
  BY <1>4, <1>6 DEF D

-----------------------------------------------------------------------------
\* What a full or an empty box says of what is below it.
LEMMA SameBelow ==
  ASSUME NEW c \in [E!Names -> E!States], Consistent(c), NEW n \in E!Names, NEW v \in {"no", "all"},
         c[n] = v
  PROVE  \A m \in E!Below(n) : c[m] = v
<1> DEFINE Bad == {m \in E!Below(n) : c[m] # v}
<1>1. SUFFICES ASSUME Bad # {} PROVE FALSE
  OBVIOUS
<1>2. PICK m \in Bad : \A h \in Bad : Tree[m].depth <= Tree[h].depth
  <2>1. Bad \in SUBSET E!Names
    BY DEF E!Below
  <2> HIDE DEF Bad
  <2> QED
    BY <1>1, <2>1, LeastDeep
<1>3. m \in E!Names /\ n \in E!Ancestors[m] /\ c[m] # v
  BY <1>2 DEF E!Below
<1> DEFINE p == Parent(m)
<1>4. p # Top /\ E!Ancestors[m] = {p} \cup E!Ancestors[p]
  BY <1>3, AncestorsMeans DEF UpStep
<1>5. p \in E!Names /\ Tree[m].depth = Tree[p].depth + 1 /\ Tree[p].depth \in Nat
  BY <1>3, <1>4, TreeFacts
<1>6. m \in E!Children(p)
  BY <1>3 DEF E!Children, Parent
<1> HIDE DEF p
<1>7. c[p] = v
  <2>1. CASE p = n
    BY <2>1
  <2>2. CASE n \in E!Ancestors[p]
    <3>1. p \in E!Below(n)
      BY <1>5, <2>2 DEF E!Below
    <3>2. ~(Tree[m].depth <= Tree[p].depth)
      BY <1>5
    <3> QED
      BY <1>2, <3>1, <3>2
  <2> QED
    BY <1>3, <1>4, <2>1, <2>2
<1>8. v = E!Summary(Shown(c, p))
  BY <1>5, <1>6, <1>7 DEF Consistent
<1>9. c[m] \in Shown(c, p)
  BY <1>6 DEF Shown
<1>10. \A s, t \in Shown(c, p) : s = t
  BY <1>8 DEF E!Summary
<1>11. E!Summary(Shown(c, p)) \in Shown(c, p)
  BY <1>9, <1>10 DEF E!Summary
<1> QED
  BY <1>3, <1>8, <1>9, <1>10, <1>11

AboveAll(c, n) == \A m \in E!Ancestors[n] : c[m] = "some"

\* Above a checked entry there is one that is checked and has nothing but
\* partly checked directories above.
LEMMA TopmostChecked ==
  ASSUME NEW c \in [E!Names -> E!States], Consistent(c), NEW n \in E!Names, c[n] = "all"
  PROVE  \E m \in {n} \cup E!Ancestors[n] : m \in E!Names /\ c[m] = "all" /\ AboveAll(c, m)
<1> DEFINE N == {m \in {n} \cup E!Ancestors[n] : c[m] = "all"}
<1>1. N \in SUBSET E!Names /\ N # {}
  BY AncestorsFacts
<1>2. PICK m \in N : \A h \in N : Tree[m].depth <= Tree[h].depth
  <2> HIDE DEF N
  <2> QED
    BY <1>1, LeastDeep
<1>3. m \in E!Names /\ c[m] = "all" /\ m \in {n} \cup E!Ancestors[n]
  BY <1>1, <1>2
<1>4. ASSUME NEW h \in E!Ancestors[m] PROVE c[h] = "some"
  <2>1. h \in E!Names /\ Tree[h].depth < Tree[m].depth
    BY <1>3, AncestorsFacts
  <2>2. h \in E!Ancestors[n]
    BY <1>3, AncestorsFacts
  <2>3. Tree[h].depth \in Nat /\ Tree[m].depth \in Nat
    BY <1>3, <2>1, TreeFacts
  <2>4. c[h] # "all"
    BY <1>2, <2>1, <2>2, <2>3
  <2>5. m \in E!Below(h)
    BY <1>3 DEF E!Below
  <2>6. c[h] # "no"
    BY <1>3, <2>1, <2>5, SameBelow
  <2> QED
    BY <2>1, <2>4, <2>6 DEF E!States
<1> QED
  BY <1>3, <1>4 DEF AboveAll

LEMMA CollectedMeans ==
  ASSUME checked \in [E!Names -> E!States], Consistent(checked)
  PROVE  /\ E!Included(E!CollectChecked) = E!Selected
         /\ E!WholeTree => E!Selected = E!Names
         /\ E!Selected # {} => E!CollectChecked # {}
<1>1. ASSUME NEW n \in E!Selected PROVE n \in E!Included(E!CollectChecked)
  <2>1. n \in E!Names /\ checked[n] = "all"
    BY DEF E!Selected
  <2>2. PICK m \in {n} \cup E!Ancestors[n] :
             m \in E!Names /\ checked[m] = "all" /\ AboveAll(checked, m)
    BY <2>1, TopmostChecked
  <2>3. m \in E!CollectChecked
    BY <2>2 DEF E!CollectChecked, AboveAll
  <2> QED
    BY <2>1, <2>2, <2>3 DEF E!Included
<1>2. ASSUME NEW n \in E!Included(E!CollectChecked) PROVE n \in E!Selected
  <2>1. n \in E!Names
    BY DEF E!Included
  <2>2. CASE n \in E!CollectChecked
    BY <2>2 DEF E!CollectChecked, E!Selected
  <2>3. CASE E!Ancestors[n] \cap E!CollectChecked # {}
    <3>1. PICK m \in E!CollectChecked : m \in E!Ancestors[n]
      BY <2>3
    <3>2. m \in E!Names /\ checked[m] = "all" /\ n \in E!Below(m)
      BY <2>1, <3>1 DEF E!CollectChecked, E!Below
    <3>3. checked[n] = "all"
      BY <3>2, SameBelow
    <3> QED
      BY <2>1, <3>3 DEF E!Selected
  <2> QED
    BY <2>2, <2>3 DEF E!Included
<1>3. ASSUME E!WholeTree, NEW n \in E!Names PROVE checked[n] = "all"
  <2> DEFINE Bad == {m \in E!Names : checked[m] # "all"}
  <2>1. SUFFICES ASSUME Bad # {} PROVE FALSE
    OBVIOUS
  <2>2. PICK m \in Bad : \A h \in Bad : Tree[m].depth <= Tree[h].depth
    <3>1. Bad \in SUBSET E!Names
      OBVIOUS
    <3> HIDE DEF Bad
    <3> QED
      BY <2>1, <3>1, LeastDeep
  <2>3. m \in E!Names /\ checked[m] # "all"
    BY <2>2
  <2>4. CASE Parent(m) = Top
    BY <1>3, <2>3, <2>4 DEF E!WholeTree, E!Children, Parent
  <2>5. CASE Parent(m) # Top
    <3> DEFINE p == Parent(m)
    <3>1. /\ p \in E!Names /\ Tree[m].depth = Tree[p].depth + 1 /\ Tree[p].depth \in Nat
          /\ E!Ancestors[m] = {p} \cup E!Ancestors[p]
      <4>1. p \in E!Names /\ Tree[m].depth = Tree[p].depth + 1
        BY <2>3, <2>5, TreeFacts
      <4>2. Tree[p].depth \in Nat
        BY <4>1, TreeFacts
      <4>3. E!Ancestors[m] = {p} \cup E!Ancestors[p]
        BY <2>3, <2>5, AncestorsMeans DEF UpStep
      <4> QED
        BY <4>1, <4>2, <4>3
    <3> HIDE DEF p
    <3>2. ~(Tree[m].depth <= Tree[p].depth)
      BY <3>1
    <3>3. checked[p] = "all"
      BY <2>2, <3>1, <3>2
    <3>4. m \in E!Below(p)
      BY <2>3, <3>1 DEF E!Below
    <3> QED
      BY <2>3, <3>1, <3>3, <3>4, SameBelow
  <2> QED
    BY <2>4, <2>5
<1>4. E!Included(E!CollectChecked) = E!Selected
  BY <1>1, <1>2
<1>5. E!WholeTree => E!Selected = E!Names
  BY <1>3 DEF E!Selected
<1>6. E!Selected # {} => E!CollectChecked # {}
  BY <1>1 DEF E!Included
<1> QED
  BY <1>4, <1>5, <1>6

-----------------------------------------------------------------------------
AcceptedOK ==
  pc = "accepted" =>
    /\ picked = IF E!WholeTree THEN {} ELSE E!CollectChecked
    /\ E!Names # {} => \E n \in E!Names : checked[n] = "all"

PickerInv == E!TypeOK /\ AcceptedOK

LEMMA TypeMeans ==
  E!TypeOK <=> /\ checked \in [E!Names -> E!States] /\ hidden \in [E!Names -> BOOLEAN]
             /\ pc \in {"open", "accepted", "rejected"} /\ picked \subseteq E!Names \cup opening
             /\ Consistent(checked)
  BY DEF E!TypeOK, Consistent, Shown

LEMMA PickerInit == E!Init => PickerInv
<1>1. SUFFICES ASSUME E!Init PROVE PickerInv
  OBVIOUS
<1>2. checked \in [E!Names -> E!States] /\ Consistent(checked)
  BY <1>1, AllConsistent, OpenedIsConsistent DEF E!Init
<1>3. /\ hidden \in [E!Names -> BOOLEAN] /\ pc = "open" /\ picked = {}
  BY <1>1 DEF E!Init
<1>4. E!TypeOK
  BY <1>2, <1>3, TypeMeans
<1>5. AcceptedOK
  BY <1>3 DEF AcceptedOK
<1> QED
  BY <1>4, <1>5 DEF PickerInv

LEMMA SetKeeps ==
  ASSUME PickerInv, NEW c \in [E!Names -> E!States], Consistent(c), E!Set(c)
  PROVE  PickerInv'
<1>1. /\ pc = "open" /\ pc' = pc /\ checked' = c /\ hidden' = hidden
      /\ opening' = opening /\ picked' = picked
  BY DEF E!Set
<1>2. /\ hidden \in [E!Names -> BOOLEAN] /\ picked \subseteq E!Names \cup opening
  BY DEF PickerInv, E!TypeOK
<1>3. Consistent(checked')
  BY <1>1
<1>4. E!TypeOK'
  BY <1>1, <1>2, <1>3 DEF E!TypeOK, Consistent, Shown
<1>5. AcceptedOK'
  BY <1>1 DEF AcceptedOK
<1> QED
  BY <1>4, <1>5 DEF PickerInv

LEMMA PickerNext == PickerInv /\ [E!Next]_E!vars => PickerInv'
<1>1. SUFFICES ASSUME PickerInv, [E!Next]_E!vars PROVE PickerInv'
  OBVIOUS
<1>2. checked \in [E!Names -> E!States] /\ Consistent(checked)
  BY <1>1, TypeMeans DEF PickerInv
<1>3. CASE UNCHANGED E!vars
  BY <1>1, <1>3
  DEF PickerInv, E!TypeOK, AcceptedOK, E!WholeTree, E!CollectChecked, E!vars
<1>4. ASSUME NEW f \in Filters, E!ApplyFilter(f) PROVE PickerInv'
  <2>1. /\ pc = "open" /\ pc' = pc /\ checked' = checked /\ hidden' = E!Filtered(f)
        /\ opening' = opening /\ picked' = picked
    BY <1>4 DEF E!ApplyFilter
  <2>2. E!Filtered(f) \in [E!Names -> BOOLEAN]
    <3>1. ASSUME NEW n \in E!Names
          PROVE  (IF \E m \in E!Ancestors[n] : E!Dropped(m, f) THEN hidden[n]
                  ELSE E!Dropped(n, f) \/ \A m \in {n} \cup E!Below(n) : ~E!Matches(m, f) \/ E!Dropped(m, f))
                 \in BOOLEAN
      <4>1. hidden[n] \in BOOLEAN
        BY <1>1 DEF PickerInv, E!TypeOK
      <4> QED
        BY <4>1
    <3> QED
      BY <3>1 DEF E!Filtered
  <2>3. E!TypeOK'
    BY <1>1, <2>1, <2>2 DEF PickerInv, E!TypeOK
  <2>4. AcceptedOK'
    BY <2>1 DEF AcceptedOK
  <2> QED
    BY <2>3, <2>4 DEF PickerInv
<1>5. ASSUME NEW n \in E!Names, E!Toggle(n) PROVE PickerInv'
  <2> DEFINE v == IF checked[n] = "all" THEN "no" ELSE "all"
             c == E!Refreshed(E!WithSubtree(checked, n, v), n)
  <2>1. v \in {"no", "all"}
    OBVIOUS
  <2>2. E!Set(c)
    BY <1>5 DEF E!Toggle
  <2> HIDE DEF v
  <2>3. c \in [E!Names -> E!States] /\ Consistent(c)
    BY <1>2, <2>1, ToggledIsConsistent
  <2> HIDE DEF c
  <2> QED
    BY <1>1, <2>2, <2>3, SetKeeps
<1>6. ASSUME NEW s \in {"no", "all"}, E!SetFilteredState(s) PROVE PickerInv'
  <2> DEFINE w == [n \in E!Names |-> IF E!Forced(n, s) THEN s ELSE checked[n]]
             c == E!Settled(w, {n \in E!Names : E!Children(n) # {}})
  <2>1. E!Set(c)
    BY <1>6 DEF E!SetFilteredState
  <2>2. w \in [E!Names -> E!States]
    BY <1>2 DEF E!States
  <2> HIDE DEF w
  <2>3. c \in [E!Names -> E!States] /\ Consistent(c)
    BY <2>2, FilteredFacts
  <2> HIDE DEF c
  <2> QED
    BY <1>1, <2>1, <2>3, SetKeeps
<1>7. CASE E!SelectAll \/ E!SelectNone
  BY <1>1, <1>7, AllConsistent, SetKeeps DEF E!SelectAll, E!SelectNone
<1>8. CASE E!Accept
  <2>1. /\ pc' = "accepted" /\ checked' = checked /\ hidden' = hidden /\ opening' = opening
        /\ picked' = IF E!WholeTree THEN {} ELSE E!CollectChecked
        /\ E!Names # {} => \E n \in E!Names : checked[n] = "all"
    BY <1>8 DEF E!Accept
  <2>2. E!CollectChecked \subseteq E!Names
    BY DEF E!CollectChecked
  <2>3. E!TypeOK'
    BY <1>1, <2>1, <2>2 DEF PickerInv, E!TypeOK
  <2>4. AcceptedOK'
    BY <2>1 DEF AcceptedOK, E!WholeTree, E!CollectChecked
  <2> QED
    BY <2>3, <2>4 DEF PickerInv
<1>9. CASE E!Cancel
  <2>1. /\ pc' = "rejected" /\ checked' = checked /\ hidden' = hidden /\ opening' = opening
        /\ picked' = opening
    BY <1>9 DEF E!Cancel
  <2> QED
    BY <1>1, <2>1 DEF PickerInv, E!TypeOK, AcceptedOK
<1> QED
  BY <1>1, <1>3, <1>4, <1>5, <1>6, <1>7, <1>8, <1>9 DEF E!Next

\* The list that is chosen means the checked entries, and is minimal.
LEMMA ChosenMeans == PickerInv => E!ChosenIsSelected /\ E!ChosenIsMinimal
<1>1. SUFFICES ASSUME PickerInv, pc = "accepted" PROVE E!ChosenIsSelected /\ E!ChosenIsMinimal
  BY DEF E!ChosenIsSelected, E!ChosenIsMinimal
<1>2. checked \in [E!Names -> E!States] /\ Consistent(checked)
  BY <1>1, TypeMeans DEF PickerInv
<1>3. /\ picked = IF E!WholeTree THEN {} ELSE E!CollectChecked
      /\ E!Names # {} => E!Selected # {}
  BY <1>1 DEF PickerInv, AcceptedOK, E!Selected
<1>4. /\ E!Included(E!CollectChecked) = E!Selected
      /\ E!WholeTree => E!Selected = E!Names
      /\ E!Selected # {} => E!CollectChecked # {}
  BY <1>2, CollectedMeans
<1>5. ~E!WholeTree => E!Names # {}
  BY DEF E!WholeTree, E!Children
<1>6. E!ChosenIsSelected
  BY <1>3, <1>4, <1>5 DEF E!ChosenIsSelected
<1>7. E!ChosenIsMinimal
  <2>1. SUFFICES ASSUME NEW n \in picked \cap E!Names, NEW m \in E!Ancestors[n] \cap picked PROVE FALSE
    BY DEF E!ChosenIsMinimal
  <2>2. n \in E!CollectChecked /\ m \in E!CollectChecked
    BY <1>3, <2>1
  <2> QED
    BY <2>1, <2>2 DEF E!CollectChecked
<1> QED
  BY <1>6, <1>7

LEMMA FilterKeeps == PickerInv => E!Keeps
<1>1. SUFFICES ASSUME PickerInv, NEW s \in {"no", "all"}, E!SetFilteredState(s),
                      NEW n \in E!Names, ~E!Visible(n), ~Tree[n].dir
               PROVE  checked'[n] = checked[n]
  BY DEF E!Keeps
<1>2. checked \in [E!Names -> E!States]
  BY <1>1 DEF PickerInv, E!TypeOK
<1> DEFINE w == [m \in E!Names |-> IF E!Forced(m, s) THEN s ELSE checked[m]]
<1>3. checked' = E!Settled(w, {m \in E!Names : E!Children(m) # {}})
  BY <1>1 DEF E!SetFilteredState, E!Set
<1>4. w \in [E!Names -> E!States]
  BY <1>2 DEF E!States
<1>5. w[n] = checked[n]
  BY <1>1 DEF E!Forced
<1> HIDE DEF w
<1>6. E!Children(n) = {}
  BY <1>1, TreeFacts
<1> QED
  BY <1>3, <1>4, <1>5, <1>6, FilteredFacts

-----------------------------------------------------------------------------
\* RestoreChecks.

CheckJobs == [kind : {"none", "verify", "preview", "restore"}, input : C!Inputs \cup {<<Blank>>},
         destination : Destinations \cup {Blank},
         stage : {"none", "working", "failed", "succeeded"}]

\* A job that has succeeded had an input that passes.
ChecksInv ==
  /\ C!TypeOK /\ C!PassedIsCurrent /\ task \in CheckJobs
  /\ task.stage = "succeeded" => task.input \in Passing

LEMMA ChecksInit == C!Init => ChecksInv
<1>1. C!NoJob \in CheckJobs /\ C!NoJob.kind = "none" /\ C!NoJob.stage = "none"
  BY DEF C!NoJob, CheckJobs
<1> QED
  BY <1>1 DEF C!Init, ChecksInv, C!TypeOK, C!PassedIsCurrent

LEMMA StartMeans ==
  ASSUME NEW kind \in {"verify", "preview", "restore"}, C!Start(kind),
         input \in C!Inputs, destination \in Destinations \cup {Blank}
  PROVE  \/ task' = task
         \/ /\ task' \in CheckJobs /\ task = C!NoJob
            /\ task'.kind = kind /\ task'.input = input /\ task'.stage = "working"
  BY DEF C!Start, CheckJobs

LEMMA ChecksNext == ChecksInv /\ [C!Next]_C!vars => ChecksInv'
<1> SUFFICES ASSUME ChecksInv, [C!Next]_C!vars PROVE ChecksInv'
  OBVIOUS
<1>1. CASE UNCHANGED C!vars
  BY <1>1 DEF C!vars, ChecksInv, C!TypeOK, C!PassedIsCurrent
<1>2. ASSUME NEW i \in C!Inputs, C!Edit(i) PROVE ChecksInv'
  BY <1>2 DEF C!Edit, ChecksInv, C!TypeOK, C!PassedIsCurrent
<1>3. CASE C!EditDestination
  BY <1>3 DEF C!EditDestination, ChecksInv, C!TypeOK, C!PassedIsCurrent
<1>4. CASE C!Verify
  <2>1. /\ status' = "" /\ input' = input /\ destination' = destination
        /\ task' = task \/ (input[1] # Blank /\ C!Start("verify"))
    BY <1>4 DEF C!Verify
  <2>2. \/ task' = task
        \/ /\ task' \in CheckJobs /\ task'.kind = "verify" /\ task'.input = input
           /\ task'.stage = "working" /\ input[1] # Blank
    BY <2>1, StartMeans DEF ChecksInv, C!TypeOK
  <2> QED
    BY <2>1, <2>2 DEF ChecksInv, C!TypeOK, C!PassedIsCurrent
<1>5. ASSUME NEW kind \in {"preview", "restore"}, C!Complete, C!Start(kind),
             UNCHANGED <<input, destination, status, view>>
      PROVE  ChecksInv'
  <2>1. \/ task' = task
        \/ task' \in CheckJobs /\ task'.kind = kind /\ task'.stage = "working"
    BY <1>5, StartMeans DEF ChecksInv, C!TypeOK
  <2> QED
    BY <1>5, <2>1 DEF ChecksInv, C!TypeOK, C!PassedIsCurrent
<1>6. CASE C!JobEnds
  <2>1. PICK stage \in {"failed", "succeeded"} :
             /\ stage = "succeeded" => task.input \in Passing
             /\ task' = [task EXCEPT !.stage = stage]
    BY <1>6 DEF C!JobEnds
  <2>2. /\ task' \in CheckJobs
        /\ task'.kind = task.kind /\ task'.input = task.input /\ task'.stage = stage
    BY <2>1 DEF ChecksInv, CheckJobs
  <2>3. UNCHANGED <<input, destination, status, view>>
    BY <1>6 DEF C!JobEnds
  <2> QED
    BY <2>1, <2>2, <2>3 DEF ChecksInv, C!TypeOK, C!PassedIsCurrent
<1>7. CASE C!Report
  <2>1. task' = C!NoJob /\ input' = input /\ destination' = destination /\ C!NoJob \in CheckJobs
    BY <1>7 DEF C!Report, C!NoJob, CheckJobs
  <2>2. status' = "passed" => status = "passed" \/ (task.stage = "succeeded" /\ task.input = input)
    BY <1>7 DEF C!Report, C!Applies
  <2>3. status' \in {"", "passed"}
    BY <1>7 DEF C!Report, ChecksInv, C!TypeOK
  <2> QED
    BY <2>1, <2>2, <2>3 DEF ChecksInv, C!TypeOK, C!PassedIsCurrent, C!NoJob
<1> QED
  BY <1>1, <1>2, <1>3, <1>4, <1>5, <1>6, <1>7 DEF C!Next, C!Preview, C!Restore

-----------------------------------------------------------------------------
\* The desktop program: one part at a time, each as in its own module.

\* Whatever the tree and the filters, the include list of the entry picker
\* stands for the boxes that are checked, and is minimal (collectChecked,
\* refreshAncestors); "passed" on the restore page is true of what the form
\* holds now, whatever was edited while the archive was verified.
THEOREM PagesCorrect == MCSpec => []PagesAreTrue
<1> DEFINE I == /\ active = "picker" => PickerInv
                /\ active = "restore" => ChecksInv
<1>1. MCInit => I
  BY PickerInit, ChecksInit DEF MCInit
<1>2. I /\ [MCNext]_mcVars => I'
  <2> SUFFICES ASSUME I, [MCNext]_mcVars PROVE I'
    OBVIOUS
  <2>1. active' = active
    BY DEF MCNext, mcVars
  <2>2. active = "picker" => [E!Next]_E!vars
    BY DEF MCNext, mcVars, pickerVars, E!vars
  <2>3. active = "restore" => [C!Next]_C!vars
    BY DEF MCNext, mcVars, restoreVars, C!vars
  <2> QED
    BY <2>1, <2>2, <2>3, PickerNext, ChecksNext
<1>3. I => PagesAreTrue
  BY ChosenMeans DEF PagesAreTrue, PickerInv, ChecksInv
<1> QED
  BY <1>1, <1>2, <1>3, PTL DEF MCSpec

\* Checking or unchecking what a filter shows leaves every file it hides as it
\* was, at any depth (setFilteredState).
THEOREM HiddenCorrect == MCSpec => HiddenIsKept
<1> DEFINE I == active = "picker" => PickerInv
           A == active = "picker" => E!Keeps
<1>1. MCInit => I
  BY PickerInit DEF MCInit
<1>2. I /\ [MCNext]_mcVars => I'
  <2> SUFFICES ASSUME I, [MCNext]_mcVars, active' = "picker" PROVE PickerInv'
    OBVIOUS
  <2>1. active = "picker" /\ [E!Next]_E!vars
    BY DEF MCNext, mcVars, pickerVars, E!vars
  <2> QED
    BY <2>1, PickerNext
<1>3. I => A
  BY FilterKeeps
<1> QED
  BY <1>1, <1>2, <1>3, PTL DEF MCSpec, HiddenIsKept
=============================================================================
