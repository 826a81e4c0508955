------------------------------ MODULE GuiJobs ------------------------------
(***************************************************************************)
(* The desktop program's background jobs, its account session and its      *)
(* window (GUI/widgets.cpp, ui.hpp, main_window.cpp, pages_account.cpp,    *)
(* pages_remote.cpp, pages_access.cpp).  A job runs in a thread of its own *)
(* and queues its result for the user interface, which may meanwhile sign  *)
(* out, sign in as somebody else, or close the window.                     *)
(*                                                                         *)
(* A backup identifier is a pair <<user, number>>: it names a backup of    *)
(* that user.                                                              *)
(***************************************************************************)
EXTENDS Integers, Sequences

CONSTANTS
  Users, NoUser,
  Numbers,     \* bound: the backups a user may have
  NoId,
  MaxJobs,     \* bound: how many jobs are started
  MaxSessions, \* bound: revision at which no further job signs in
  MayAsk,      \* whether the user allows a restore to overwrite
  Watching,    \* whether automatic backups, which never end, are started
  Ids          \* bound: the identifiers a user may type

ASSUME ConstantsAssumption ==
  /\ NoUser \notin Users /\ NoId \notin Users \X Numbers /\ Ids \subseteq Users \X Numbers
  /\ MaxJobs \in Nat /\ MaxSessions \in Nat /\ MayAsk \in BOOLEAN /\ Watching \in BOOLEAN

VARIABLES
  session,  \* user and revision
  jobs,     \* the jobs started
  history,  \* the rows of the history page
  items, text, fromItem,  \* the combo box of the restore page
  typed,    \* history: the user has typed the text
  asking,   \* the user a confirmation dialog is about to restore for, or NoUser
  window    \* "open", "closing": closePending_, "closed"

combo == <<items, text, fromItem, typed>>
vars == <<session, jobs, history, combo, asking, window>>

Pages == {"local", "backup", "restore", "history", "account"}
RemotePages == {"backup", "restore", "history"}
Kinds == {"create", "watch", "upload", "restore", "refresh", "login", "delete"}
\* A job's thread works, has queued its result, has had it reported, and has
\* been removed from the guard.
Stages == {"working", "queued", "reported", "gone"}
Backups(u) == {u} \X Numbers

Job == [page : Pages, kind : Kinds, user : Users \cup {NoUser}, revision : 0..MaxSessions + 1,
        cancelled : BOOLEAN, stage : Stages, ok : BOOLEAN,
        list : SUBSET (Users \X Numbers), previous : (Users \X Numbers) \cup {NoId}, typed : BOOLEAN]

SignedIn == session.user # NoUser
Active(j) == jobs[j].stage # "gone"        \* in the guard's list
Unreported(j) == jobs[j].stage \in {"working", "queued"}
Running(page) == \E j \in DOMAIN jobs : jobs[j].page = page /\ Unreported(j)
AllActive == {j \in DOMAIN jobs : Active(j)}

TypeOK ==
  /\ session.user \in Users \cup {NoUser} /\ session.revision \in 0..MaxSessions + 1
  /\ jobs \in Seq(Job)
  /\ history \subseteq Users \X Numbers /\ items \subseteq Users \X Numbers
  /\ text \in (Users \X Numbers) \cup {NoId} /\ fromItem \in BOOLEAN /\ typed \in BOOLEAN
  /\ fromItem => text \in items
  /\ asking \in Users \cup {NoUser} /\ window \in {"open", "closing", "closed"}
  /\ \A i, j \in DOMAIN jobs : jobs[i].page = jobs[j].page /\ Unreported(i) /\ Unreported(j) => i = j

Init ==
  /\ session = [user |-> NoUser, revision |-> 0] /\ jobs = <<>>
  /\ history = {} /\ items = {} /\ text = NoId /\ fromItem = FALSE /\ typed = FALSE
  /\ asking = NoUser /\ window = "open"

-----------------------------------------------------------------------------
(* startJob                                                                *)

Ready == window # "closed" /\ asking = NoUser

NewJob(page, kind, user) ==
  [page |-> page, kind |-> kind, user |-> user, revision |-> session.revision,
   cancelled |-> FALSE, stage |-> "working", ok |-> FALSE,
   list |-> {}, previous |-> text, typed |-> typed]

\* Mutant of StartJob: a page may have two jobs.
StartAnother(page, kind, user) ==
  /\ Len(jobs) < MaxJobs
  /\ jobs' = Append(jobs, NewJob(page, kind, user))
StartJob(page, kind, user) ==
  /\ ~Running(page) /\ Len(jobs) < MaxJobs
  /\ jobs' = Append(jobs, NewJob(page, kind, user))

Start ==
  /\ Ready
  /\ \/ StartJob("local", IF Watching THEN "watch" ELSE "create", NoUser)
     \/ SignedIn /\ StartJob("backup", "upload", session.user)
     \/ SignedIn /\ \E page \in {"restore", "history"} : StartJob(page, "refresh", session.user)
     \/ SignedIn /\ StartJob("account", "delete", session.user)
     \/ /\ ~SignedIn /\ session.revision < MaxSessions
        /\ \E u \in Users : StartJob("account", "login", u)
  /\ UNCHANGED <<session, history, combo, asking, window>>

\* A restore with the credentials of the session, which the user may have to
\* confirm first.
Restore ==
  /\ Ready /\ SignedIn /\ text # NoId
  /\ IF MayAsk THEN asking' = session.user /\ UNCHANGED jobs
     ELSE StartJob("restore", "restore", session.user) /\ UNCHANGED asking
  /\ UNCHANGED <<session, history, combo, window>>

\* The credentials are those of before the question.
Confirm ==
  /\ asking # NoUser /\ asking' = NoUser
  /\ \/ window # "closed" /\ StartJob("restore", "restore", asking)
     \/ UNCHANGED jobs
  /\ UNCHANGED <<session, history, combo, window>>

\* The jobs, some of them told to stop.
Cancelled(chosen) ==
  [j \in DOMAIN jobs |-> [jobs[j] EXCEPT !.cancelled = (@ \/ j \in chosen)]]
UnreportedOf(page) == {j \in DOMAIN jobs : jobs[j].page = page /\ Unreported(j)}

\* The cancel button belongs to the job running on its page.
CancelJob ==
  /\ Ready
  /\ \E page \in Pages : /\ Running(page)
                         /\ jobs' = Cancelled(UnreportedOf(page))
  /\ UNCHANGED <<session, history, combo, asking, window>>

\* An automatic backup ends when it is cancelled, or fails.  A login may have
\* succeeded although it was cancelled, and so on.
JobEnds(j) ==
  /\ jobs[j].stage = "working"
  /\ \E ok \in BOOLEAN, list \in SUBSET (IF jobs[j].kind = "refresh" THEN Backups(jobs[j].user) ELSE {}) :
       jobs' = [jobs EXCEPT ![j].stage = "queued", ![j].ok = ok, ![j].list = list]
  /\ UNCHANGED <<session, history, combo, asking, window>>

-----------------------------------------------------------------------------
(* AccountSession and what is connected to its signals.                    *)

\* dropStaleList
DropStaleList ==
  /\ items' = {} /\ fromItem' = FALSE
  /\ text' = IF fromItem THEN NoId ELSE text
  /\ typed' = (typed /\ ~fromItem)

Changed(user) ==
  /\ session' = [user |-> user, revision |-> session.revision + 1]
  /\ history' = {} /\ DropStaleList

\* signedOut: the jobs of the remote pages are cancelled.
Wound(all) ==
  [j \in DOMAIN jobs |->
     [all[j] EXCEPT !.cancelled =
        (@ \/ (all[j].page \in RemotePages /\ all[j].stage \in {"working", "queued"}))]]

\* signOut, also cancelling the job of the account page.
SignOut ==
  /\ Ready /\ SignedIn
  /\ Changed(NoUser)
  /\ jobs' = Wound(Cancelled(UnreportedOf("account")))
  /\ UNCHANGED <<asking, window>>

-----------------------------------------------------------------------------
(* The result is reported.                                                 *)

\* Mutant of Expected: it is asked whether somebody is signed in, not who.
ExpectedBySomebody(j) == SignedIn \/ jobs[j].kind = "login"
\* "Ignore a response if the account changed mid-request."
Expected(j) == jobs[j].revision = session.revision

\* What the result was made of is forgotten.
Reported(j) ==
  [jobs EXCEPT ![j] = [@ EXCEPT !.stage = "reported", !.list = {}, !.previous = NoId, !.typed = FALSE]]
\* The order of a list is left out.
FirstItem(ids) == CHOOSE i \in ids : TRUE

\* What the box held when the refresh began is selected, or its text restored;
\* an empty box selects the first item by itself.
ShowList(j) ==
  LET list == jobs[j].list
      previous == jobs[j].previous
  IN IF jobs[j].page = "history" THEN history' = list /\ UNCHANGED combo
     ELSE /\ items' = list
          /\ fromItem' = (previous \in list \/ (previous = NoId /\ list # {}))
          /\ text' = IF previous = NoId /\ list # {} THEN FirstItem(list) ELSE previous
          /\ typed' = (jobs[j].typed /\ previous \notin list)
          /\ UNCHANGED history

Report(j) ==
  /\ jobs[j].stage = "queued"
  /\ IF jobs[j].ok /\ jobs[j].kind \in {"login", "delete", "refresh"} /\ Expected(j)
     THEN CASE jobs[j].kind = "login" -> Changed(jobs[j].user) /\ jobs' = Reported(j)
            [] jobs[j].kind = "delete" -> Changed(NoUser) /\ jobs' = Wound(Reported(j))
            [] jobs[j].kind = "refresh" -> /\ ShowList(j) /\ jobs' = Reported(j)
                                           /\ UNCHANGED session
     ELSE jobs' = Reported(j) /\ UNCHANGED <<session, history, combo>>
  /\ UNCHANGED <<asking, window>>

-----------------------------------------------------------------------------
(* The history page, the box of the restore page, the window.              *)

\* The restore button of a history row.
TakeFromHistory ==
  /\ Ready /\ \E id \in history : text' = id
  /\ fromItem' = FALSE /\ typed' = FALSE
  /\ UNCHANGED <<session, jobs, history, items, asking, window>>

SelectItem ==
  /\ Ready /\ \E id \in items : text' = id
  /\ fromItem' = TRUE /\ typed' = FALSE
  /\ UNCHANGED <<session, jobs, history, items, asking, window>>

TypeId ==
  /\ Ready /\ \E id \in Ids : text' = id
  /\ fromItem' = FALSE /\ typed' = TRUE
  /\ UNCHANGED <<session, jobs, history, items, asking, window>>

\* JobWindowGuard::eventFilter
Close ==
  /\ Ready
  /\ jobs' = Cancelled(AllActive)
  /\ window' = IF AllActive # {} THEN "closing" ELSE "closed"
  /\ UNCHANGED <<session, history, combo, asking>>

\* Mutant of ThreadFinished: the window waits for another click.
ThreadFinishedOnly(j) ==
  /\ jobs[j].stage = "reported"
  /\ jobs' = [jobs EXCEPT ![j].stage = "gone"]
  /\ UNCHANGED <<session, history, combo, asking, window>>
\* The thread is joined, and the last one lets the window close.
ThreadFinished(j) ==
  /\ jobs[j].stage = "reported"
  /\ jobs' = [jobs EXCEPT ![j].stage = "gone"]
  /\ window' = IF window = "closing" /\ \A i \in DOMAIN jobs \ {j} : ~Active(i) THEN "closed" ELSE window
  /\ UNCHANGED <<session, history, combo, asking>>

Next ==
  \/ Start \/ Restore \/ Confirm \/ CancelJob \/ SignOut
  \/ TakeFromHistory \/ SelectItem \/ TypeId \/ Close
  \/ \E j \in DOMAIN jobs : JobEnds(j) \/ Report(j) \/ ThreadFinished(j)

Spec == Init /\ [][Next]_vars

\* A job polls its flag; the event loop runs, in dialogs as well.
JobStops(j) == j \in DOMAIN jobs /\ jobs[j].cancelled /\ JobEnds(j)
Fairness ==
  \A j \in 1..MaxJobs :
    /\ WF_vars(JobStops(j))
    /\ WF_vars(j \in DOMAIN jobs /\ Report(j))
    /\ WF_vars(j \in DOMAIN jobs /\ ThreadFinished(j))
FairSpec == Spec /\ Fairness

-----------------------------------------------------------------------------
\* The pages show backups of the account signed in, and of no other, although
\* lists arrive after the session has changed.
ShownBelongsToAccount ==
  history \cup items \subseteq IF SignedIn THEN Backups(session.user) ELSE {}

\* No job goes on with the credentials of a session that has ended, unless it
\* has been told to stop.
JobsBelongToSession ==
  \A j \in DOMAIN jobs :
    jobs[j].page \in RemotePages /\ Unreported(j) /\ ~jobs[j].cancelled =>
      jobs[j].user = session.user

\* When the window is gone, no job runs any more: the program does not end
\* under a thread that is still cleaning up.
ClosedAfterJobs == window = "closed" => \A j \in DOMAIN jobs : ~Active(j)

\* What a job leads to stays within the session and the window it was started
\* in.
JobsAreContained == ShownBelongsToAccount /\ JobsBelongToSession /\ ClosedAfterJobs

\* A window that was told to close does so once the jobs it had to cancel
\* stop, if no other job is started meanwhile.
CloseCompletes ==
  window = "closing" ~>
    (window = "closed" \/ \E j \in DOMAIN jobs : Active(j) /\ ~jobs[j].cancelled)

\* "Closing the window cancels all jobs and waits" (requirements.md).
ClosingCancelsAll ==
  window = "closing" => \A j \in DOMAIN jobs : Active(j) => jobs[j].cancelled

\* "Dropping the list on account change keeps another account's IDs from being
\* restored by accident; typed IDs stay usable."  (pages_remote.cpp)
OfferedBelongsToAccount ==
  SignedIn /\ text # NoId /\ ~typed => text \in Backups(session.user)
=============================================================================
