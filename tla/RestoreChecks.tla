--------------------------- MODULE RestoreChecks ---------------------------
(***************************************************************************)
(* The local restore page (localRestorePage of GUI/pages_local.cpp): three *)
(* kinds of job over one form, which the user goes on editing while a job  *)
(* runs, and what the page says about the archive in the form.             *)
(*                                                                         *)
(* An input is a triple of archive, password and the consent to archives   *)
(* without authentication.  Blanks around a path are left out.             *)
(***************************************************************************)
EXTENDS Integers, FiniteSets

CONSTANTS
  Archives, Passwords, Destinations, Blank,
  Passing,    \* the inputs that BackupEngine::verify accepts
  Conflicts   \* function from archive and destination to what preview finds

Inputs == (Archives \cup {Blank}) \X Passwords \X BOOLEAN

ConstantsAssumption ==
  /\ Blank \notin Archives \cup Destinations
  /\ Passing \subseteq Archives \X Passwords \X BOOLEAN
  /\ DOMAIN Conflicts = Archives \X Destinations

VARIABLES
  input, destination, \* the fields
  status, \* verificationStatus
  view,   \* conflictView
  job     \* the job of the page, until its result is reported

vars == <<input, destination, status, view, job>>
NoJob == [kind |-> "none", input |-> <<Blank>>, destination |-> Blank, stage |-> "none"]

Init ==
  /\ input \in Inputs /\ input[1] = Blank /\ ~input[3]
  /\ destination = Blank /\ status = "" /\ view = {"unchecked"}
  /\ job = NoJob

\* One field at a time.
Edit(i) ==
  /\ Cardinality({k \in 1..3 : i[k] # input[k]}) = 1
  /\ input' = i /\ status' = ""
  /\ UNCHANGED <<destination, view, job>>

EditDestination ==
  /\ destination' \in Destinations \cup {Blank}
  /\ UNCHANGED <<input, status, view, job>>

\* startJob: a page has one job, whichever button started it.
Start(kind) ==
  IF job # NoJob THEN UNCHANGED job
  ELSE job' = [kind |-> kind, input |-> input, destination |-> destination, stage |-> "working"]

Verify ==
  /\ status' = ""
  /\ IF input[1] = Blank THEN UNCHANGED job ELSE Start("verify")
  /\ UNCHANGED <<input, destination, view>>

Complete == input[1] # Blank /\ destination # Blank

Preview ==
  /\ Complete /\ Start("preview")
  /\ UNCHANGED <<input, destination, status, view>>

\* Nothing can be edited while the overwrite question is asked.
Restore ==
  /\ Complete /\ Start("restore")
  /\ UNCHANGED <<input, destination, status, view>>

\* Any job may fail, or be cancelled.
JobEnds ==
  /\ job.stage = "working"
  /\ \E stage \in {"failed"} \cup (IF job.input \in Passing THEN {"succeeded"} ELSE {}) :
       job' = [job EXCEPT !.stage = stage]
  /\ UNCHANGED <<input, destination, status, view>>

\* Mutant of Applies: the result is shown for whatever is in the form.
AppliesAlways == TRUE
Applies == job.input = input

Report ==
  /\ job.stage \in {"failed", "succeeded"} /\ job' = NoJob
  /\ status' = IF job.stage = "succeeded" /\ job.kind = "verify" /\ Applies THEN "passed" ELSE status
  /\ view' = IF job.stage = "succeeded" /\ job.kind = "preview"
             THEN Conflicts[<<job.input[1], job.destination>>] ELSE view
  /\ UNCHANGED <<input, destination>>

Next ==
  \/ \E i \in Inputs : Edit(i)
  \/ EditDestination \/ Verify \/ Preview \/ Restore \/ JobEnds \/ Report

Spec == Init /\ [][Next]_vars

-----------------------------------------------------------------------------
\* While an archive is being verified, no earlier result is shown.
TypeOK ==
  /\ input \in Inputs /\ destination \in Destinations \cup {Blank}
  /\ status \in {"", "passed"} /\ job.kind \in {"none", "verify", "preview", "restore"}
  /\ job.kind = "verify" => status = "" /\ job.input[1] # Blank

\* "Passed" on the page is true of what the form holds now, although the
\* result comes back after the user has edited it.
PassedIsCurrent == status = "passed" => input \in Passing
=============================================================================
