------------------------------- MODULE MCGui -------------------------------
(***************************************************************************)
(* The desktop program on small instances, one part at a time: "active"    *)
(* says which, and the variables of the others stand still.                *)
(*                                                                         *)
(*   jobs     GuiJobs: one account after the other, with three jobs        *)
(*   picker   EntryPicker: nine entries, seven filters                     *)
(*   restore  RestoreChecks: two archives, two passwords                   *)
(***************************************************************************)
EXTENDS GuiJobs, TLC

CONSTANTS
  Tree, Top, any, Selections, Filters,           \* of EntryPicker
  Archives, Passwords, Destinations, Blank, Passing, Conflicts   \* of RestoreChecks

VARIABLES
  active,
  checked, hidden, filter, pc, opening, picked,
  input, destination, status, view, task

-----------------------------------------------------------------------------
E == INSTANCE EntryPicker WITH Any <- any, chosen <- picked
C == INSTANCE RestoreChecks WITH job <- task

ASSUME PickerAssumption == E!TreeAssumption
ASSUME ChecksAssumption == C!ConstantsAssumption

-----------------------------------------------------------------------------
pickerVars == <<checked, hidden, filter, pc, opening, picked>>
restoreVars == <<input, destination, status, view, task>>
mcVars == <<active, vars, pickerVars, restoreVars>>

NoPicker == checked = 0 /\ hidden = 0 /\ filter = 0 /\ pc = 0 /\ opening = 0 /\ picked = 0
NoRestore == input = 0 /\ destination = 0 /\ status = 0 /\ view = 0 /\ task = 0

MCInit ==
  \/ active = "jobs" /\ Init /\ NoPicker /\ NoRestore
  \/ active = "picker" /\ E!Init /\ Init /\ NoRestore
  \/ active = "restore" /\ C!Init /\ Init /\ NoPicker

MCNext ==
  /\ active' = active
  /\ \/ active = "jobs" /\ Next /\ UNCHANGED <<pickerVars, restoreVars>>
     \/ active = "picker" /\ E!Next /\ UNCHANGED <<vars, restoreVars>>
     \/ active = "restore" /\ C!Next /\ UNCHANGED <<vars, pickerVars>>

MCSpec == MCInit /\ [][MCNext]_mcVars

\* There are no jobs, and so nothing fair, in the other parts.
MCFairSpec == MCSpec /\ Fairness

-----------------------------------------------------------------------------
\* What a page says is so: the include list of the entry picker stands for the
\* boxes that are checked, and is minimal; "passed" on the restore page is true
\* of what the form holds now.
PagesAreTrue ==
  /\ active = "picker" => E!TypeOK /\ E!ChosenIsSelected /\ E!ChosenIsMinimal
  /\ active = "restore" => C!TypeOK /\ C!PassedIsCurrent

\* Checking or unchecking what a filter shows leaves every file it hides as it
\* was, not even a directory that would be archived whole brings one in.
HiddenIsKept == [][active = "picker" => E!Keeps]_mcVars

-----------------------------------------------------------------------------
\* The values of MCGui.cfg.


\* One of the users has the identifier of a backup on paper.
TypedIds == {<<CHOOSE u \in Users : TRUE, 1>>}

File(parent, depth, category, size, uid) ==
  [parent |-> parent, depth |-> depth, dir |-> FALSE, hiddenName |-> FALSE,
   category |-> category, size |-> size, uid |-> uid]
Directory(parent, depth, hiddenName) ==
  [parent |-> parent, depth |-> depth, dir |-> TRUE, hiddenName |-> hiddenName,
   category |-> "", size |-> 0, uid |-> 0]
\* d, d/e, d/e/x, d/e/y, d/z; .h, .h/w; an empty directory v; a file t.
Listing == [n \in {"d", "de", "dex", "dey", "dz", "h", "hw", "v", "t"} |->
  CASE n = "d" -> Directory("top", 1, FALSE)
    [] n = "de" -> Directory("d", 2, FALSE)
    [] n = "dex" -> File("de", 3, "code", 0, 1)
    [] n = "dey" -> File("de", 3, "image", 1, 0)
    [] n = "dz" -> File("d", 2, "code", 2, 0)
    [] n = "h" -> Directory("top", 1, TRUE)
    [] n = "hw" -> File("h", 2, "code", 2, 1)
    [] n = "v" -> Directory("top", 1, FALSE)
    [] n = "t" -> File("top", 1, "image", 2, 1)]

SetSelections == {{}, {"de"}, {"dex", "gone"}, {"hw", "t"}, {"gone"}, {"d", "dex"}}

Filter(uid, dir, category, size, showHidden) ==
  [uid |-> uid, dir |-> dir, category |-> category, size |-> size, showHidden |-> showHidden]
SetFilters ==
  {Filter(any, any, any, any, TRUE), Filter(any, any, any, any, FALSE),
   Filter(any, any, "code", any, FALSE), Filter(1, any, any, any, TRUE),
   Filter(any, TRUE, any, any, TRUE), Filter(any, any, any, "empty", TRUE),
   Filter(any, FALSE, any, "small", TRUE)}

\* Archive b needs the consent, a the first password.
PassingInputs ==
  {<<"a", "p", FALSE>>, <<"a", "p", TRUE>>, <<"b", "p", TRUE>>, <<"b", "q", TRUE>>}
FoundConflicts == [pair \in {"a", "b"} \X {"d"} |-> IF pair[1] = "a" THEN {"x"} ELSE {}]
=============================================================================
