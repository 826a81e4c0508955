---------------------------- MODULE EntryPicker ----------------------------
(***************************************************************************)
(* selectSourceEntries (GUI/select_entries.cpp): a tree of tri-state check *)
(* boxes over the entries of a source directory, filters that hide rows,   *)
(* and the include list that is made of the boxes in the end.              *)
(*                                                                         *)
(* An entry is a record [parent, depth, dir, hiddenName, category, size,   *)
(* uid]; Top is the parent of the entries at the top, and the depth is     *)
(* that of the path.  Ages and name patterns filter as categories do.      *)
(***************************************************************************)
EXTENDS Integers, FiniteSets

CONSTANTS
  Tree,       \* function from names to entries: the listing
  Top, Any,
  Selections, \* the include lists the dialog may be opened with
  Filters     \* the filters a user may set

Names == DOMAIN Tree
Children(n) == {m \in Names : Tree[m].parent = n}

\* The listing has every directory an entry is in.
TreeAssumption ==
  /\ Top \notin Names /\ IsFiniteSet(Names)
  /\ \A n \in Names :
       /\ Tree[n].parent \in {m \in Names : Tree[m].dir} \cup {Top}
       /\ Tree[n].depth \in 1..Cardinality(Names)
       /\ Tree[n].parent # Top => Tree[n].depth = Tree[Tree[n].parent].depth + 1

VARIABLES
  checked, \* Qt::CheckState of each entry
  hidden,  \* QTreeWidgetItem::isHidden
  filter,
  pc,
  opening, \* the selection the dialog was opened with
  chosen

vars == <<checked, hidden, filter, pc, opening, chosen>>
States == {"no", "some", "all"}

\* The entries on the way up from n, and those below it.
Ancestors[n \in Names] ==
  LET p == Tree[n].parent IN IF p = Top THEN {} ELSE {p} \cup Ancestors[p]
Below(n) == {m \in Names : n \in Ancestors[m]}

-----------------------------------------------------------------------------
(* The check boxes.                                                        *)

\* setSubtreeState
WithSubtree(c, n, state) == [m \in Names |-> IF m = n \/ m \in Below(n) THEN state ELSE c[m]]

\* What a directory shows of the states of its children.
Summary(states) ==
  IF \A s, t \in states : s = t THEN CHOOSE s \in states : TRUE ELSE "some"

\* The boxes once the directories in D have followed their children, those
\* below before those above.
Settled(c, D) ==
  LET now[n \in Names] == IF n \in D THEN Summary({now[m] : m \in Children(n)}) ELSE c[n]
  IN now

\* refreshAncestors: from the parent upwards.
Refreshed(c, n) == Settled(c, Ancestors[n])

-----------------------------------------------------------------------------
(* The filters.                                                            *)

MiB == 2  \* sizes are in halves of it
MatchesSize(e, band) ==
  \/ band = Any
  \/ /\ ~e.dir
     /\ \/ band = "empty" /\ e.size = 0
        \/ band = "small" /\ e.size < MiB
        \/ band = "large" /\ e.size >= MiB

Matches(n, f) ==
  /\ f.uid \in {Any, Tree[n].uid}
  /\ f.dir \in {Any, Tree[n].dir}
  /\ f.category # Any => ~Tree[n].dir /\ Tree[n].category = f.category
  /\ MatchesSize(Tree[n], f.size)

\* What applyFilter shows: an entry is hidden with a hidden name above it, and
\* otherwise shown with whatever matches below it.  Below a hidden name the
\* flags stay as they were.
Dropped(n, f) == ~f.showHidden /\ \E m \in {n} \cup Ancestors[n] : Tree[m].hiddenName
Filtered(f) ==
  [n \in Names |->
     IF \E m \in Ancestors[n] : Dropped(m, f) THEN hidden[n]
     ELSE Dropped(n, f) \/ \A m \in {n} \cup Below(n) : ~Matches(m, f) \/ Dropped(m, f)]

\* The rows on the screen.
Visible(n) == \A m \in {n} \cup Ancestors[n] : ~hidden[m]

-----------------------------------------------------------------------------
NoFilter == [uid |-> Any, dir |-> Any, category |-> Any, size |-> Any, showHidden |-> TRUE]
Nothing == [n \in Names |-> "no"]
Everything == [n \in Names |-> "all"]

Included(s) == {n \in Names : n \in s \/ Ancestors[n] \cap s # {}}

\* An include list checks what it names, with all that is below, and refreshes
\* what is above; an entry that is gone has no box.  Whatever the order of the
\* list, the directories above follow in the end.
Opened(s) ==
  Settled([n \in Names |-> IF n \in Included(s) THEN "all" ELSE "no"],
          UNION {Ancestors[n] : n \in s \cap Names})

Init ==
  /\ opening \in Selections
  /\ checked = IF opening = {} THEN Everything ELSE Opened(opening)
  /\ hidden = [n \in Names |-> FALSE] /\ filter = NoFilter
  /\ pc = "open" /\ chosen = {}

Set(c) ==
  /\ pc = "open" /\ checked' = c
  /\ UNCHANGED <<hidden, filter, pc, opening, chosen>>

ApplyFilter(f) ==
  /\ pc = "open" /\ filter' = f /\ hidden' = Filtered(f)
  /\ UNCHANGED <<checked, pc, opening, chosen>>

\* A click on a box: anything but a full check mark becomes one.
Toggle(n) ==
  /\ Visible(n)
  /\ Set(Refreshed(WithSubtree(checked, n, IF checked[n] = "all" THEN "no" ELSE "all"), n))

\* Mutant of Forced: a row's own flag decides, not those above it.
ForcedByFlag(n, state) == ~hidden[n] /\ (state = "no" \/ ~Tree[n].dir)
\* The rows setFilteredState sets itself.
Forced(n, state) == Visible(n) /\ (state = "no" \/ ~Tree[n].dir)
\* Every directory with entries follows.
SetFilteredState(state) ==
  Set(Settled([n \in Names |-> IF Forced(n, state) THEN state ELSE checked[n]],
              {n \in Names : Children(n) # {}}))

SelectAll == Set(Everything)
SelectNone == Set(Nothing)

\* A checked entry whose parent is not: collectChecked does not look below.
CollectChecked ==
  {n \in Names : checked[n] = "all" /\ \A m \in Ancestors[n] : checked[m] = "some"}

WholeTree == \A n \in Children(Top) : checked[n] = "all"

\* The button is disabled while nothing is selected.
Accept ==
  /\ pc = "open"
  /\ Names # {} => \E n \in Names : checked[n] = "all"
  /\ pc' = "accepted" /\ chosen' = IF WholeTree THEN {} ELSE CollectChecked
  /\ UNCHANGED <<checked, hidden, filter, opening>>

Cancel ==
  /\ pc = "open" /\ pc' = "rejected" /\ chosen' = opening
  /\ UNCHANGED <<checked, hidden, filter, opening>>

Next ==
  \/ \E f \in Filters : ApplyFilter(f)
  \/ \E n \in Names : Toggle(n)
  \/ \E s \in {"no", "all"} : SetFilteredState(s)
  \/ SelectAll \/ SelectNone \/ Accept \/ Cancel

Spec == Init /\ [][Next]_vars

-----------------------------------------------------------------------------
\* A directory with entries shows what they show, at every depth and however
\* the boxes were set: checked means everything below, clear means nothing.
TypeOK ==
  /\ checked \in [Names -> States] /\ hidden \in [Names -> BOOLEAN]
  /\ pc \in {"open", "accepted", "rejected"} /\ chosen \subseteq Names \cup opening
  /\ \A n \in Names : Children(n) # {} => checked[n] = Summary({checked[m] : m \in Children(n)})

Selected == {n \in Names : checked[n] = "all"}

\* The include list stands for the checked entries, no more and no less: an
\* empty one, which means everything, for all of them only.
ChosenIsSelected ==
  pc = "accepted" => (IF chosen = {} THEN Names ELSE Included(chosen)) = Selected

\* "Minimal selection set": nothing is listed below something listed.
ChosenIsMinimal ==
  pc = "accepted" => \A n \in chosen \cap Names : Ancestors[n] \cap chosen = {}

\* Checking or unchecking what a filter shows leaves every file it hides as it
\* was, not even a directory that would be archived whole brings one in.
Keeps ==
  \A s \in {"no", "all"} : SetFilteredState(s) =>
    \A n \in Names : ~Visible(n) /\ ~Tree[n].dir => checked'[n] = checked[n]
=============================================================================
