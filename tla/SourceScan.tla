----------------------------- MODULE SourceScan -----------------------------
(***************************************************************************)
(* scanDirectory and listSourceEntries (core/entry.cpp): the walk that     *)
(* decides which entries an archive has, filtered by the paths the user    *)
(* has selected, while other programs move directories about.              *)
(*                                                                         *)
(* A path below the source is the sequence of its names.  The recursive    *)
(* iterator lists a directory by path and keeps the type it has read       *)
(* there; makeEntry looks at the path again.  Hard links, contents and     *)
(* limits are in CreateArchive and PackFormat.                             *)
(***************************************************************************)
EXTENDS Integers, Sequences, SequencesExt, FiniteSets

CONSTANTS
  Tree,        \* the paths that may exist
  Here, Up,    \* the components "." and ".."
  Requests,    \* values of options.includes
  MaxChanges   \* bound: the steps of other programs

TreeAssumption ==
  /\ \A p \in Tree : /\ p \in Seq(Range(p)) /\ p # <<>> /\ Here \notin Range(p)
                     /\ Len(p) > 1 => Front(p) \in Tree
  /\ \A R \in Requests : \A raw \in R : raw.parts \in Seq(Range(raw.parts))
  /\ MaxChanges \in Nat

VARIABLES
  kind,       \* what stands at a path: "none", "file", "dir" or "link"
  listing,    \* whether this is the scan of listSourceEntries
  request,    \* options.includes
  selected,   \* what normalizeIncludes has made of it
  pc,
  stack,      \* the open directories, each with the names still to be read
  current,    \* the path the iterator stands at
  isDirectory,  \* the type it has read for it
  entries,    \* what makeEntry recorded
  touched,    \* history: paths other programs have changed
  changes

walk == <<stack, current, isDirectory, entries>>
others == <<kind, touched, changes>>
vars == <<listing, request, selected, pc, walk, others>>

Kinds == {"none", "file", "dir", "link"}
Below(p) == {q \in Tree : IsPrefix(p, q)}
Children(d) == {p \in Tree : Front(p) = d}
\* A tree: what stands in a directory has that directory above it.
IsTree(k) == \A p \in Tree : k[p] # "none" /\ Len(p) > 1 => k[Front(p)] = "dir"
Trees == {k \in [Tree -> Kinds] : IsTree(k)}

TypeOK ==
  /\ kind \in Trees /\ listing \in BOOLEAN
  /\ \A p \in selected : p # <<>> /\ Here \notin Range(p)
  /\ pc \in {"normalize", "walk", "record", "increment", "check", "done",
             "failed", "aborted"}
  /\ \A i \in DOMAIN stack : /\ stack[i].dir \in Tree \cup {<<>>}
                             /\ stack[i].left \subseteq Children(stack[i].dir)
  /\ \A i \in 2..Len(stack) : Front(stack[i].dir) = stack[i - 1].dir
  /\ current \in Tree \cup {<<>>} /\ isDirectory \in BOOLEAN
  /\ entries \in [Tree -> Kinds]
  /\ touched \subseteq Tree /\ changes \in 0..MaxChanges

Idle == /\ stack = <<>> /\ current = <<>> /\ isDirectory = FALSE
        /\ entries = [p \in Tree |-> "none"]

Init ==
  /\ kind \in Trees
  /\ listing \in BOOLEAN /\ request \in (IF listing THEN {{}} ELSE Requests)
  /\ selected = {} /\ pc = "normalize"
  /\ Idle
  /\ touched = {} /\ changes = 0

-----------------------------------------------------------------------------
\* Another program removes or makes an entry, or renames a whole directory
\* away or into place.
Change(p) ==
  /\ pc \in {"walk", "record", "increment"} /\ changes < MaxChanges
  /\ \E k \in Trees : /\ k # kind
                      /\ \A q \in Tree \ Below(p) : k[q] = kind[q]
                      /\ kind' = k
  /\ touched' = touched \cup Below(p) /\ changes' = changes + 1
  /\ UNCHANGED <<listing, request, selected, pc, walk>>

\* lexically_normal of a path without "..", without a trailing slash.
Clean(parts) ==
  LET kept[n \in 0..Len(parts)] ==
        IF n = 0 THEN <<>>
        ELSE IF parts[n] = Here THEN kept[n - 1] ELSE Append(kept[n - 1], parts[n])
  IN kept[Len(parts)]
Proper(raw) ==
  /\ ~raw.absolute /\ Up \notin Range(raw.parts)
  /\ Clean(raw.parts) # <<>>

\* normalizeIncludes, and the iterator opens the source.
NormalizeIncludes ==
  /\ pc = "normalize"
  /\ IF \A raw \in request : Proper(raw)
     THEN /\ selected' = {Clean(raw.parts) : raw \in request}
          /\ stack' = <<[dir |-> <<>>, left |-> Children(<<>>)]>>
          /\ pc' = "walk"
     ELSE pc' = "failed" /\ UNCHANGED <<selected, stack>>
  /\ UNCHANGED <<listing, request, current, isDirectory, entries, others>>

\* readdir gives a name, and the type the entry has now; one that is gone is
\* passed over.
ReadName(p) ==
  /\ pc = "walk" /\ stack # <<>> /\ p \in Last(stack).left
  /\ stack' = [stack EXCEPT ![Len(stack)].left = @ \ {p}]
  /\ IF kind[p] = "none"
     THEN UNCHANGED <<pc, current, isDirectory>>
     ELSE current' = p /\ isDirectory' = (kind[p] = "dir") /\ pc' = "record"
  /\ UNCHANGED <<listing, request, selected, entries, others>>

\* The directory has been read: back to the one above.
Leave ==
  /\ pc = "walk" /\ stack # <<>> /\ Last(stack).left = {}
  /\ stack' = Front(stack)
  /\ pc' = IF Len(stack) = 1 THEN "check" ELSE "walk"
  /\ UNCHANGED <<listing, request, selected, current, isDirectory, entries, others>>

SelectsBelow(p) == \E s \in selected : s # p /\ IsPrefix(p, s)
\* Mutant of InsideSelection: the directly selected directories' entries only.
JustInside(p) == Front(p) \in selected
InsideSelection(p) == \E n \in 1..Len(p) - 1 : SubSeq(p, 1, n) \in selected
Wanted(p) == selected = {} \/ p \in selected \/ SelectsBelow(p) \/ InsideSelection(p)

\* What is not wanted is passed over with all that is below it; makeEntry
\* looks at the path again.
Record ==
  /\ pc = "record"
  /\ IF ~Wanted(current) THEN pc' = "walk" /\ UNCHANGED entries
     ELSE IF kind[current] = "none" THEN pc' = "failed" /\ UNCHANGED entries
     ELSE entries' = [entries EXCEPT ![current] = kind[current]] /\ pc' = "increment"
  /\ UNCHANGED <<listing, request, selected, stack, current, isDirectory, others>>

\* The iterator goes down where it has read a directory, never through a link.
Increment ==
  /\ pc = "increment"
  /\ IF ~isDirectory THEN pc' = "walk" /\ UNCHANGED stack
     ELSE IF kind[current] # "dir" THEN pc' = "failed" /\ UNCHANGED stack
     ELSE /\ stack' = Append(stack, [dir |-> current, left |-> Children(current)])
          /\ pc' = "walk"
  /\ UNCHANGED <<listing, request, selected, current, isDirectory, entries, others>>

Listed == {p \in Tree : entries[p] # "none"}

\* "selected entry does not exist in the source"
CheckSelection ==
  /\ pc = "check"
  /\ pc' = IF selected \subseteq Listed THEN "done" ELSE "failed"
  /\ UNCHANGED <<listing, request, selected, walk, others>>

\* The paths of a listing are selected, some of them or all, and the archive is
\* made.
SelectFromListing ==
  /\ pc = "done" /\ listing
  /\ \E S \in SUBSET Listed : request' = {[absolute |-> FALSE, parts |-> p] : p \in S}
  /\ listing' = FALSE /\ pc' = "normalize"
  /\ stack' = <<>> /\ current' = <<>> /\ isDirectory' = FALSE
  /\ entries' = [p \in Tree |-> "none"]
  /\ UNCHANGED <<selected, others>>

\* Cancellation, or an error of the file system.
Abort ==
  /\ pc \in {"walk", "record", "increment"}
  /\ pc' = "aborted"
  /\ UNCHANGED <<listing, request, selected, walk, others>>

Next ==
  \/ \E p \in Tree : Change(p) \/ ReadName(p)
  \/ NormalizeIncludes \/ Leave \/ Record \/ Increment \/ CheckSelection
  \/ SelectFromListing \/ Abort

Spec == Init /\ [][Next]_vars

-----------------------------------------------------------------------------
Related(p, q) == IsPrefix(p, q) \/ IsPrefix(q, p)

\* A finished scan has every selected entry, nothing that is neither above nor
\* below a selected one, and of the entries nobody has moved all of these: an
\* archive of a selection never looks complete when it is not.
SelectionIsExact ==
  pc = "done" =>
    /\ selected \subseteq Listed
    /\ \A p \in Tree :
         LET wanted == selected = {} \/ \E s \in selected : Related(s, p) IN
         /\ p \in Listed => wanted
         /\ p \notin touched => (p \in Listed) = (wanted /\ kind[p] # "none")

\* What a listing has returned can be selected: while nobody changes the
\* source, a scan fails only for a request that is not proper or names nothing.
RefusedForAReason ==
  pc = "failed" =>
    \/ touched # {}
    \/ \E raw \in request : ~Proper(raw) \/ Clean(raw.parts) \notin Tree
                            \/ kind[Clean(raw.parts)] = "none"

\* validateEntries: every entry is below directories.
Valid == \A p \in Listed : Len(p) > 1 => entries[Front(p)] = "dir"

\* docs/requirements.md:149: the archive that a successful scan leads to passes
\* its own verification.
ArchiveVerifies == pc = "done" => Valid

\* docs/design.md:360: dots within a selected path are resolved, and only a
\* path that leaves the source is refused.
Resolved(parts) ==
  FoldLeft(LAMBDA done, n : IF n = Here THEN done
                            ELSE IF n = Up /\ done # <<>> THEN Front(done)
                            ELSE Append(done, n), <<>>, parts)
DotsAreResolved ==
  pc = "failed" /\ selected = {} =>
    \E raw \in request : \/ raw.absolute \/ Resolved(raw.parts) = <<>>
                         \/ Up \in Range(Resolved(raw.parts))
=============================================================================
