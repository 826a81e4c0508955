------------------------------ MODULE Restore ------------------------------
(***************************************************************************)
(* extractEntries (core/restore.cpp), called by BackupEngine::restore with *)
(* entries that have been decoded and validated: a preflight over the      *)
(* destination, directories, then every other entry as a temporary node    *)
(* that is completed before it is committed to its name, and the metadata  *)
(* of directories last.  Other programs change the destination meanwhile.  *)
(*                                                                         *)
(* A node stands at a path.  Its inode is the entry that wrote it, or      *)
(* Foreign.  An entry has so many bytes; the size of a node is the space   *)
(* it has on the disk, which is given out in blocks.  Space for anything   *)
(* but regular files is left out, and there is one volume.                 *)
(***************************************************************************)
EXTENDS Integers, Sequences, FiniteSets

CONSTANTS
  Entries,     \* sequence of [path, type, parent, link, depth, size]
  Nothing,     \* no node, or no temporary node
  Foreign,     \* the inode of whatever is not ours
  Space,       \* the free space the preflight may find
  Block,       \* the unit in which the disk gives out space
  MaxOthers    \* bound: the steps of other programs

Types == {"Directory", "Regular", "Hardlink", "Special"}
Paths == {Entries[k].path : k \in DOMAIN Entries}
\* The entry with a path.
Of(p) == Entries[CHOOSE k \in DOMAIN Entries : Entries[k].path = p]
Directories == {p \in Paths : Of(p).type = "Directory"}
Leaves == Paths \ Directories

\* What validateEntries has established.
EntriesAssumption ==
  /\ Entries \in Seq({Entries[k] : k \in DOMAIN Entries})
  /\ \A j, k \in DOMAIN Entries : Entries[j].path = Entries[k].path => j = k
  /\ \A k \in DOMAIN Entries :
       /\ Entries[k].type \in Types /\ Entries[k].size \in Nat
       /\ Entries[k].parent # Nothing => Entries[k].parent \in Directories
       /\ Entries[k].type = "Hardlink" =>
            \E j \in 1..k - 1 : Entries[j].path = Entries[k].link /\ Entries[j].type = "Regular"
BoundsAssumption == Space \subseteq Nat /\ Block \in Nat \ {0} /\ MaxOthers \in Nat

MaxSize == 2
Node == [type : {"file", "dir"}, inode : Paths \cup {Foreign}, size : 0..MaxSize,
         links : 1..2]
SentinelAssumption == Nothing \notin Paths \cup Node /\ Foreign \notin Paths

VARIABLES
  overwrite,   \* options.overwrite
  available,   \* the space the preflight finds
  node,        \* what stands at a path, or Nothing
  pc, k,       \* the entry being looked at
  occupied, required,  \* the preflight's budget
  seen,        \* the directories the current pass over them is done with
  tmp,         \* the inode of the temporary node, or Nothing
  restored,    \* restoredFiles: the regular entries written and synchronized
  full,        \* inodes whose content is complete
  meta,        \* inodes and directories whose metadata is as archived
  entryCount,
  committed,   \* history: the leaves that have been committed
  used,        \* history: the bytes written, less the space released
  rest,        \* history: what they leave empty in the last block of a file
  touched,     \* history: paths other programs have changed
  others       \* their number of steps

fixed == <<overwrite, available>>
budget == <<occupied, required>>
inodes == <<restored, full>>
history == <<used, rest, touched, others>>
vars == <<fixed, node, pc, k, budget, seen, tmp, inodes, meta, entryCount, committed, history>>

ForeignFile(size, links) ==
  [type |-> "file", inode |-> Foreign, size |-> size, links |-> links]
ForeignDir == [type |-> "dir", inode |-> Foreign, size |-> 0, links |-> 1]
Ours(type, inode) == [type |-> type, inode |-> inode, size |-> 0, links |-> 1]

Exists(p) == node[p] # Nothing
IsDir(p) == Exists(p) /\ node[p].type = "dir"
IsForeign(p) == Exists(p) /\ node[p].inode = Foreign

Stages == {"preflight", "directories", "next", "write", "metadata", "sync",
           "commit", "unlink", "directoryMetadata", "done", "failed", "uncounted"}
Working == Stages \ {"done", "failed", "uncounted"}

TypeOK ==
  /\ overwrite \in BOOLEAN /\ available \in Space
  /\ node \in [Paths -> Node \cup {Nothing}]
  /\ pc \in Stages /\ k \in 1..Len(Entries) + 1
  /\ occupied \in Nat /\ required \in Nat
  /\ seen \subseteq Directories /\ tmp \in Paths \cup {Nothing}
  /\ (tmp # Nothing) = (pc \in {"write", "metadata", "sync", "commit", "unlink"})
  /\ restored \subseteq Paths /\ full \subseteq Paths /\ meta \subseteq Paths
  /\ entryCount \in 0..Len(Entries) /\ committed \subseteq Leaves
  /\ used \in Int /\ rest \in Nat /\ touched \subseteq Paths /\ others \in 0..MaxOthers

\* Whatever stands in the destination, below directories.
Init ==
  /\ overwrite \in BOOLEAN /\ available \in Space
  /\ node \in [Paths -> {Nothing, ForeignDir, ForeignFile(0, 1), ForeignFile(MaxSize, 1),
                         ForeignFile(MaxSize, 2)}]
  /\ \A p \in Paths : Exists(p) /\ Of(p).parent # Nothing => IsDir(Of(p).parent)
  /\ pc = "preflight" /\ k = 1
  /\ occupied = 0 /\ required = 0
  /\ seen = {} /\ tmp = Nothing /\ restored = {} /\ full = {} /\ meta = {}
  /\ entryCount = 0 /\ committed = {}
  /\ used = 0 /\ rest = 0 /\ touched = {} /\ others = 0

-----------------------------------------------------------------------------
(* Other programs put a file or a directory at a path, or take a file away. *)

Interfere(p) ==
  /\ pc \in Working /\ others < MaxOthers
  /\ ~IsDir(p)
  /\ Of(p).parent # Nothing => IsDir(Of(p).parent)
  /\ \E x \in {Nothing, ForeignDir, ForeignFile(0, 1)} :
       x # node[p] /\ node' = [node EXCEPT ![p] = x]
  /\ touched' = touched \cup {p} /\ others' = others + 1
  /\ UNCHANGED <<fixed, pc, k, budget, seen, tmp, inodes, meta, entryCount, committed,
                 used, rest>>

-----------------------------------------------------------------------------
(* extractEntries.                                                         *)

Current == Entries[k]

\* Any exception, a cancellation included. TemporaryNode removes the
\* temporary name.
Fail ==
  /\ pc \in Working
  /\ pc' = "failed" /\ tmp' = Nothing
  /\ UNCHANGED <<fixed, node, k, budget, seen, inodes, meta, entryCount, committed, history>>

\* The space that replacing the node at a path releases (st_blocks).
Reclaimed(p) ==
  IF Exists(p) /\ node[p].type = "file" /\ node[p].links = 1 THEN node[p].size ELSE 0

Smaller(a, b) == IF a < b THEN a ELSE b
Larger(a, b) == IF a < b THEN b ELSE a

\* The budget: the new file is written while the old one still stands. It is
\* entered with its bytes, the old one with its space.
Account ==
  LET with == occupied + Current.size IN
  /\ required' = Larger(required, with)
  /\ occupied' = with - Smaller(with, Reclaimed(Current.path))

\* preflightRestore: the next entry.
Preflight ==
  /\ pc = "preflight" /\ k <= Len(Entries)
  /\ Exists(Current.path) => /\ overwrite
                             /\ (Current.type = "Directory") = IsDir(Current.path)
  /\ IF Current.type = "Regular" THEN Account ELSE UNCHANGED budget
  /\ k' = k + 1
  /\ UNCHANGED <<fixed, node, pc, seen, tmp, inodes, meta, entryCount, committed, history>>

PreflightEnd ==
  /\ pc = "preflight" /\ k = Len(Entries) + 1
  /\ required <= available
  /\ pc' = "directories"
  /\ UNCHANGED <<fixed, node, k, budget, seen, tmp, inodes, meta, entryCount, committed, history>>

Shallowest(S) == {p \in S : \A q \in S : Of(p).depth <= Of(q).depth}
Deepest(S) == {p \in S : \A q \in S : Of(q).depth <= Of(p).depth}

ParentReady(p) == Of(p).parent # Nothing => IsDir(Of(p).parent)
\* A directory whose own entries change loses its times.
Disturb(p) == meta \ {Of(p).parent}

\* ensureDirectoryAt, from the top down.
MakeDirectory(p) ==
  /\ pc = "directories" /\ p \in Shallowest(Directories \ seen)
  /\ ParentReady(p)
  /\ IF Exists(p) THEN IsDir(p) /\ overwrite /\ UNCHANGED node
                  ELSE node' = [node EXCEPT ![p] = Ours("dir", p)]
  /\ seen' = seen \cup {p}
  /\ IF seen' = Directories
     THEN pc' = "next" /\ k' = 1 ELSE UNCHANGED <<pc, k>>
  /\ meta' = Disturb(p)
  /\ UNCHANGED <<fixed, budget, tmp, inodes, entryCount, committed, history>>

SkipDirectory ==
  /\ pc = "next" /\ k <= Len(Entries) /\ Current.type = "Directory"
  /\ k' = k + 1
  /\ UNCHANGED <<fixed, node, pc, budget, seen, tmp, inodes, meta, entryCount, committed, history>>

\* A temporary file, or a node made with its final content.
OpenTemporary ==
  /\ pc = "next" /\ k <= Len(Entries) /\ Current.type \in {"Regular", "Special"}
  /\ ParentReady(Current.path)
  /\ tmp' = Current.path
  /\ pc' = IF Current.type = "Regular" THEN "write" ELSE "metadata"
  /\ full' = IF Current.type = "Special" THEN full \cup {Current.path} ELSE full
  /\ meta' = Disturb(Current.path)
  /\ UNCHANGED <<fixed, node, k, budget, seen, restored, entryCount, committed, history>>

\* Mutant of LinkTemporary: the linked inode is not looked at.
LinkAnything ==
  /\ pc = "next" /\ k <= Len(Entries) /\ Current.type = "Hardlink"
  /\ ParentReady(Current.path) /\ ParentReady(Current.link)
  /\ Current.link \in restored /\ Exists(Current.link) /\ ~IsDir(Current.link)
  /\ tmp' = IF IsForeign(Current.link) THEN Current.path ELSE Current.link
  /\ pc' = "commit" /\ meta' = Disturb(Current.path)
  /\ UNCHANGED <<fixed, node, k, budget, seen, inodes, entryCount, committed, history>>
\* A temporary link to whatever stands at the target, which must be the file
\* restored there.
LinkTemporary ==
  /\ pc = "next" /\ k <= Len(Entries) /\ Current.type = "Hardlink"
  /\ ParentReady(Current.path) /\ ParentReady(Current.link)
  /\ Current.link \in restored /\ Exists(Current.link)
  /\ node[Current.link].inode = Current.link
  /\ tmp' = Current.link
  /\ pc' = "commit" /\ meta' = Disturb(Current.path)
  /\ UNCHANGED <<fixed, node, k, budget, seen, inodes, entryCount, committed, history>>

\* The space of a file with so many bytes: the least number of whole blocks.
InBlocks(bytes) == {space \in bytes..bytes + Block - 1 : space % Block = 0}

\* The content is copied from the decoded stream.
WriteContent ==
  /\ pc = "write"
  /\ full' = full \cup {tmp} /\ used' = used + Current.size
  /\ \E space \in InBlocks(Current.size) : rest' = rest + (space - Current.size)
  /\ pc' = "metadata"
  /\ UNCHANGED <<fixed, node, k, budget, seen, tmp, restored, meta, entryCount, committed, touched, others>>

ApplyMetadata ==
  /\ pc = "metadata"
  /\ meta' = meta \cup {tmp}
  /\ pc' = IF Current.type = "Regular" THEN "sync" ELSE "commit"
  /\ UNCHANGED <<fixed, node, k, budget, seen, tmp, inodes, entryCount, committed, history>>

SyncFile ==
  /\ pc = "sync"
  /\ restored' = restored \cup {tmp}
  /\ pc' = "commit"
  /\ UNCHANGED <<fixed, node, k, budget, seen, tmp, full, meta, entryCount, committed, history>>

Place ==
  /\ node' = [node EXCEPT ![Current.path] = Ours("file", tmp)]
  /\ used' = used - Reclaimed(Current.path)
  /\ committed' = committed \cup {Current.path}
  /\ meta' = Disturb(Current.path)
Counted == entryCount' = entryCount + 1 /\ k' = k + 1 /\ pc' = "next" /\ tmp' = Nothing

\* commitNodeAt: a rename that replaces anything but a directory, or one that
\* replaces nothing; where that does not exist, a link first.
CommitNode ==
  /\ pc = "commit"
  /\ ~IsDir(Current.path) /\ (Exists(Current.path) => overwrite)
  /\ Place
  /\ \/ Counted
     \/ ~overwrite /\ pc' = "unlink" /\ UNCHANGED <<entryCount, k, tmp>>
  /\ UNCHANGED <<fixed, budget, seen, inodes, rest, touched, others>>

\* The second half of commitNodeAt without renameat2.
UnlinkTemporary ==
  /\ pc = "unlink"
  /\ Counted
  /\ meta' = Disturb(Current.path)
  /\ UNCHANGED <<fixed, node, budget, seen, inodes, committed, history>>
\* It fails, and the call with it, before the entry is counted.
UnlinkFailed ==
  /\ pc = "unlink"
  /\ pc' = "uncounted" /\ tmp' = Nothing
  /\ UNCHANGED <<fixed, node, k, budget, seen, inodes, meta, entryCount, committed, history>>

LeavesEnd ==
  /\ pc = "next" /\ k = Len(Entries) + 1
  /\ pc' = "directoryMetadata" /\ seen' = {}
  /\ UNCHANGED <<fixed, node, k, budget, tmp, inodes, meta, entryCount, committed, history>>

\* Directories get their metadata from the bottom up.
ApplyDirectoryMetadata(p) ==
  /\ pc = "directoryMetadata" /\ p \in Deepest(Directories \ seen)
  /\ ParentReady(p) /\ IsDir(p)
  /\ meta' = meta \cup {p} /\ seen' = seen \cup {p}
  /\ UNCHANGED <<fixed, node, pc, k, budget, tmp, inodes, entryCount, committed, history>>

Finish ==
  /\ pc = "directoryMetadata" /\ seen = Directories
  /\ entryCount' = Len(Entries) /\ pc' = "done"
  /\ UNCHANGED <<fixed, node, k, budget, seen, tmp, inodes, meta, committed, history>>

\* What a restore does once its preflight is over; a commit never fails after
\* the name exists except in UnlinkFailed.
Extract ==
  \/ Preflight \/ PreflightEnd
  \/ \E p \in Directories : MakeDirectory(p) \/ ApplyDirectoryMetadata(p)
  \/ SkipDirectory \/ OpenTemporary \/ LinkTemporary
  \/ WriteContent \/ ApplyMetadata \/ SyncFile \/ CommitNode \/ UnlinkTemporary
  \/ LeavesEnd \/ Finish

Next ==
  \/ \E p \in Paths : Interfere(p)
  \/ Extract
  \/ pc # "unlink" /\ Fail
  \/ UnlinkFailed

Spec == Init /\ [][Next]_vars

-----------------------------------------------------------------------------
\* A name is given to a node only when its content and metadata are complete
\* and a regular file is on disk: no reader of the destination ever sees half
\* a file, and a failure leaves only whole ones.
CommittedIsWhole ==
  \A p \in Leaves : Exists(p) /\ ~IsForeign(p) =>
    /\ node[p].inode \in full \cap meta
    /\ Of(node[p].inode).type = "Regular" => node[p].inode \in restored

\* What is committed under a path is its own entry, and for a hard link the
\* very inode restored at its target, whoever replaces that target meanwhile.
CommittedIsTheEntry ==
  \A p \in committed \ touched :
    node[p] = Ours("file", IF Of(p).type = "Hardlink" THEN Of(p).link ELSE p)

\* The regular files that have been written.
Written == {p \in full : Of(p).type = "Regular"}

\* If nobody else interferes, a preflight that passes has found room for the
\* bytes of every moment of the extraction, also of the one in which a new file
\* exists beside the file it replaces. The disk gives out blocks, which the
\* preflight does not round up to: what is really taken may exceed the space
\* it has found, by less than a block for each file.
SpaceSuffices ==
  touched = {} =>
    /\ used <= available
    /\ used + rest <= available + (Block - 1) * Cardinality(Written)

\* A restore that succeeds has committed every entry, and no later step of its
\* own has disturbed the times of a directory.
SuccessIsComplete == pc = "done" => committed = Leaves /\ Directories \subseteq meta

\* A failure reports how many entries were committed, except that one less is
\* reported when the temporary name of the last could not be removed.
CountIsReported ==
  /\ pc = "failed" => entryCount = Cardinality(committed)
  /\ pc = "uncounted" => entryCount + 1 = Cardinality(committed)

\* Without overwrite nothing that somebody else made is replaced, even if it
\* appears after the preflight.
Keeps == ~overwrite => \A p \in Paths : IsForeign(p) => ~(Exists(p) /\ ~IsForeign(p))'
=============================================================================
