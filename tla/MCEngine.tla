------------------------------ MODULE MCEngine ------------------------------
(***************************************************************************)
(* The archive engine on small instances, one call at a time: "active"     *)
(* says which, and the variables of the others stand still.                *)
(*                                                                         *)
(*   create  CreateArchive                                                 *)
(*   scan    SourceScan                                                    *)
(*   restore Restore                                                       *)
(*                                                                         *)
(* MCEngine.cfg checks archives of two paths and two inodes with two       *)
(* modifications; scans of three levels with one change; and the restore   *)
(* of a nested directory, a hard link beside the directory its target is   *)
(* in, two files that must fit on the disk, and a special file.            *)
(***************************************************************************)
EXTENDS CreateArchive, TLC

CONSTANTS
  Tree, Here, Up, Requests, MaxChanges,                      \* of SourceScan
  Entries, Nothing, Foreign, Space, Block, MaxOthers         \* of Restore

VARIABLES
  active,
  kind, listing, includes, selected, step, stack, current, isDirectory, recorded, touched,
  changes,
  overwrite, available, node, k, occupied, required, seen, tmp, restored, full, meta,
  entryCount, committed, used, rest, others

-----------------------------------------------------------------------------
S == INSTANCE SourceScan WITH
       request <- includes, pc <- step, entries <- recorded
T == INSTANCE Restore WITH pc <- step

ASSUME ScanAssumption == S!TreeAssumption
ASSUME RestoreAssumption ==
  T!EntriesAssumption /\ T!BoundsAssumption /\ T!SentinelAssumption

-----------------------------------------------------------------------------
scanOnly == <<kind, listing, includes, selected, stack, current, isDirectory, recorded, changes>>
restoreOnly == <<overwrite, available, node, k, occupied, required, seen, tmp, restored, full,
                 meta, entryCount, committed, used, rest, others>>
mcVars == <<active, vars, step, scanOnly, touched, restoreOnly>>

NoCreate ==
  /\ at = [n \in Names |-> NoInode] /\ data = [i \in Inodes |-> <<>>]
  /\ mtime = [i \in Inodes |-> 0] /\ writes = 0
  /\ pc = "failed" /\ compressing = FALSE /\ encrypting = FALSE
  /\ unseen = {} /\ entries = [n \in Names |-> NoEntry] /\ atScan = [n \in Names |-> <<>>]
  /\ pos = 1 /\ fd = NoInode /\ stored = [n \in Names |-> <<>>]
  /\ temps = {} /\ synced = FALSE /\ output = "nothing" /\ published = FALSE
  /\ cancel = FALSE /\ late = FALSE
NoScan ==
  /\ kind = 0 /\ listing = 0 /\ includes = 0 /\ selected = 0 /\ stack = 0 /\ current = 0
  /\ isDirectory = 0 /\ recorded = 0 /\ changes = 0
NoRestore ==
  /\ overwrite = 0 /\ available = 0 /\ node = 0 /\ k = 0 /\ occupied = 0 /\ required = 0
  /\ seen = 0 /\ tmp = 0 /\ restored = 0 /\ full = 0 /\ meta = 0 /\ entryCount = 0
  /\ committed = 0 /\ used = 0 /\ rest = 0 /\ others = 0

MCInit ==
  \/ active = "create" /\ Init /\ step = 0 /\ touched = 0 /\ NoScan /\ NoRestore
  \/ active = "scan" /\ S!Init /\ NoCreate /\ NoRestore
  \/ active = "restore" /\ T!Init /\ NoCreate /\ NoScan

MCNext ==
  /\ active' = active
  /\ \/ active = "create" /\ Next /\ UNCHANGED <<step, touched, scanOnly, restoreOnly>>
     \/ active = "scan" /\ S!Next /\ UNCHANGED <<vars, restoreOnly>>
     \/ active = "restore" /\ T!Next /\ UNCHANGED <<vars, scanOnly>>

MCSpec == MCInit /\ [][MCNext]_mcVars

-----------------------------------------------------------------------------
\* A finished scan holds exactly what was selected, and one that nobody
\* disturbs is refused only for a reason (normalizeIncludes, scanDirectory).
ScanIsExact == active = "scan" => S!TypeOK /\ S!SelectionIsExact /\ S!RefusedForAReason

\* A restore commits only whole files, each the entry of its path; if it
\* succeeds it has committed all of them, if it fails it reports how many, but
\* for one whose temporary name could not be removed; and the bytes it writes
\* fit into the space its preflight has found, their blocks with less than a
\* block more for each file.
RestoredIsArchived ==
  active = "restore" =>
    /\ T!TypeOK /\ T!CommittedIsWhole /\ T!CommittedIsTheEntry
    /\ T!SuccessIsComplete /\ T!CountIsReported /\ T!SpaceSuffices

\* What somebody else has put at the path of a new archive, or, without
\* overwrite, at the path of a restored entry, is not replaced, even if it
\* appears after the program has looked.
NothingIsReplaced ==
  [][/\ Keeps
     /\ active = "restore" => T!Keeps]_mcVars

\* docs/requirements.md:149: the archive that a successful scan leads to passes
\* its own verification.
ArchiveVerifies == active = "scan" => S!ArchiveVerifies

\* docs/design.md:360: dots within a selected path are resolved, and only a
\* path that leaves the source is refused.
DotsAreResolved == active = "scan" => S!DotsAreResolved

\* README.md:252: a failure reports the entries that were committed.
EveryCommitIsReported ==
  active = "restore" /\ step \in {"failed", "uncounted"} => entryCount = Cardinality(committed)

-----------------------------------------------------------------------------
\* The inodes are interchangeable: the code compares them, and no more.
MCSymmetry == Permutations(Inodes)

\* The values of MCEngine.cfg.
CONSTANTS a, b

MCOrder == <<a, b>>

MCTree == {<<"d">>, <<"d", "e">>, <<"d", "e", "x">>, <<"f">>}
Raw(parts) == [absolute |-> FALSE, parts |-> parts]
MCRequests ==
  {{}, {Raw(<<"d">>)}, {Raw(<<"d", ".", "e", "x">>)}, {Raw(<<"f">>), Raw(<<".", "f">>)},
   {Raw(<<"d", "e">>), Raw(<<"f">>)}, {Raw(<<"d", "..", "f">>)}, {Raw(<<".">>)},
   {Raw(<<>>)}, {[absolute |-> TRUE, parts |-> <<"f">>]}}

E(path, type, parent, link, depth, size) ==
  [path |-> path, type |-> type, parent |-> parent, link |-> link, depth |-> depth,
   size |-> size]
MCEntries ==
  << E("root", "Directory", Nothing, Nothing, 1, 0),
     E("root/d", "Directory", "root", Nothing, 2, 0),
     E("root/d/f", "Regular", "root/d", Nothing, 3, 1),
     E("root/l", "Hardlink", "root", "root/d/f", 2, 0),
     E("root/g", "Regular", "root", Nothing, 2, 2),
     E("root/s", "Special", "root", Nothing, 2, 0) >>
=============================================================================
