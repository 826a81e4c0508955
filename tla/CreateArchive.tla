--------------------------- MODULE CreateArchive ---------------------------
(***************************************************************************)
(* BackupEngine::create (core/engine.cpp): one archive is made of a source *)
(* tree that other programs keep changing, in stages that each have a      *)
(* temporary file, and published under a name nobody else may be using.    *)
(*                                                                         *)
(* A file is a sequence of blocks, the reads of copySourceFile.  Metadata  *)
(* other than size and mtime is left out; so are directories and special   *)
(* files, whose entries hold no content.                                   *)
(***************************************************************************)
EXTENDS Integers, Sequences, FiniteSets

CONSTANTS
  Order,      \* the paths below the source, in the order of the archive
  Inodes,
  NoInode,
  NoEntry,
  MaxBlocks,  \* bound: the length of a file
  MaxWrites   \* bound: the number of modifications by other programs

Names == {Order[k] : k \in DOMAIN Order}

ASSUME InodesAssumption == NoInode \notin Inodes
ASSUME OrderAssumption ==
  /\ Order \in Seq(Names)
  /\ \A j, k \in DOMAIN Order : Order[j] = Order[k] => j = k
ASSUME BoundsAssumption == MaxBlocks \in Nat /\ MaxWrites \in Nat

VARIABLES
  at,         \* the inode a path names, or NoInode
  data,       \* the blocks of an inode
  mtime,
  writes,     \* modifications so far: the content and the mtime of the last
  pc, compressing, encrypting,
  unseen,     \* paths the directory iterator has not come to
  entries,    \* what makeEntry recorded for a path, or NoEntry
  atScan,     \* history: the content of the file at that moment
  pos,        \* the entry being packed
  fd,         \* the inode copySourceFile has open, or NoInode
  stored,     \* the content packed for each path
  temps,      \* the temporary files that exist
  synced,     \* whether the final temporary has been synchronized
  output,     \* what the output path names: "nothing", "foreign" or "ours"
  published,  \* history: whether the output path was ever ours
  cancel,     \* options.cancel
  late        \* history: whether it was set after the last time it is read

source == <<at, data, mtime, writes>>
control == <<pc, compressing, encrypting>>
scan == <<unseen, entries, atScan>>
packing == <<pos, fd, stored>>
target == <<temps, synced, output, published>>
request == <<cancel, late>>
vars == <<source, control, scan, packing, target, request>>

Stages == {"scan", "link", "pack", "copy", "compress", "encrypt", "finalize",
           "sync", "commit", "unlink", "syncParent", "done", "failed"}
Working == Stages \ {"done", "failed"}

Contents == UNION {[1..n -> 0..MaxWrites] : n \in 0..MaxBlocks}
Entry == [inode : Inodes, mtime : 0..MaxWrites, size : 0..MaxBlocks,
          type : {"Regular", "Hardlink"}]
ASSUME NoEntryAssumption == NoEntry \notin Entry

TypeOK ==
  /\ at \in [Names -> Inodes \cup {NoInode}]
  /\ data \in [Inodes -> Contents]
  /\ mtime \in [Inodes -> 0..MaxWrites]
  /\ writes \in 0..MaxWrites
  /\ pc \in Stages /\ compressing \in BOOLEAN /\ encrypting \in BOOLEAN
  /\ unseen \subseteq Names
  /\ entries \in [Names -> Entry \cup {NoEntry}]
  /\ atScan \in [Names -> Contents]
  /\ pos \in 1..Len(Order) + 1
  /\ fd \in Inodes \cup {NoInode} /\ (fd # NoInode) = (pc = "copy")
  /\ stored \in [Names -> Contents]
  /\ temps \subseteq {"packed", "compressed", "encoded", "final"}
  /\ synced \in BOOLEAN /\ output \in {"nothing", "foreign", "ours"}
  /\ published \in BOOLEAN /\ cancel \in BOOLEAN /\ late \in BOOLEAN

\* The checks at the start of create() have passed: the source exists and the
\* output path does not.
Init ==
  /\ at \in [Names -> Inodes \cup {NoInode}]
  /\ data = [i \in Inodes |-> [b \in 1..MaxBlocks |-> 0]]
  /\ mtime = [i \in Inodes |-> 0]
  /\ writes = 0
  /\ pc = "scan" /\ compressing \in BOOLEAN /\ encrypting \in BOOLEAN
  /\ unseen = Names
  /\ entries = [n \in Names |-> NoEntry]
  /\ atScan = [n \in Names |-> <<>>]
  /\ pos = 1 /\ fd = NoInode
  /\ stored = [n \in Names |-> <<>>]
  /\ temps = {} /\ synced = FALSE
  /\ output = "nothing" /\ published = FALSE
  /\ cancel = FALSE /\ late = FALSE

-----------------------------------------------------------------------------
(* Other programs.  What they do to the source is of interest only while   *)
(* it is read.                                                             *)

Reading == pc \in {"scan", "link", "pack", "copy"}

\* An inode gets new content: a block overwritten, appended or cut off. No two
\* modifications have the same mtime.
Write(i) ==
  /\ Reading /\ writes < MaxWrites
  /\ \/ \E b \in DOMAIN data[i] : data' = [data EXCEPT ![i][b] = writes + 1]
     \/ /\ Len(data[i]) < MaxBlocks
        /\ data' = [data EXCEPT ![i] = Append(@, writes + 1)]
     \/ /\ data[i] # <<>>
        /\ data' = [data EXCEPT ![i] = SubSeq(@, 1, Len(@) - 1)]
  /\ writes' = writes + 1
  /\ mtime' = [mtime EXCEPT ![i] = writes + 1]
  /\ UNCHANGED <<at, control, scan, packing, target, request>>

\* A path is removed, created as a link, or replaced by a rename.
Relink(n, i) ==
  /\ Reading /\ at[n] # i
  /\ at' = [at EXCEPT ![n] = i]
  /\ UNCHANGED <<data, mtime, writes, control, scan, packing, target, request>>

\* Somebody else makes a file at the output path, or removes what is there.
Interfere ==
  /\ pc \in Working
  /\ output' = IF output = "nothing" THEN "foreign" ELSE "nothing"
  /\ UNCHANGED <<source, control, scan, packing, temps, synced, published, request>>

\* options.cancel is set. It is not read any more once the commit has begun.
Cancel ==
  /\ ~cancel /\ pc \in Working
  /\ cancel' = TRUE
  /\ late' = (pc \in {"commit", "unlink", "syncParent"})
  /\ UNCHANGED <<source, control, scan, packing, target>>

-----------------------------------------------------------------------------
(* create() itself.                                                        *)

Size(n) == entries[n].size

\* Mutant of SameFileState: a change that keeps the size goes unnoticed.
SameSize(n, i) ==
  /\ i # NoInode /\ i = entries[n].inode
  /\ Len(data[i]) = Size(n)
\* sameFileState: what identifies the state of a file.
SameFileState(n, i) ==
  /\ i # NoInode /\ i = entries[n].inode
  /\ Len(data[i]) = Size(n) /\ mtime[i] = entries[n].mtime

\* Any exception: the stages' TempFile objects are destroyed.
Fail ==
  /\ pc \in Working
  /\ pc' = "failed" /\ temps' = {} /\ fd' = NoInode
  /\ UNCHANGED <<source, compressing, encrypting, scan, pos, stored, synced, output,
                 published, request>>

\* One step of the directory iterator; makeEntry records an lstat.
ScanEntry(n) ==
  /\ pc = "scan" /\ n \in unseen /\ ~cancel
  /\ unseen' = unseen \ {n}
  /\ IF at[n] = NoInode
     THEN UNCHANGED <<entries, atScan>>
     ELSE /\ entries' = [entries EXCEPT ![n] =
               [inode |-> at[n], mtime |-> mtime[at[n]], size |-> Len(data[at[n]]),
                type |-> "Regular"]]
          /\ atScan' = [atScan EXCEPT ![n] = data[at[n]]]
  /\ pc' = IF unseen' = {} THEN "link" ELSE "scan"
  /\ UNCHANGED <<source, compressing, encrypting, packing, target, request>>

\* The content entry an entry shares its inode with: the first in the order.
IsFirst(e, inode, k) ==
  /\ e[Order[k]] # NoEntry /\ e[Order[k]].inode = inode
  /\ \A j \in 1..k - 1 : e[Order[j]] = NoEntry \/ e[Order[j]].inode # inode
FirstOf(e, inode) == Order[CHOOSE k \in DOMAIN Order : IsFirst(e, inode, k)]
Original(n) == FirstOf(entries, entries[n].inode)

Listed == {n \in Names : entries[n] # NoEntry}

\* Aliases of one inode were recorded in the same state.
AliasesAgree ==
  \A n \in Listed : /\ Size(n) = Size(Original(n))
                    /\ entries[n].mtime = entries[Original(n)].mtime

\* The end of scanDirectory: every further path of an inode becomes a hard
\* link. The packed stage is created after it.
LinkAliases ==
  /\ pc = "link" /\ AliasesAgree
  /\ entries' = [n \in Names |->
       IF n \in Listed /\ Original(n) # n
       THEN [entries[n] EXCEPT !.type = "Hardlink"] ELSE entries[n]]
  /\ temps' = temps \cup {"packed"}
  /\ pc' = "pack"
  /\ UNCHANGED <<source, compressing, encrypting, unseen, atScan, packing, synced,
                 output, published, request>>

Current == Order[pos]

\* packStream, packIndex: the next entry has no content of its own. A hard
\* link must still be what was scanned.
PackNext ==
  /\ pc = "pack" /\ pos <= Len(Order) /\ ~cancel
  /\ \/ entries[Current] = NoEntry
     \/ /\ Current \in Listed /\ entries[Current].type = "Hardlink"
        /\ SameFileState(Current, at[Current])
  /\ pos' = pos + 1
  /\ UNCHANGED <<source, control, scan, fd, stored, target, request>>

\* copySourceFile: open and fstat.
OpenSource ==
  /\ pc = "pack" /\ pos <= Len(Order) /\ ~cancel
  /\ Current \in Listed /\ entries[Current].type = "Regular"
  /\ SameFileState(Current, at[Current])
  /\ fd' = at[Current] /\ pc' = "copy"
  /\ UNCHANGED <<source, compressing, encrypting, scan, pos, stored, target, request>>

Remaining == Size(Current) - Len(stored[Current])

\* One read; reading nothing is an error.
ReadSource ==
  /\ pc = "copy" /\ Remaining > 0 /\ ~cancel
  /\ LET done == Len(stored[Current]) IN
     /\ done < Len(data[fd])
     /\ stored' = [stored EXCEPT ![Current] = Append(@, data[fd][done + 1])]
  /\ UNCHANGED <<source, control, scan, pos, fd, target, request>>

\* Mutant of CloseSource: the descriptor is leaked.
CloseSourceNever ==
  /\ pc = "copy" /\ Remaining = 0
  /\ SameFileState(Current, fd) /\ SameFileState(Current, at[Current])
  /\ pos' = pos + 1 /\ pc' = "pack"
  /\ UNCHANGED <<source, compressing, encrypting, scan, fd, stored, target, request>>
\* The file that was opened and the path are still what was scanned.
CloseSource ==
  /\ pc = "copy" /\ Remaining = 0
  /\ SameFileState(Current, fd) /\ SameFileState(Current, at[Current])
  /\ fd' = NoInode /\ pos' = pos + 1 /\ pc' = "pack"
  /\ UNCHANGED <<source, compressing, encrypting, scan, stored, target, request>>

\* The packed stage is closed and hashed.
FinishPack ==
  /\ pc = "pack" /\ pos = Len(Order) + 1 /\ ~cancel
  /\ pc' = "compress"
  /\ UNCHANGED <<source, compressing, encrypting, scan, packing, target, request>>

\* The new stage is complete before the one it replaces is removed.
Compress ==
  /\ pc = "compress" /\ ~cancel
  /\ IF compressing /\ "compressed" \notin temps
     THEN /\ temps' = temps \cup {"compressed"}
          /\ UNCHANGED pc
     ELSE /\ temps' = (IF compressing THEN temps \ {"packed"} ELSE temps)
          /\ pc' = "encrypt"
  /\ UNCHANGED <<source, compressing, encrypting, scan, packing, synced, output,
                 published, request>>

Encrypt ==
  /\ pc = "encrypt" /\ ~cancel
  /\ IF encrypting /\ "encoded" \notin temps
     THEN /\ temps' = temps \cup {"encoded"}
          /\ UNCHANGED pc
     ELSE /\ temps' = (IF encrypting THEN {"encoded"} ELSE temps)
          /\ pc' = "finalize"
  /\ UNCHANGED <<source, compressing, encrypting, scan, packing, synced, output,
                 published, request>>

\* Header, payload and authentication tag.
Finalize ==
  /\ pc = "finalize" /\ ~cancel
  /\ temps' = temps \cup {"final"} /\ pc' = "sync"
  /\ UNCHANGED <<source, compressing, encrypting, scan, packing, synced, output,
                 published, request>>

\* fsync of the archive, then the last look at the flag.
SyncFinal ==
  /\ pc = "sync" /\ ~cancel
  /\ synced' = TRUE /\ pc' = "commit"
  /\ UNCHANGED <<source, compressing, encrypting, scan, packing, temps, output,
                 published, request>>

\* Mutant of CommitFileNoReplace: a plain rename.
CommitByRename ==
  /\ pc = "commit"
  /\ output' = "ours" /\ published' = TRUE
  /\ temps' = temps \ {"final"} /\ pc' = "syncParent"
  /\ UNCHANGED <<source, compressing, encrypting, scan, packing, synced, request>>
\* renameat2 without replacement; or, where it does not exist, link and
\* then unlink, whose failure is ignored.
CommitFileNoReplace ==
  /\ pc = "commit" /\ output = "nothing"
  /\ output' = "ours" /\ published' = TRUE
  /\ \/ temps' = temps \ {"final"} /\ pc' = "syncParent"
     \/ pc' = "unlink" /\ UNCHANGED temps
  /\ UNCHANGED <<source, compressing, encrypting, scan, packing, synced, request>>

UnlinkTemporary ==
  /\ pc = "unlink"
  /\ temps' \in {temps, temps \ {"final"}} /\ pc' = "syncParent"
  /\ UNCHANGED <<source, compressing, encrypting, scan, packing, synced, output,
                 published, request>>

\* fsync of the parent directory; the stages that are left go away with
\* their scope.
SyncParent ==
  /\ pc = "syncParent"
  /\ pc' = "done" /\ temps' = {}
  /\ UNCHANGED <<source, compressing, encrypting, scan, packing, synced, output,
                 published, request>>

Others ==
  \/ \E i \in Inodes : Write(i)
  \/ \E n \in Names, i \in Inodes \cup {NoInode} : Relink(n, i)
  \/ Interfere
  \/ Cancel

Create ==
  \/ \E n \in Names : ScanEntry(n)
  \/ LinkAliases \/ PackNext \/ OpenSource \/ ReadSource \/ CloseSource \/ FinishPack
  \/ Compress \/ Encrypt \/ Finalize \/ SyncFinal
  \/ CommitFileNoReplace \/ UnlinkTemporary \/ SyncParent

\* Every step of create() may throw.
Next == Others \/ Create \/ Fail

Spec == Init /\ [][Next]_vars

-----------------------------------------------------------------------------
\* What ends up in the archive under a path is what the file was when it was
\* scanned, whole: neither torn by a concurrent writer nor taken from another
\* file, and for a hard link the content of the path it refers to.
ArchiveIsSnapshot ==
  pc \in {"compress", "encrypt", "finalize", "sync", "commit", "unlink",
          "syncParent", "done"} =>
    \A n \in Listed : stored[Original(n)] = atScan[n]

\* Temporary files are released as soon as the next stage replaces them.
TwoStagesAtMost == Cardinality(temps) <= 2

\* What the output path names, once it is ours, is a synchronized archive.
PublishedIsDurable == published => synced

\* A request to cancel that comes before the commit keeps it from happening.
CancelledIsNotPublished == published /\ cancel => late

\* What create() publishes is whole, durable and wanted, and it never has more
\* than two stages on the disk.
PublishedIsSound ==
  ArchiveIsSnapshot /\ TwoStagesAtMost /\ PublishedIsDurable /\ CancelledIsNotPublished

\* A file somebody else has put at the output path is never replaced.
Keeps == output = "foreign" => output' # "ours"
ForeignIsKept == [][Keeps]_vars
=============================================================================
