# backup_system: specification and proofs

This directory holds TLA+ models of the backup system in `src/`, the TLC
configurations that check them on small instances, and TLAPS proofs about them.
Definitions are translated from the C++ code; `PROJECT.json` names, for each
definition, the lines it stands for. Paths below are relative to the repository
root (`src/`).

## 1. The system

Backup Studio is a C++17 program with a core library, a network server and
client, a command line and a Qt GUI.

| Part | State it keeps | Operations | Hard behaviour |
|---|---|---|---|
| Account database and user storage, `network/auth_store.cpp` | `users.db`; per user a directory of `<id>.bak`, `<id>.meta`, staging files | load, save, commit a stored file, write metadata, list | a commit is a rename followed by `fsync`: it can take effect and still report failure; crashes between two commits |
| Server sessions, `network/session.cpp` | `gStorageMutex`, `activeSessions`; per thread the challenged record, the authenticated key, the upload in progress | register, two-step login, upload (full or incremental), list, download, delete account | logins, uploads and deletions of one account interleave; state read under the mutex is used after its release; rollback of a publication |
| Accept loop, `network/server.cpp` | stop flag, vector of worker threads, listener | `run`, `stop`, `reap` | shutdown, thread lifetime, the connection limit |
| Client, `network/client.cpp` | request counter, transfer position | register, login, list, upload, download, delete | lost replies, incremental matching, publication of a download |
| Frames and sockets, `network/io.cpp`, `tls.cpp` | a deadline per call | send and receive frames | partial transfers, timeouts, cancellation |
| Automatic snapshots, `core/automatic.cpp` | inotify watches, `pending`, `next`, `failures`, `completed`; the archives in the output directory | `automatic`, `refresh`, `changed`, `retainSnapshots` | changes during a scan or a refresh, retries, several jobs on one output |
| Archive engine, `core/engine.cpp`, `archive.cpp`, `pack.cpp`, `file_io.hpp` | temporary files, the archive being published | create, verify, preview, inspect, restore | a source that changes while it is read; failure between publication and synchronization |
| Restore, `core/restore.cpp` | staged nodes in the destination | preflight, extract, commit a node, apply metadata | conflicts that appear during extraction, order of metadata |
| Source scan, `core/entry.cpp` | entries and inode table | scan, filter | hard links, include lists |
| Codecs and cryptography, `core/compress_*.cpp`, `crypto.cpp`, `sha256.cpp` | none between calls | encode, decode, authenticate | boundaries of formats |
| Command line, `cli/` | none | one library call per run | |
| GUI, `GUI/` | a background job, login state, selection tree | start, cancel, show a result | late results, closing while a job runs |

Interactions. The accept loop starts one thread per connection; all threads
share the stop flag, the mutex, the count of authenticated connections and the
files. `BackupEngine::automatic` calls `create` and removes files that other
jobs may be looking at. Clients and server exchange frames over one connection
with one request outstanding. The GUI and the command line call the library
synchronously on a thread of their own and cancel through a shared flag.

What makes each part correct, in order of importance:

1. storage: an acknowledged backup stays listed and downloadable; a listed
   backup has its archive; files belong to the account that sees them; the
   count that protects account deletion is exact;
2. snapshots: every change ends in a snapshot; retention keeps the newest and
   no more than asked; deadlines do not slip;
3. accept loop: shutdown returns and leaves no thread behind; slots come back;
4. transfer: what the server publishes is what the client sent;
5. archive creation and restore: all or nothing, never over a foreign file;
6. codecs: decoding inverts encoding; GUI: a result is shown for the account
   and the job it belongs to.

## 2. Modules

| Module | Models | Depends on |
|---|---|---|
| `Vault` | what the server promises about accounts and backups | |
| `BackupStore` | account database, user directories, sessions, crashes | refines `Vault` |
| `History` | publication and rollback against a list that reads the directory | |
| `FrameQueue` | what one direction of a connection promises | |
| `Frames` | `io.cpp`: frames over a socket | refines `FrameQueue` |
| `Upload`, `Download` | client and server of one transfer | frame queues |
| `ServerLoop` | `server.cpp`, the thread in `run()` and its workers | |
| `SnapshotJob` | `automatic.cpp`, jobs and the changing source tree | |
| `SourceScan` | the filtered walk of `entry.cpp` | |
| `CreateArchive` | `BackupEngine::create` from scan to publication | |
| `PackFormat` | both layouts of a packed stage, and the validation of entries | |
| `ArchiveFile` | the archive file: header, digests, tag, versions, readers | |
| `RunLength`, `Lz77`, `Huffman` | the codecs | |
| `Restore` | `extractEntries` | |
| `GuiJobs`, `RestoreChecks`, `EntryPicker` | the desktop program | |
| `MCBackupStore`, `MCSnapshotJob`, `MCServerLoop` | instances for TLC | one module each |
| `MCFormats`, `MCEngine`, `MCTransfers`, `MCGui` | instances for TLC | several modules each |
| `BackupStoreProofs`, `ServerLoopProofs`, `SnapshotJobProofs` | theorems about these parts | TLAPS |
| `EngineProofs` | theorems about `MCEngine`: create, scan, restore | TLAPS |
| `TransfersProofs` | theorems about `MCTransfers`: upload, download, lists, frames | TLAPS |
| `CodecProofs` | lemmas about the run-length and the Huffman codec of `MCFormats` | TLAPS |
| `FormatsProofs` | theorems about `MCFormats`: codecs, packed stages, archive file | `CodecProofs` |
| `GuiJobsProofs` | theorems about `MCGui`: jobs, picker, restore form | TLAPS |

A module states its own properties. The four composite MC modules take several
modules by `INSTANCE` and check them side by side: a variable `active`, chosen in
the initial state, says which part takes steps, and the variables of the others
stand still, so that the state space is the sum of the parts and not their product.
A property of such a module is the conjunction of properties of its parts that
answer one question (`RoundTrip`, `PublishedIsSound`, `RestoredIsArchived`, ...),
each guarded by `active`. What the instantiated modules assume of their constants is
assumed again by the MC module. The constants of these modules get their values in
the configurations, so that what is proved of these modules holds for every value.

Definitions whose comment begins "Mutant of" are faulty variants of the
definition that follows them. No specification uses them; each shows that a
property notices the fault.

How the modules fit together. `Frames` justifies the queues of `Upload` and
`Download`; `Upload` justifies the `AdmitUpload` of `BackupStore`, which takes an
upload only after its bytes were compared with the declaration, and `BackupStore`
and `History` say what then happens to it; `CreateArchive` justifies the two
outcomes of `create` in `SnapshotJob`; `SourceScan` its scan; `PackFormat` and
`ArchiveFile` say that what it publishes can be read again, and that `Restore`
gets entries it can rely on; `EntryPicker` makes the selection that `SourceScan`
takes; `GuiJobs` starts library calls as jobs whose outcome is theirs.

### BackupStore

`users`, `archive`, `meta`, `staging`, `leftover` are the disk: the records of
`users.db`; for each user the identifiers with a `.bak` and with a `.meta` file;
the live staging files; the users whose directory holds an abandoned one.
`gStorageMutex` and `activeSessions` are the globals of the same names.
`phase`, `pendingUser`, `key`, `upload` are the local state of each
`handleSession`. `issued`, `owner`, `acknowledged`, `damaged` are history: which
identifiers were handed out, to which record, which uploads were acknowledged,
and which were cut by a crash or a failing removal.

Register, `LoginStart`, `LoginProof` and account deletion touch shared state only
inside one critical section, so each is one action guarded by a free mutex. The
mutex is held over several file-system calls only while an upload is published;
there each call is an action: `CommitArchive`, `WriteMeta`, `RollbackMeta`,
`RollbackArchive`. Each commit has three outcomes, done, renamed but not
synchronized, or nothing; each removal two. `Fail` is every exception outside
the publication, whatever its cause; `Unwind` and `Release` are the destructors
that follow, in their order: the staging file first, the connection count last.
`Crash` forgets memory and keeps files, between any two actions.

Abstractions. A salt and verifier are one `cred`; a valid proof is one that
matches the challenged record, an invalid one is `Fail`. The bytes of an upload
are in `Upload`: here an upload that is too short, too long or has another digest
never reaches `AdmitUpload`. The 1 MiB limit of a history response and its 4096
entries are one limit, `MaxHistory`. `Crash` is the death of the process, not of
the machine: the cache of the file system survives. Random identifiers do not
repeat; the code excludes a repetition only within one directory, by testing the
`.bak` file, and otherwise relies on 128 random bits. Connections without a
proven identity change no state and are left out; listing is in `History`,
downloading in `Download`.

### Vault

An account is the credential of a name, a backup is shown or not and acknowledged or
not. Registering while there is room for an account (`MaxAccounts`), removing an
account without backups, publishing within the capacity, retracting what was not
acknowledged, and acknowledging what is shown are all that may happen. `BackupStore`
implements it with `account` mapped to the credential registered under a name and
`shown` to `meta`; sessions, locks, staging, rollbacks and crashes are stutters or
these steps.

### SnapshotJob

`pc` follows the loop of `automatic`: `watching` (in `ChangeWatch::refresh`),
`polling`, `deciding`, `creating` and `packing` (in `create`), `listing` and
`retaining` (in `retainSnapshots`), `done` and `stopped`. `pending`, `next`,
`failures`, `completed` are the variables of the code; `next` counts down
polling sleeps. `tree` is the set of existing directories, `watched` those with
an inotify watch, `events` whether a job's queue holds an event. `unsaved` and
`scanned` are history: directories changed since the last scan, and those the
running `create` has scanned.

Other programs write in, make and remove directories at any moment, also between
two visits of `refresh` and between the scan and the end of `create`. Moving a
directory with its contents is not modelled. A `create` either fails, and then
nothing was published, or publishes an archive with a fresh stamp; stamps are
not ordered by time, because the wall clock may be set back. `Stop` is a
cancellation or any error that ends the job.

### ServerLoop

`pc` is the thread in `run()`, from `called` (before its first statement) to
`returned`; a worker is `serving`, `ended` (its session has returned and closed
the socket) or `finished` (it has set its flag). `stopRequested` is the atomic
flag, `asked` remembers that `stop()` was called in this run. `EarlyStop` says
whether `stop()` may come before the first statement of `run()`; `server.cpp`
installs the signal handlers before it calls `run()`, so it may.

### Frames and FrameQueue

`sendFrame` and `receiveFrame` are calls that move as many bytes as the socket takes
or has, and wait in slices (`SendWaits`, `ReceiveWaits`) of a deadline that is fixed
when the call starts; `sendLeft` and `receiveLeft` count it down. As in `waitReady`,
the time that is left is looked at before every transfer, and a slice may pass at
any moment, whether bytes move or not; a frame is sent within one deadline, header
and payload are received within one each. `sendWaited` and `receiveWaited` are
history: the slices since the call began, whatever the call makes of its deadline.
The connection holds at most `Buffer` bytes and may break at any moment. The end of
the stream is clean only before the first byte of a header. `Frames` implements
`FrameQueue` with the frames sent and delivered in whole.

### Upload

`client` and `server` follow `BackupClient::upload` and `handleUpload`. The client
hashes its file, announces size and digest, gets the block hashes of a base if it
asked for an increment, and sends each block or a reference to an equal one; the
server writes a staging file, bounded by the declared size, compares its digest and
publishes. The client's file may be rewritten at any moment (`Rewrite`), the base
may vanish before the server opens it (`LoseBase`), or be written, emptied or cut
off while the server reads it (`RewriteBase`): the index and every copy read `base`
as it is then, a reference is compared with `baseSize`, taken at the beginning, and
a block that is no longer there is refused. Each side may throw (`ClientThrows`,
`ServerThrows`), the connection may break (`Cut`) and then loses what is in it. A
file is a sequence of blocks and a digest the sequence itself; there is one request
per connection after its login, so request identifiers are left out; a hash frame
carries one hash; publication is one step with its outcomes, whose parts are in
`BackupStore`.

### Download

The server compares the stored archive with its record while it reads it once
(`CheckArchive`), then reads it again to send it; between and after the disk may
return something else (`Damage`). The client limits what it takes by the declared
size, compares size and digest, and gives the file its name with an operation
that does not replace, while other programs make files there (`Interfere`).

### History

An upload takes its stamp before the mutex (`Stamp`), is admitted, publishes
archive and metadata, and may be rolled back. A list opens the directory and
reads names and metadata without the mutex; a file made or removed meanwhile may
or may not be seen, one that was there all the time is. `known` and `newest`
remember what a client may count on when its list begins.

### CreateArchive

`at`, `data`, `mtime` are the source: names, inodes, contents. `ScanEntry`,
`LinkAliases`, `PackNext`, `OpenSource`, `ReadSource`, `CloseSource`,
`FinishPack`, `Compress`, `Encrypt`, `Finalize`, `SyncFinal`,
`CommitFileNoReplace`, `UnlinkTemporary` and `SyncParent` are the steps of
`create()` in order; `temps` is the set of stages on disk, `synced`, `output` and
`published` the target. `Write` and `Relink` are other programs in the source,
`Interfere` another program at the output path, `Cancel` the flag, `Fail` every
exception. Abstractions: no two modifications of files share an mtime (what the
code cannot see the model cannot be asked about); removing a temporary file while
unwinding succeeds; other metadata, directories and special files hold no content.

### SourceScan

`listing` is the tree as the iterator finds it, `kind` the tree as it is;
`ReadName` lists, `Record` looks at the path again and descends by the listed
type. A request is normalised first (`NormalizeIncludes`), and every selected
path must have been recorded in the end (`CheckSelection`). `Change` makes,
removes and replaces entries.

### PackFormat and ArchiveFile

A stage is a sequence of cells (magic, number, entry, content) that is written in
either layout, damaged in up to `MaxDamages` cells, and read: every comparison of
an offset or size with what is left is there, in words that would wrap around.
`ValidateEntries` is what every reader does before it uses a list.

An archive is a header and a body of cells that carry the layers around them; a
digest is the sequence it was taken of, a tag a record of its key and of what it
covers, so that forging one is impossible and comparing them is what the code
does. Readers open the file twice, as the code does, and others replace or alter
it in between; versions 1 to 4 exist.

### RunLength, Lz77, Huffman

Encoder and decoder byte by byte or block by block. The widths that matter are
constants (`MaxRun`, `Nibble`, `Window`, `MaxMatch`, `BlockSize`, `Symbols`,
`ByteBits`), so that small inputs reach every boundary. Inputs are all short
sequences, streams also those no encoder writes. `Meaning` (run length), `Kraft`
and the minimal cost (Huffman) are reference definitions.

### Restore

`Preflight` walks the entries and adds up the space; `MakeDirectory`,
`OpenTemporary`, `WriteContent`, `ApplyMetadata`, `SyncFile`, `CommitNode`,
`LinkTemporary` and the directory metadata are the steps of `extractEntries`.
`node` is the destination. `used` counts the bytes that have been written, less the
space that replaced files gave back, and `rest` what those bytes leave empty in the
last block of their file: the preflight enters a new file with its bytes
(`restore.cpp:271`) and an old one with its blocks (`restore.cpp:277`), the disk
gives out space in units of `Block`. `Interfere` and `Disturb` are other programs.
A commit without overwrite is one call, or, on file systems without
`RENAME_NOREPLACE`, two, of which the second may fail: the call then ends as
`uncounted` (`UnlinkFailed`), with a name that its report does not count. Devices,
FIFOs, symbolic links and sockets are one kind; metadata of one node is one step.

### GuiJobs, RestoreChecks, EntryPicker

A job works in its thread, queues its result (`JobEnds`) and is reported in the
user interface thread (`Report`), which meanwhile signs in and out, closes the
window and starts others. `session` is user and revision. Both local pages are
one page, `local`. `MayAsk` lets a restore ask its modal question, whose event
loop delivers results; `Watching` says whether automatic backups keep starting.
`combo` is the box for identifiers of the restore page with its stale text.
`RestoreChecks` is the form of the local restore page against results of three
kinds of job. `EntryPicker` has boxes of three states, a filter, the clicks and
bulk operations, and the include list made of them; how rows are sorted or
expanded changes nothing of it. The recursion over rows is there a statement
about the boxes it leaves: `Settled` says that every directory above or below the
entry that was touched shows the summary of its children, which determines them.

## 3. What is checked

| Run | Instance | Shows |
|---|---|---|
| `store` | 3 connections, 1 user, 2 credentials, 2 uploads, history of 1 | nine invariants of the store under all interleavings, failures and crashes |
| `store_vault` | 2 connections, 3 users, 1 credential, 2 uploads, 2 accounts, history of 1 | `BackupStore` implements `Vault`, with its account limit |
| `snapshot_periodic` | 1 job, 1 directory, `keep` 2, three older archives | retention and completeness of periodic snapshots |
| `snapshot_realtime` | 1 job, nested directories, interval of 2 | no blind spot, deadlines, completeness of real-time snapshots |
| `server_loop` | 3 workers, limit of 2, backlog of 2 | tracking, shutdown and recycling |
| `formats` | the six parts listed in `MCFormats` | what is written reads back; what is accepted is valid; no size is exceeded |
| `engine` | the three parts listed in `MCEngine` | create, scan and restore against other programs, failures and cancellation |
| `transfers` | the five parts listed in `MCTransfers` | uploads, downloads, lists and frames against failures and a connection that breaks |
| `gui` | the three parts listed in `MCGui` | sessions and jobs, closing, the entry picker, the restore form |
| `snapshot_early_change` | 1 job, 1 directory | finding 1 |
| `snapshot_two_jobs` | 2 jobs, `keep` 1 | finding 3 |
| `server_early_stop` | `server_loop` with an early stop | finding 4 |

Why the bounds are enough. Three connections are needed for one to delete an account
while a second logs in and a third uploads; two credentials for an account to be
replaced by another of the same name; two uploads and a history of one for both to
compete for the last place. Nothing in the store relates two users, so one suffices
except for the account limit, which `store` cannot reach: in `store_vault` three
users compete for two accounts, with one credential, since `store` has two. Two
nested directories let one appear or vanish while `refresh` walks the other. An
interval of two sleeps tells a deadline that is kept from one that is set again.
Three workers for two slots leave one that must wait. Limits on identifiers, stamps
and backlog are the CONSTANTS `Ids`, `Stamps` and `MaxQueued`; `completed` is
counted up to `CompletedCap`, above which the code does not look at it, and `quiet`
up to `Interval`. Connections, credentials and uploads are symmetric in `store`, and
the users too in `store_vault`: their properties are invariants, and a refinement
without fairness, which is a property of single steps.

In `formats` the constants of the codecs are small enough for inputs to pass the
longest run, the nibble, the extension byte, the window and the block several times.
A stage of `PackFormat` has up to five entries with a hard link, and two damages,
the number needed to make an offset and a size that agree with each other; `Word` is
32, more than any stage is long, so that a sum wraps. In `engine` two paths over two
inodes are the smallest source with aliases, two blocks the smallest file that can
change in the middle, and two modifications (`MaxWrites`) restore an old size with a
new time; the archive that is restored has a hard link whose target and whose
target's directory can be disturbed (two steps, `MaxOthers`), two files for a disk
of two or three units, which is too little or just enough, and a special file;
blocks of two units leave room in the last one of a file of odd size, so that what
is taken does exceed what was counted. The inodes are symmetric. In `transfers`
files have up to two blocks of two kinds, so that a base shares some, and can become
shorter, longer or another while it is used; a capacity of two frames, one less than
an upload sends, makes either side wait for the other, `IndexLimit` 1 ends an index
early; `Frames` has headers of two bytes, so that the stream can end within one, and
sizes up to one too large; a deadline of two slices (`Patience`) can be renewed
between two bytes, and a header or a payload has as many bytes as it has slices.
Three uploads compete for a history of two while a list is read. In `gui` three jobs
suffice for one that ends late, one that is running and one for the account that
followed; the revision, which a login and a sign-out raise by one, reaches
`MaxSessions`, 3, with the last login, so that one account signs in, signs out, and
another signs in while a job of the first is still to be reported; the picker has
three levels, a hidden directory and an empty one, and seven filters. Counters that
have no bound in the code are `MaxBlocks`, `MaxWrites`, `MaxChanges`, `MaxOthers`,
`MaxDamages`, `MaxFrames`, `Patience`, `MaxClock`, `MaxJobs` and `MaxSessions`.

Deadlock is checked in the runs of `BackupStore`, `SnapshotJob` and `ServerLoop`:
a stopped job or a store whose identifiers are used up still has steps, because
clients, other programs and crashes do. The parts of the other four end (a call
returns, a file is decoded, a window is closed), so their configurations say
`CHECK_DEADLOCK FALSE`; that an upload ends and a window closes is a liveness
property of its own.

Fairness. `SnapshotJob!FairSpec` assumes that the thread of a job keeps running,
`WF` of its next step; it assumes nothing about other programs, about
cancellation or about whether a `create` succeeds (three retries bound the
failures in a row). `ServerLoop!FairSpec` assumes that the thread in `run()` and
a worker about to set its flag keep running, and that a session ends once the
stop flag is set, which `io.cpp` polls at least every 100 ms while it waits; a
session whose client keeps it busy need never end before. In `MCTransfers` the
client's and the server's thread of an upload keep running, each with its steps
and the errors it must notice, because every call in them has a deadline; of a
call of `Frames` it is assumed only that time passes, and that one whose deadline
is used up, or whose sender's socket is broken, gives up (`SendWaits`,
`SendTimesOut`, `ReceiveWaits`, `ReceiveTimesOut`): never that a byte moves.
Nothing is assumed of `Cut`, `Rewrite`, `RewriteBase` or a failure. `GuiJobs`
assumes that a cancelled job comes to its end, since the library polls the flag,
and that the event loop delivers queued results and finished threads while no
question is open; it assumes nothing about the user. `BackupStore`,
`CreateArchive`, `Restore`, `History`, `Download` and the formats state safety
only.

### Findings

Three disagreements are runs of their own; the configuration that shows each of
the others is named, and is run by `tlc -config X.cfg M` with the module given.

1. *Early changes are missed* (`automatic.cpp:194`, run `snapshot_early_change`).
   The watches are refreshed before a create only if a snapshot has completed. A
   directory made between the initial refresh and the end of the first snapshot
   is not watched; changes in it trigger nothing until another change does.
   `snapshot_realtime` shows that this is the only gap: with a tree that is not
   restructured before the first snapshot (`QuietStart`), no change is missed.
2. *No debounce* (`automatic.cpp:181`; `MCSnapshotDebounce.cfg`, `MCSnapshotJob`).
   `docs/design.md:412` promises a silent period; code, README and header agree
   on a deadline from the first change.
3. *Two jobs, one output* (`automatic.cpp:59`, run `snapshot_two_jobs`). With
   `keep` 1, two jobs on the same source and output can delete each other's only
   archive.
4. *An early stop is lost* (`server.cpp:105`, run `server_early_stop`). `run()`
   clears the flag a signal may already have set.
5. *Stale connection count* (`server.cpp:190`; `MCServerRefusal.cfg`,
   `MCServerLoop`). The vector is not reaped between the wait for a connection
   and the test of the limit.
6. *Refusal of an account without backups* (`session.cpp:60`;
   `MCBackupStoreRefusal.cfg`, `MCBackupStore`). An abandoned staging file or an
   archive without metadata blocks deletion for good.
7. *A committed entry is not counted* (`restore.cpp:127`; `MCRestoreCount.cfg`,
   `MCEngine`). Without `RENAME_NOREPLACE` the target is linked, then the
   temporary name removed; if that fails, the entry exists and the failure does
   not report it. The property that refutes it is `EveryCommitIsReported`;
   `RestoredIsArchived` says that the report is exact in every other failure, and
   one too low in this one.
8. *Dots are refused* (`entry.cpp:109`; `MCSourceDots.cfg`, `MCEngine`).
   `docs/design.md:360` normalises `docs//manual/../manual/a.txt`; the code
   refuses every path with `..`.
9. *Children without a parent* (`entry.cpp:202`; `MCSourceMoved.cfg`,
   `MCEngine`). A directory that is replaced and put back during the walk leads
   to an archive that fails its own verification.
10. *The base is not the newest* (`session.cpp:225`; `MCHistoryBase.cfg`,
    `MCTransfers`). Stamps are taken in whole seconds before the mutex. Less is
    reused; what is uploaded stays right.
11. *A job started while closing* (`widgets.cpp:79`; `MCGuiClosing.cfg`,
    `MCGui`) is not cancelled, and the window waits for it.
12. *An identifier of another account stays offered* (`pages_remote.cpp:269`;
    `MCGuiOffered.cfg`, `MCGui`). The server refuses it.
13. *A restore after the session* (`pages_remote.cpp:368`; `MCGuiAsked.cfg`,
    `MCGui`). The credentials are copied before a modal question, during which
    the session may end.

Seen while reading, not subjects of a run: `docs/design.md:269` says workers are
detached, the code joins them; `:272` names the directory after the user, the code
after a digest of the name; `:274` says a commit does not overwrite, the code uses
an overwriting rename; `:420` gives 1024 hashes per frame, the code sends 128; the
longest run of a run-length block is 255 there and 128 in the code; `README.md:252`
says that the available space is checked before writing, the code compares it with
bytes, where the disk gives out blocks (`SpaceSuffices` says by how much the two can
differ); versions 1 to 3 are called readable where the code also has version 4.

One hazard has no property: after a power loss (`auth_store.cpp:84`) what survives
depends on the file system, and no text promises it. Two limits belong to the
hazards they are listed under. A change that keeps size and mtime
(`entry.cpp:364`), on a file system with coarse timestamps, is one the code cannot
see, so `CreateArchive` does not let it happen. The list of conflicts on the
restore page (`pages_local.cpp:354`) is not cleared when the form changes; no text
says it is, and `extractEntries` looks again.

## 4. What is proved

All theorems hold for every value of the constants that satisfies the named
assumptions: the sets of connections, users, credentials and identifiers are
finite, sentinel values are not members of the sets they extend, and limits are
natural numbers.

`BackupStoreProofs` proves every invariant of the run `store` and the refinement of
`Vault`. None of the interesting ones is inductive alone. `IInv` is built in layers,
each inductive relative to the earlier ones:

- `Counted`: types, the exact count, and that an upload knows its key and
  identifier. Types need the count, because a release subtracts one.
- `Served`: a serving session's record is in the database. The step that could
  break it is a deletion; `DeleterIsAlone` derives from the exact count that no
  other connection holds the account.
- `LockIsHeld`: exactly the publishing thread holds the mutex.
- `IdsAreFresh`: an identifier belongs to one upload and remembers its owner.
- `Ordered`: `MetaHasArchive` with what each publication step may rely on.
- `AcknowledgedIsStored`, `Bounded` (history capacity with the reserved place),
  `FilesBelongToAccount`, `UnlistedArchiveIsExplained`, `Database`.

`ImplementsVault` maps each step: registration, deletion, a metadata rename that
takes effect, its removal, and the acknowledgement are steps of `Vault`, all
others stutters. The lemmas about `CredOf` carry the mapping of `account`, and
`AccountsAreRecords` carries its limit: there are no more accounts than records.

`ServerLoopProofs` proves type correctness, that the live threads are those in
the vector and within the limit, and that none outlives `run()`, from an
invariant that adds that the vector is empty outside the loop.

`SnapshotJobProofs` proves type correctness; that no change passes a waiting
real-time job by (`NoBlindSpot`, assuming `QuietStart`, without which finding 1
refutes it); `DeadlineHolds` as an action property; and, for a job that is alone
with its output (`Jobs = {j}`, without which finding 3 refutes it), that
retention spares the last archive and keeps the bound. `WatchInv` says that what
`refresh` has not watched yet is listed, lies below something listed, or was made
after its parent was watched, and then the queue or `pending` tells; it needs the
assumption that directories form a tree. `KeepOK` says that retention has computed
a set that spares the last archive and leaves few enough, which takes the
cardinality of `Newest`.

`EngineProofs` proves every property of the run `engine`, in three parts.

- Create: type correctness; `PublishedIsSound` (what is published equals the files
  as scanned, is synchronized, was not cancelled before the commit, and no more
  than two stages exist); a foreign file is never replaced. `CreateInv` rests on
  the modification time: a file that has the time its entry recorded has the
  content it had then, so what was copied is that content as long as the time is
  still the same, and otherwise the comparison after the copy refuses; `LinkOK`
  carries this over to aliases.
- Scan: `ScanIsExact`, for any tree and any request. The lemmas about paths say
  what `normalizeIncludes` makes of a request, by induction on the number of
  components, and that the filter keeps the paths related to a selected one. In
  `ScanInv` a wanted path that nobody has moved, below a directory that has been
  entered, is listed or still to be read in an open directory; when the walk ends
  nothing is open, and induction on the length of paths gives all of them.
- Restore: `RestoreSafe`, that is all of `RestoredIsArchived` but the count that a
  failure reports; `RestoredIsArchived`, with the count as it is reported in each
  kind of failure; and `NothingIsReplaced`. The archive is any that satisfies `Accepted`,
  the assumptions of `Restore` on its constants, which say what `validateEntries`
  checks before any reader uses a list. `RestoreInv` follows the temporary node
  stage by stage until it is whole; `CountOK` counts the leaves before the current
  entry; `Counts` adds what a failure reports. `SpaceInv` compares each entry's
  level of use in the preflight with that of the extraction, as long as nobody else
  changes the destination, and `RestInv` bounds what the last blocks add to it by less
  than a block for each file that has been written.

`TransfersProofs` proves the safety properties of the run `transfers`. Of uploads:
type correctness and `StoredIsDeclared`. `UploadInv` follows the digest: once taken
it stays, a start frame carries it, the server declares what the frame carried, the
staging file equals it before publication, and a result on its way means that it was
published. The base may be anything at any moment, so nothing is known of what a
copy brings in; it is the comparison at the end that the proof rests on. A download
publishes what was recorded and replaces no foreign file. A list misses no backup
that was acknowledged before it began, what it shows can be downloaded unless its
upload fails, and the backup offered as a base is not older than the newest of those
(`ServedIsStored`). `FramesAreQueued` is the refinement: with the frames sent and
delivered in whole each step of `Frames` is a step of `FrameQueue` or a stutter
(`FramesInOrder`); its invariant says that the bytes on the connection are those
between the two calls' positions. `DeadlinesKept` says that no call outlasts its
deadline; its invariant is that what has been waited and what is left add up to it.

`GuiJobsProofs` proves the safety properties of the run `gui`.

- Jobs: type correctness, `ShownBelongsToAccount` and `ClosedAfterJobs`, and,
  without modal questions (`~MayAsk`, without which finding 13 refutes it),
  `JobsAreContained`. `GuiInv` says that a job that bears the current revision was
  started for the account signed in now.
- Picker: the include list stands for exactly what is checked, and what a filter
  hides keeps its boxes. The invariant is that every directory shows the summary
  of its children; what this says about all that is below or above an entry
  follows by taking the least deep, or the deepest, entry that lacks it.
- Restore form: a verdict that is shown, or that a job may still bring, is about
  the form at the revision it was asked for.

`FormatsProofs` proves `TypeOK`, `OnlyValidIsAccepted` and `RoundTrip` of the run
`formats`: whatever the widths of the numbers, the alphabet, the input and the
stream, no decoder passes the sizes declared to it, what it accepts is valid, and
what is written comes back. Each part has an invariant of its own; those of the
first two are in `CodecProofs`.

- Run-length: `Remaining` says that the stream means what has been decoded,
  followed by what the rest of the stream means. Both directions of
  `AcceptsExactlyTheValid` follow at the two ends. The meaning of a stream is a
  function that is recursive in the position; `MeaningExists` shows that there is
  one, by extending it from the end of the stream to the front. `RunsReturn` is the
  part of `RoundTrip` about this codec: `RleMeans` says that what is written, the
  literals and the run that are pending stand for the input so far, and how long
  the stream has become.
- Huffman: codes are given in increasing order, each `Below` those that follow it,
  so no code is a prefix of another: the test in the decoder never fails. What has
  been read is the codes of the output and a part of one more, and there is only
  one number of padding bits, so an accepted stream is the one the writer makes.
  `HuffmanReturns` is the part of `RoundTrip` about this codec, in three parts.
  - Refusals (`KraftInv`). A code is the number that its bits are written for
    (`Value`), and the codes given so far take all words up to the last of them,
    so there is no next code exactly when Kraft's sum is more than all words. The
    lengths of a tree take exactly all words (`Full`), so the writer is never refused.
  - Return (`OrderInv`, `WrittenInv`). A table is determined by its lengths
    (`Canonical`, `CanonicalOnce`), so the reader has the codes of the writer; the
    stream is the codes of the input up to a symbol, and what the reader has of it
    is a part of the code of the next symbol.
  - Optimality (`BestInv`). Of any lengths with a prefix code, there are depths for
    the trees that are left which cost no more, together with what has been spent
    on the joins (`Reaches`). `MergeOnce` takes this through a merge: exchanging
    depths makes the two rarest trees the deepest, and then the deeper of the two
    can move up to the other's level, because the shares of all the rest are
    multiples of the share there; at one level they can be joined.
  - Sums over finite sets (`Total`) are shown to be those of `MapThenSumSet`, by an
    induction over subsets (`FiniteInduction`).
- LZ77: within a block the sizes of literals and matches keep `InBuffers`. Between
  two blocks the position in the last payload is meaningless, and may be larger
  than the next payload; the bound is therefore stated where the payload is read.
  `MatchesReturn` is the part of `RoundTrip` about this codec. `LzExact` keeps a
  `Plan` of each block: the lengths, distances and places in the payload of its
  token sequences, and the part of the input they stand for. The decoder is always
  at a place of the plan, so it reads exactly those numbers and refuses nothing; a
  match that overlaps its own copy is right because the first wrong byte would be
  a copy of an earlier one that is wrong too.
- Packed stages: every cell is an entry, a number, a magic word or content
  (`StageCells`); the position of the reader after each entry, and where contents
  end, keep offsets inside. That sums stay below `Word` while writing is
  the assumption `WordAssumption`; while reading it is not assumed.
  `StagesReturn` is the part of `RoundTrip` about them. `PackExact` says where the
  writer puts each cell, that an undamaged stage keeps holding the source that
  way, and that the entries read so far are its first ones. That the reader
  accepts them needs the source to be a list it would accept, which is what
  `scanDirectory` returns for a directory that stands still (`Scanned`, a part of
  `SourcesAssumption`).
- Archive file: a file at the path is an archive that was made for one of the
  passwords, or one that others altered in one place; an altered one cannot bear
  a valid tag, so what passes authentication is one that was made.
  `ArchivesReturn` is the part of `RoundTrip` about it: as long as nobody has
  touched the file, `Reading` says what the stage of the reader holds after each
  layer, for every combination of options.

Induction. The provers cannot be given an induction principle over data. They can
be given one over numbers in the form of a least counterexample (`LeastNatural`),
and where a number measures the data, the length of a path or the depth of an
entry, the proofs use that. For a set of subsets of a finite set it gives
`FiniteInduction`: what holds of the empty set, and of a set with one element more,
holds of the whole.

Only model-checked. Liveness (`StopReturns`, `SlotsAreRecycled`, `ChangesAreSaved`,
`ExchangesEnd` but for its deadlines, `CloseCompletes`) is out of the prover's
reach. Every invariant and every action property of a passing run is stated by a
theorem.

## 5. Not modelled

`PROJECT.json` lists every part with its status. Left out, and why:

- TLS (`tls.cpp`): calls into OpenSSL; the protocol above is the same with and
  without it.
- The cryptographic kernels (`crypto.cpp`, `sha256.cpp`): arithmetic over words of
  32 bits, which explicit states cannot explore; `test_crypto_vectors.cpp` checks
  them by vectors. What is encrypted, authenticated and compared, and in which
  order, is in `ArchiveFile`.
- The command line, the forms and the layout of the GUI, the public headers, build
  and packaging: they keep no state of a protocol. The contracts in the headers
  are properties of the modules above.
- Power loss: `Crash` forgets memory and keeps the files.
- Argument checks, progress reports, the encoding of integers and strings, the
  parsing of metadata files, and moving a directory with its contents while a
  snapshot job watches it.
