----------------------------- MODULE PackFormat -----------------------------
(***************************************************************************)
(* The two layouts of a packed stage (core/pack.cpp) and the validation of *)
(* the entries read from one (core/entry.cpp): what packStream and         *)
(* packIndex write, readPackedEntries reads back, also after the stage has *)
(* been damaged.                                                           *)
(*                                                                         *)
(* A stage is a sequence of cells: a magic, a number, the metadata of an   *)
(* entry or a block of content.  Offsets and sizes count cells and have    *)
(* the range of the program's unsigned words.                              *)
(***************************************************************************)
EXTENDS Integers, Sequences, Functions

CONSTANTS
  Sources,    \* the lists of entries scanDirectory may return
  Paths,      \* the paths a damaged entry may have
  Word,       \* offsets and sizes are in 0..Word-1
  MaxEntries, \* kMaxEntries
  MaxSize,    \* bound: the size of a file in Sources
  Up,         \* the component ".."
  MaxDamages  \* bound: how often a stage is damaged

WordAssumption ==
  /\ Word \in Nat /\ MaxEntries \in Nat \ {0} /\ MaxSize \in Nat
  /\ MaxEntries * (MaxSize + 2) + 7 < Word

Types == {"Regular", "Directory", "Symlink", "Hardlink"}
Entry == [path : Seq(STRING), type : Types, link : Seq(STRING), size : Nat, offset : Nat, attr : Nat]

-----------------------------------------------------------------------------
(* What a list of entries must be: as scanDirectory makes it, and as       *)
(* readEntryMetadata and validateEntries want it.                          *)

WellFormed(e) ==
  /\ e.type # "Regular" => e.size = 0
  /\ e.type \notin {"Symlink", "Hardlink"} => e.link = <<>>

SafeArchivePath(p) == p # <<>> /\ Up \notin Range(p)

\* The regular file before a hard link that it is another name of.
EarlierFile(list, i) ==
  \E j \in 1..i - 1 : /\ list[j].path = list[i].link /\ list[j].type = "Regular"
                      /\ list[j].attr = list[i].attr

\* Each entry by itself, and against those before it.
ValidEntry(list, i) ==
  /\ SafeArchivePath(list[i].path)
  /\ \A j \in 1..i - 1 : list[j].path # list[i].path
  /\ list[i].type = "Hardlink" => SafeArchivePath(list[i].link) /\ EarlierFile(list, i)

\* One directory at the top, and directories all the way down to each entry.
ValidHierarchy(list) ==
  /\ Len(list[1].path) = 1 /\ list[1].type = "Directory"
  /\ \A i \in 2..Len(list) : Len(list[i].path) > 1 /\ list[i].path[1] = list[1].path[1]
  /\ \A i \in DOMAIN list : \A n \in 1..Len(list[i].path) - 1 :
       \E j \in DOMAIN list : /\ list[j].path = SubSeq(list[i].path, 1, n)
                              /\ list[j].type = "Directory"

ValidList(list) == (\A i \in DOMAIN list : ValidEntry(list, i)) /\ ValidHierarchy(list)

\* What scanDirectory returns for a directory that stands still meanwhile.
Scanned(list) ==
  /\ list # <<>> /\ Len(list) <= MaxEntries /\ ValidList(list)
  /\ \A i \in DOMAIN list : /\ WellFormed(list[i]) /\ list[i].offset = 0
                             /\ list[i].size <= MaxSize
SourcesAssumption ==
  /\ \A s \in Sources : s \in Seq(Entry) /\ Scanned(s)
  /\ Paths \subseteq Seq(STRING) /\ MaxDamages \in Nat

VARIABLES
  source, layout,
  stage,      \* the packed stage
  pc, at,     \* cells read, or entries packed
  offsets,    \* where packIndex has put the content of each entry
  central, count,  \* what the reader has found
  entries,    \* what has been read
  damages

writer == <<source, layout, offsets>>
reader == <<at, central, count, entries>>
vars == <<writer, stage, pc, reader, damages>>

Magic(name) == [k |-> "magic", v |-> name]
Number(n) == [k |-> "number", v |-> n]
Metadata(e, offset) == [k |-> "entry", v |-> [e EXCEPT !.offset = offset]]
Content(e) == IF e.type = "Regular" THEN [i \in 1..e.size |-> [k |-> "data", v |-> <<e.path, i>>]]
                                    ELSE <<>>
Trailer == 5  \* magic, offset and size of the directory, count, reserved
Size == Len(stage)
IsMagic(i, name) == i \in 1..Size /\ stage[i].k = "magic" /\ stage[i].v = name
IsNumber(i) == i \in 1..Size /\ stage[i].k = "number"
IsEntry(i) == i \in 1..Size /\ stage[i].k = "entry"
At(i) == stage[i].v

TypeOK ==
  /\ source \in Sources /\ layout \in {"stream", "index"}
  /\ \A i \in 1..Size : stage[i].k \in {"magic", "number", "entry", "data"}
  /\ \A i \in 1..Size : IsNumber(i) => At(i) \in 0..Word - 1
  /\ pc \in {"pack", "stored", "open", "read", "validate", "done", "failed"}
  /\ at \in IF pc = "pack" THEN 0..Len(source) ELSE 0..Size
  /\ central \in 0..Word - 1 /\ count \in 0..MaxEntries
  /\ Len(entries) <= count /\ damages \in 0..MaxDamages

Init ==
  /\ source \in Sources /\ layout \in {"stream", "index"}
  /\ stage = IF layout = "stream" THEN <<Magic("stream"), Number(Len(source))>>
                                  ELSE <<Magic("index")>>
  /\ pc = "pack" /\ at = 0 /\ offsets = <<>>
  /\ central = 0 /\ count = 0 /\ entries = <<>> /\ damages = 0

-----------------------------------------------------------------------------
PackStreamEntry ==
  /\ pc = "pack" /\ layout = "stream" /\ at < Len(source)
  /\ LET e == source[at + 1] IN
     stage' = stage \o <<Magic("entry"), Metadata(e, 0)>> \o Content(e)
  /\ at' = at + 1
  /\ UNCHANGED <<writer, pc, central, count, entries, damages>>

PackIndexEntry ==
  /\ pc = "pack" /\ layout = "index" /\ at < Len(source)
  /\ stage' = stage \o Content(source[at + 1])
  /\ offsets' = Append(offsets, Size)
  /\ at' = at + 1
  /\ UNCHANGED <<source, layout, pc, central, count, entries, damages>>

\* packIndex ends with the central directory and its trailer.
PackEnd ==
  /\ pc = "pack" /\ at = Len(source)
  /\ LET n == Len(source)
         directory == <<Magic("central"), Number(n)>>
                      \o [i \in 1..n |-> Metadata(source[i], offsets[i])]
     IN stage' = IF layout = "stream" THEN stage
                 ELSE stage \o directory
                      \o <<Magic("end"), Number(Size), Number(Len(directory)), Number(n),
                           Number(0)>>
  /\ pc' = "stored" /\ at' = 0
  /\ UNCHANGED <<writer, central, count, entries, damages>>

Word0 == 0..Word - 1
\* A field gets another value, or cells are lost or repeated.
Damaged(i) ==
  \/ IsNumber(i) /\ \E n \in Word0 : stage' = [stage EXCEPT ![i].v = n]
  \/ IsEntry(i) /\ \/ \E n \in Word0 : \/ stage' = [stage EXCEPT ![i].v.size = n]
                                       \/ stage' = [stage EXCEPT ![i].v.offset = n]
                   \/ \E t \in Types : stage' = [stage EXCEPT ![i].v.type = t]
                   \/ \E p \in Paths : \/ stage' = [stage EXCEPT ![i].v.path = p]
                                       \/ stage' = [stage EXCEPT ![i].v.link = p]
  \/ stage' = SubSeq(stage, 1, i - 1)
  \/ stage' = SubSeq(stage, 1, i - 1) \o SubSeq(stage, i + 1, Size)
  \/ stage' = SubSeq(stage, 1, i) \o SubSeq(stage, i, Size)
Damage ==
  /\ pc = "stored" /\ damages < MaxDamages
  /\ \E i \in 1..Size : Damaged(i)
  /\ damages' = damages + 1
  /\ UNCHANGED <<writer, pc, reader>>

Reopen ==
  /\ pc = "stored"
  /\ pc' = "open"
  /\ UNCHANGED <<writer, stage, reader, damages>>

-----------------------------------------------------------------------------
(* readStreamEntries.                                                      *)

Fail == pc' = "failed" /\ UNCHANGED reader

OpenStream ==
  /\ pc = "open" /\ layout = "stream"
  /\ IF /\ IsMagic(1, "stream") /\ IsNumber(2)
        /\ At(2) \in 1..MaxEntries /\ At(2) <= (Size - 2) \div 2
     THEN count' = At(2) /\ at' = 2 /\ pc' = "read" /\ UNCHANGED <<central, entries>>
     ELSE Fail
  /\ UNCHANGED <<writer, stage, damages>>

\* "truncated sequential entry"
Present(n, position) == n <= Size - position

ReadStreamEntry ==
  /\ pc = "read" /\ layout = "stream" /\ Len(entries) < count
  /\ IF /\ IsMagic(at + 1, "entry") /\ IsEntry(at + 2)
        /\ WellFormed(At(at + 2))
        /\ Present(At(at + 2).size, at + 2)
     THEN /\ entries' = Append(entries, [At(at + 2) EXCEPT !.offset = at + 2])
          /\ at' = at + 2 + At(at + 2).size
          /\ UNCHANGED <<pc, central, count>>
     ELSE Fail
  /\ UNCHANGED <<writer, stage, damages>>

-----------------------------------------------------------------------------
(* readIndexEntries.                                                       *)

\* The central directory is within the stage, and the trailer follows it.
CentralFits(offset, size) ==
  /\ offset \in 1..Size - Trailer
  /\ size <= Size - Trailer - offset
  /\ offset + size = Size - Trailer

OpenIndex ==
  LET end == Size - Trailer IN
  /\ pc = "open" /\ layout = "index"
  /\ IF /\ end >= 1 /\ IsMagic(1, "index") /\ IsMagic(end + 1, "end")
        /\ \A i \in 2..5 : IsNumber(end + i)
        /\ At(end + 5) = 0
        /\ CentralFits(At(end + 2), At(end + 3))
        /\ IsMagic(At(end + 2) + 1, "central") /\ IsNumber(At(end + 2) + 2)
        /\ At(At(end + 2) + 2) = At(end + 4)
        /\ At(end + 4) \in 1..MaxEntries
        /\ At(end + 3) >= 2 /\ At(end + 4) <= At(end + 3) - 2
     THEN /\ central' = At(end + 2) /\ count' = At(end + 4)
          /\ at' = At(end + 2) + 2 /\ pc' = "read"
          /\ UNCHANGED entries
     ELSE Fail
  /\ UNCHANGED <<writer, stage, damages>>

\* "indexed file data overlaps the central directory"
ContentFits(e) == e.offset \in 1..central /\ e.size <= central - e.offset

ReadIndexEntry ==
  /\ pc = "read" /\ layout = "index" /\ Len(entries) < count
  /\ IF /\ IsEntry(at + 1) /\ WellFormed(At(at + 1))
        /\ At(at + 1).type = "Regular" => ContentFits(At(at + 1))
     THEN /\ entries' = Append(entries, At(at + 1))
          /\ at' = at + 1
          /\ UNCHANGED <<pc, central, count>>
     ELSE Fail
  /\ UNCHANGED <<writer, stage, damages>>

\* Nothing may follow the last entry but the trailer.
ReadEnd ==
  /\ pc = "read" /\ Len(entries) = count
  /\ pc' = IF at = (IF layout = "stream" THEN Size ELSE Size - Trailer)
           THEN "validate" ELSE "failed"
  /\ UNCHANGED <<writer, stage, reader, damages>>

-----------------------------------------------------------------------------
(* validateEntries.                                                        *)

InStage(e) == e.type = "Regular" => e.offset <= Size /\ e.size <= Size - e.offset

ValidateEntries ==
  /\ pc = "validate"
  /\ pc' = IF ValidList(entries) /\ \A i \in DOMAIN entries : InStage(entries[i])
           THEN "done" ELSE "failed"
  /\ UNCHANGED <<writer, stage, reader, damages>>

Next ==
  \/ PackStreamEntry \/ PackIndexEntry \/ PackEnd \/ Damage \/ Reopen
  \/ OpenStream \/ ReadStreamEntry \/ OpenIndex \/ ReadIndexEntry \/ ReadEnd
  \/ ValidateEntries

Spec == Init /\ [][Next]_vars

-----------------------------------------------------------------------------
Path(i) == entries[i].path
Regular == {i \in DOMAIN entries : entries[i].type = "Regular"}
ContentRead(i) == SubSeq(stage, entries[i].offset + 1, entries[i].offset + entries[i].size)

\* Whichever layout, what was packed is read back: every entry, with its
\* content where the reader looks for it.
RoundTrip ==
  pc \in {"done", "failed"} /\ damages = 0 =>
    /\ pc = "done" /\ Len(entries) = Len(source)
    /\ \A i \in DOMAIN source : [entries[i] EXCEPT !.offset = 0] = source[i]
    /\ \A i \in Regular : ContentRead(i) = Content(source[i])

\* However a stage was damaged, the content of an accepted entry is within the
\* stage and never reaches into the metadata of an entry: not into the central
\* directory, nor beyond the next entry of a stream.
ContentIsInside ==
  pc = "done" => \A i \in Regular :
    LET end == entries[i].offset + entries[i].size IN
    IF layout = "index" THEN end <= central
    ELSE end <= IF i = Len(entries) THEN Size ELSE entries[i + 1].offset - 2

\* Every cell of an accepted stage after its head belongs to an entry: none
\* lies between two entries or after the last.
NothingIsLeft ==
  pc = "done" /\ layout = "stream" =>
    \A i \in 3..Size : \E e \in Range(entries) : i \in e.offset - 1..e.offset + e.size

\* What an accepted archive guarantees to a restore: paths are distinct and
\* stay below the one top directory, each below directories of the archive,
\* and a hard link follows the regular file it shares its attributes with.
AcceptedIsRestorable ==
  pc = "done" =>
    /\ \A i, j \in DOMAIN entries : Path(i) = Path(j) => i = j
    /\ \A i \in DOMAIN entries : Path(i)[1] = Path(1)[1] /\ Up \notin Range(Path(i))
    /\ \A i \in 2..Len(entries) :
         \E j \in DOMAIN entries : Path(j) = SubSeq(Path(i), 1, Len(Path(i)) - 1) /\ entries[j].type = "Directory"
    /\ \A i \in DOMAIN entries : entries[i].type = "Hardlink" =>
         \E j \in Regular : j < i /\ Path(j) = entries[i].link /\ entries[j].attr = entries[i].attr
=============================================================================
