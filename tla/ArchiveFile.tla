---------------------------- MODULE ArchiveFile ----------------------------
(***************************************************************************)
(* The archive file as BackupEngine::create writes it and as verify,       *)
(* preview, restore (withDecodedArchive) and inspect read it               *)
(* (core/archive.cpp, core/engine.cpp), while other programs replace the   *)
(* file or change it in place, also between two reads of one reader.       *)
(*                                                                         *)
(* A file is a header and a body of cells.  A cell records the layers it   *)
(* has been wrapped in; a digest is the digested sequence itself, and an   *)
(* authentication tag a record of its key and of what it covers.           *)
(***************************************************************************)
EXTENDS Integers, Sequences

CONSTANTS
  Contents, Linked,  \* what is packed, and which of it has hard links
  Options,           \* the options archives are created with
  OldOptions,        \* the same for older programs, with a version
  Passwords, Salts,
  Garbage,           \* the content of a damaged field or cell
  MaxOthers          \* bound: the steps of other programs

VARIABLES
  password, allowLegacy, op,  \* the reader's options
  files,   \* the inodes the path has named, the last one being the current
  opened,  \* the inode the reader has open
  pc, header, stage,
  others

request == <<password, allowLegacy, op>>
vars == <<request, files, opened, pc, header, stage, others>>

Packs == {"stream", "index"}
Compressions == {"none", "rle", "huffman", "lz77"}
Encryptions == {"none", "chacha20", "aes256"}

\* Programs before archiveAuthentication wrote versions 1 to 3.
OptionsAssumption ==
  /\ Linked \subseteq Contents
  /\ Garbage \notin Packs \cup Compressions \cup Encryptions \cup {"mac"}
  /\ Options \subseteq [pack : Packs, compression : Compressions, encryption : Encryptions,
                         password : Passwords]
  /\ OldOptions \subseteq [version : 1..3, pack : Packs, compression : Compressions,
                            encryption : Encryptions, password : Passwords]
  /\ MaxOthers \in Nat

Damaged == [layer |-> Garbage]
Authenticated == 4
Encrypted(h) == h.encryption # "none"
TagCells(h) == IF h.version = Authenticated THEN 1 ELSE 0

-----------------------------------------------------------------------------
(* create                                                                  *)

Packed(c, pack) == [i \in 1..2 |-> [layer |-> pack, of |-> c, part |-> i]]
Compress(s, algorithm) ==
  IF algorithm = "none" THEN s ELSE [i \in DOMAIN s |-> [layer |-> algorithm, of |-> s[i]]]
Encrypt(s, algorithm, key) ==
  IF algorithm = "none" THEN s
  ELSE [i \in DOMAIN s |-> [layer |-> algorithm, key |-> key, of |-> s[i], part |-> i]]

\* archiveAuthentication: over the complete header and the payload.
Tag(h, payload, word) == [layer |-> "mac", key |-> <<word, h.salt>>, header |-> h, of |-> payload]

\* writeArchiveHeader
Flags(compression, encryption) ==
  {"present"} \cup (IF compression # "none" THEN {"compressed"} ELSE {})
              \cup (IF encryption # "none" THEN {"encrypted"} ELSE {})
Header(version, o, packed, encoded, salt) ==
  [version |-> version, flags |-> Flags(o.compression, o.encryption), reserved |-> 0,
   pack |-> o.pack, compression |-> o.compression, encryption |-> o.encryption,
   packedSize |-> Len(packed), encodedSize |-> Len(encoded), salt |-> salt,
   packedDigest |-> packed, encodedDigest |-> encoded]

Archive(version, c, o, salt) ==
  LET packed == Packed(c, o.pack)
      encoded == Encrypt(Compress(packed, o.compression), o.encryption, <<o.password, salt>>)
      h == Header(version, o, packed, encoded, salt)
  IN [header |-> h, body |-> IF version = Authenticated THEN Append(encoded, Tag(h, encoded, o.password))
                                                       ELSE encoded]

\* archiveVersionFor, and the version of encrypted archives.
ArchiveVersionFor(o) ==
  IF o.encryption # "none" THEN Authenticated ELSE IF o.compression = "lz77" THEN 3 ELSE 2

Created(word) == {Archive(ArchiveVersionFor(o), c, o, s) :
                    c \in Contents, o \in {p \in Options : p.password = word}, s \in Salts}
Old == {Archive(o.version, c, o, s) : c \in Contents, o \in OldOptions, s \in Salts}
Archives == Old \cup UNION {Created(w) : w \in Passwords}

Init ==
  /\ password \in Passwords /\ allowLegacy \in BOOLEAN /\ op \in {"decode", "inspect"}
  /\ \E f \in Archives : files = <<f>>
  /\ opened = 0 /\ pc = "header" /\ header = files[1].header /\ stage = <<>> /\ others = 0

-----------------------------------------------------------------------------
(* Other programs.                                                         *)

\* One field or cell is changed; cells of another archive, or none, follow.
Alter(i) ==
  LET body == files[i].body IN
  \/ \E c \in DOMAIN body :
       \/ files' = [files EXCEPT ![i].body[c] = Damaged]
       \/ \E g \in Archives : c \in DOMAIN g.body /\ files' = [files EXCEPT ![i].body[c] = g.body[c]]
  \/ body # <<>> /\ files' = [files EXCEPT ![i].body = SubSeq(body, 1, Len(body) - 1)]
  \/ files' = [files EXCEPT ![i].body = Append(body, Damaged)]
  \/ \E v \in 1..5 : files' = [files EXCEPT ![i].header.version = v]
  \/ \E c \in Compressions : files' = [files EXCEPT ![i].header.compression = c]
  \/ \E p \in Packs : files' = [files EXCEPT ![i].header.pack = p]
  \/ files' = [files EXCEPT ![i].header.encryption = "none", ![i].header.flags = @ \ {"encrypted"}]
  \/ files' = [files EXCEPT ![i].header.flags = @ \ {"compressed"}]
  \/ files' = [files EXCEPT ![i].header.reserved = 1]
  \/ \E n \in 0..3 : files' = [files EXCEPT ![i].header.packedSize = n]
  \/ files' = [files EXCEPT ![i].header.encodedDigest = <<Damaged>>]
  \/ files' = [files EXCEPT ![i].header.packedDigest = <<Damaged>>]

Ended == {"done", "failed", "stopped"}
Others ==
  /\ others < MaxOthers /\ pc \notin Ended
  /\ \/ \E f \in Archives : files' = Append(files, f)
     \/ \E i \in DOMAIN files : i \in {opened, Len(files)} /\ Alter(i)
  /\ others' = others + 1
  /\ UNCHANGED <<request, opened, pc, header, stage>>

-----------------------------------------------------------------------------
(* withDecodedArchive and inspect.                                         *)

Current == files[Len(files)]
Goto(next) == pc' = next /\ UNCHANGED <<request, files, opened, header, others>>

\* readArchiveHeader, from an open file.
ValidHeader(h) ==
  /\ h.version \in 1..4 /\ h.reserved = 0
  /\ h.pack \in Packs /\ h.compression \in Compressions /\ h.encryption \in Encryptions
  /\ h.compression = "lz77" => h.version >= 3
  /\ h.version = Authenticated => Encrypted(h)
  /\ h.flags = Flags(h.compression, h.encryption)

ReadHeader ==
  /\ pc = "header"
  /\ header' = Current.header
  /\ pc' = IF ValidHeader(Current.header) THEN "size" ELSE "failed"
  /\ UNCHANGED <<request, files, opened, stage, others>>

\* The size is that of whatever the path names by now.
CheckSize ==
  /\ pc = "size"
  /\ Goto(IF header.encodedSize + TagCells(header) # Len(Current.body) THEN "failed"
          ELSE IF op = "inspect" THEN "inspect" ELSE "open")
  /\ UNCHANGED stage

Inspect ==
  /\ pc = "inspect"
  /\ Goto(IF /\ header.encodedSize <= Len(Current.body)
             /\ SubSeq(Current.body, 1, header.encodedSize) = header.encodedDigest
          THEN "done" ELSE "failed")
  /\ UNCHANGED stage

\* "legacy encrypted archive has no authentication"
OptIn == header.version = Authenticated \/ allowLegacy
OpenSnapshot ==
  /\ pc = "open"
  /\ pc' = IF Encrypted(header) => OptIn THEN "copy" ELSE "failed"
  /\ opened' = Len(files)
  /\ UNCHANGED <<request, files, header, stage, others>>

Wanted == header.encodedSize + TagCells(header)
CopySnapshot ==
  /\ pc = "copy" /\ Len(stage) < Wanted
  /\ IF Len(stage) < Len(files[opened].body)
     THEN Goto("copy") /\ stage' = Append(stage, files[opened].body[Len(stage) + 1])
     ELSE Goto("failed") /\ UNCHANGED stage
CopyEnd ==
  /\ pc = "copy" /\ Len(stage) >= Wanted
  /\ Goto("authenticate") /\ UNCHANGED stage

Authenticate ==
  LET payload == SubSeq(stage, 1, header.encodedSize) IN
  /\ pc = "authenticate"
  /\ Goto(IF /\ header.version = Authenticated
             /\ stage[Len(stage)] # Tag(header, payload, password)
          THEN "failed" ELSE "encoded")
  /\ stage' = payload

\* "archive payload checksum mismatch"
EncodedMatches == stage = header.encodedDigest
CheckEncoded ==
  /\ pc = "encoded"
  /\ Goto(IF EncodedMatches THEN "decrypt" ELSE "failed") /\ UNCHANGED stage

\* A stream cipher yields something for any key.
Decrypt ==
  /\ pc = "decrypt"
  /\ stage' = IF ~Encrypted(header) THEN stage
              ELSE [i \in DOMAIN stage |->
                     IF /\ stage[i].layer = header.encryption /\ stage[i].part = i
                        /\ stage[i].key = <<password, header.salt>>
                     THEN stage[i].of ELSE Damaged]
  /\ Goto("decompress")

Decompress ==
  /\ pc = "decompress"
  /\ IF header.compression = "none" THEN Goto("packed") /\ UNCHANGED stage
     ELSE IF /\ \A i \in DOMAIN stage : stage[i].layer = header.compression
             /\ Len(stage) = header.packedSize
     THEN Goto("packed") /\ stage' = [i \in DOMAIN stage |-> stage[i].of]
     ELSE Goto("failed") /\ UNCHANGED stage

\* An untransformed payload has been hashed already.
CheckPacked ==
  LET digest == IF Encrypted(header) \/ header.compression # "none" THEN stage
                                                                     ELSE header.encodedDigest
  IN /\ pc = "packed"
     /\ Goto(IF Len(stage) = header.packedSize /\ digest = header.packedDigest
             THEN "entries" ELSE "failed")
     /\ UNCHANGED stage

\* readPackedEntries looks at the structure, then version 1 at the entries.
ReadEntries ==
  /\ pc = "entries"
  /\ Goto(IF /\ stage # <<>>
             /\ \A i \in DOMAIN stage : stage[i].layer = header.pack
             /\ header.version = 1 => stage[1].of \notin Linked
          THEN "done" ELSE "failed")
  /\ UNCHANGED stage

\* A cancellation, or an error of the system.
Stop ==
  /\ pc \notin Ended
  /\ Goto("stopped") /\ UNCHANGED stage

Next ==
  \/ Others \/ ReadHeader \/ CheckSize \/ Inspect
  \/ OpenSnapshot \/ CopySnapshot \/ CopyEnd \/ Authenticate \/ CheckEncoded
  \/ Decrypt \/ Decompress \/ CheckPacked \/ ReadEntries \/ Stop

Spec == Init /\ [][Next]_vars

-----------------------------------------------------------------------------
TypeOK ==
  /\ password \in Passwords /\ allowLegacy \in BOOLEAN /\ op \in {"decode", "inspect"}
  /\ opened \in 0..Len(files) /\ others \in 0..MaxOthers
  /\ pc \notin Ended \cup {"header"} => ValidHeader(header)
  /\ pc = "copy" => Len(stage) <= header.encodedSize + TagCells(header)
  /\ pc = "entries" => Len(stage) = header.packedSize

Decoded == pc = "done" /\ op = "decode"

\* What is handed to a consumer is the whole content of one archive somebody
\* wrote, never the header or a part of one with a part of another, although
\* the file is read three times while others replace or change it.
WholeArchive == Decoded => \E c \in Contents, p \in Packs : stage = Packed(c, p)

\* Without the opt-in, an encrypted archive that is accepted was made with the
\* reader's password, header and content as they were made: downgrading it to
\* a version without authentication does not help.
EncryptedIsAuthentic ==
  Decoded /\ Encrypted(header) /\ ~allowLegacy =>
    \E f \in Created(password) : f.header = header /\ f.header.packedDigest = stage

\* Every archive create writes, with whatever options, is readable and
\* inspectable afterwards with the password it was made with.
CreatedIsReadable ==
  others = 0 /\ files[1] \in Created(password) => pc # "failed"
=============================================================================
