----------------------------- MODULE MCFormats -----------------------------
(***************************************************************************)
(* The formats on small instances, one at a time: "active" says which, and *)
(* the variables of the others stand still.  Modules whose variables have  *)
(* the same names share them.                                              *)
(*                                                                         *)
(*   rle      RunLength                                                    *)
(*   lz77     Lz77                                                         *)
(*   huffman  Huffman                                                      *)
(*   pack     PackFormat                                                   *)
(*   archive  ArchiveFile: some options, with steps of other programs      *)
(*   options  ArchiveFile: every combination of options, undisturbed       *)
(*                                                                         *)
(* MCFormats.cfg checks runs and literal blocks of at most four bytes;     *)
(* nibbles of one bit and bytes of two, with matches and distances that    *)
(* exceed their bounds and a second block; codes of four symbols in bytes  *)
(* of three bits; two sources and two damages of a stage; and two steps of *)
(* other programs.                                                         *)
(***************************************************************************)
EXTENDS Integers, Sequences, TLC

CONSTANTS
  MaxRun, Values, MaxInput, MaxStream, Unreadable,              \* of RunLength
  Nibble, MinMatch, Window, MaxMatch, MaxChain, BlockSize,      \* of Lz77
  Hash(_), Texts, Compressed,
  Symbols, ByteBits, Words, Tables,                             \* of Huffman
  Sources, Paths, Word, MaxEntries, MaxSize, Up, MaxDamages,    \* of PackFormat
  Contents, Linked, OldOptions, Passwords, Garbage,             \* of ArchiveFile
  FewOptions, FewSalts, MaxOthers,                              \* of the part "archive"
  AllOptions, AllSalts                                          \* of the part "options"

VARIABLES
  active, pc,
  input, written, declared, read, output, stream, at, current,
  runByte, runLength, literals,
  start, position, literalStart, chain, tokens, blocks, token, out,
  decoding, queue, lengths, codes, prefix,
  source, layout, offsets, central, count, entries, damages, stage,
  password, allowLegacy, op, files, opened, header, others

-----------------------------------------------------------------------------
R == INSTANCE RunLength
L == INSTANCE Lz77 WITH Inputs <- Texts, Streams <- Compressed
H == INSTANCE Huffman WITH Inputs <- Words, Streams <- Tables
P == INSTANCE PackFormat
A == INSTANCE ArchiveFile WITH Options <- FewOptions, Salts <- FewSalts
O == INSTANCE ArchiveFile WITH Options <- AllOptions, Salts <- AllSalts, MaxOthers <- 0

ASSUME RunLengthAssumption == R!RunAssumption /\ R!BoundAssumption
ASSUME Lz77Assumption == L!WidthAssumption /\ L!DataAssumption
ASSUME HuffmanAssumption == H!SymbolsAssumption /\ H!DataAssumption
ASSUME PackAssumption == P!WordAssumption /\ P!SourcesAssumption
ASSUME ArchiveAssumption == A!OptionsAssumption /\ O!OptionsAssumption

-----------------------------------------------------------------------------
(* The values of MCFormats.cfg.                                            *)

UpTo(S, n) == UNION {[1..m -> S] : m \in 0..n}

\* Short texts, and a word that comes again after a gap.
MCTexts ==
  UpTo({0, 1}, 11) \cup
  {<<0, 1, 1, 0>> \o [i \in 1..n |-> 2 + ((i \div k) % 2)] \o <<0, 1, 1, 0>> :
     n \in 8..20, k \in 1..4}
\* Buckets that hold different contents.
FirstByte(bytes) == bytes[1]

Token(raw, payload) == [stored |-> FALSE, raw |-> raw, payload |-> payload]
Stored(raw, payload) == [stored |-> TRUE, raw |-> raw, payload |-> payload]
\* One block of tokens, with what its header may say; stored blocks; a block
\* too many.
MCCompressed ==
  {[blocks |-> <<Token(raw, p)>>, declared |-> d] :
     raw \in 6..7, p \in UpTo(0..3, 5), d \in {6, 7}}
  \cup {[blocks |-> <<Token(8, <<3, 0, 0>> \o p)>>, declared |-> 8] : p \in [1..4 -> 0..3]}
  \cup {[blocks |-> <<Stored(raw, p)>>, declared |-> d] :
          raw \in 0..2, p \in UpTo({0}, 2), d \in 0..2}
  \cup {[blocks |-> <<Stored(1, <<0>>), Token(6, p)>>, declared |-> d] :
          p \in {<<2, 0, 0, 1, 0>>, <<3, 0, 0, 1, 2, 0>>, <<3, 0, 0, 1, 1, 0>>}, d \in {1, 7}}
  \cup {[blocks |-> <<Token(6, <<2, 0, 0, 1, 0>>), Stored(1, p)>>, declared |-> d] :
          p \in UpTo({0}, 2), d \in {6, 7}}

\* Two words of rare symbols make the tree as deep as it can be.
MCWords == UpTo(0..3, 4) \cup {<<0, 1, 2, 2>> \o w : w \in UpTo(2..3, 5)}
MCTables ==
  {[lengths |-> l, bits |-> b, declared |-> d] :
     l \in [0..3 -> 0..3], b \in UNION {[1..n -> {0, 1}] : n \in {0, 3, 6}}, d \in {0, 2}}

Entry(path, type, link, size, attr) ==
  [path |-> path, type |-> type, link |-> link, size |-> size, offset |-> 0, attr |-> attr]
MCSources ==
  {<<Entry(<<"r">>, "Directory", <<>>, 0, 0), Entry(<<"r", "a">>, "Regular", <<>>, 2, 1),
     Entry(<<"r", "b">>, "Hardlink", <<"r", "a">>, 0, 1),
     Entry(<<"r", "c">>, "Hardlink", <<"r", "a">>, 0, 1)>>,
   <<Entry(<<"r">>, "Directory", <<>>, 0, 0), Entry(<<"r", "d">>, "Directory", <<>>, 0, 1),
     Entry(<<"r", "d", "a">>, "Regular", <<>>, 1, 0),
     Entry(<<"r", "e">>, "Regular", <<>>, 2, 1)>>}
MCPaths ==
  {<<>>, <<"r">>, <<"r", "a">>, <<"r", "b">>, <<"r", "d", "a">>, <<"r", "..", "a">>, <<"d">>}

Option(pack, compression, encryption, word) ==
  [pack |-> pack, compression |-> compression, encryption |-> encryption, password |-> word]
OldOption(version, o) ==
  [version |-> version, pack |-> o.pack, compression |-> o.compression,
   encryption |-> o.encryption, password |-> o.password]
MCFewOptions ==
  {Option("index", "lz77", "none", "w1"), Option("stream", "rle", "chacha20", "w1")}
MCOldOptions ==
  {OldOption(1, Option("stream", "none", "none", "w1")),
   OldOption(3, Option("index", "none", "aes256", "w2"))}
MCAllOptions ==
  {Option(p, c, e, w) : p \in A!Packs, c \in A!Compressions, e \in A!Encryptions,
                        w \in {"w1", "w2"}}

-----------------------------------------------------------------------------
rleOnly == <<runByte, runLength, literals>>
lzOnly == <<start, position, literalStart, chain, tokens, blocks, token, out>>
huffmanOnly == <<decoding, queue, lengths, codes, prefix>>
codecs == <<input, written, declared, read, output>>
packOnly == <<source, layout, offsets, central, count, entries, damages>>
archiveOnly == <<password, allowLegacy, op, files, opened, header, others>>
vars == <<active, pc, codecs, stream, at, current, rleOnly, lzOnly, huffmanOnly,
          packOnly, stage, archiveOnly>>

NoRle == runByte = 0 /\ runLength = 0 /\ literals = 0
NoLz ==
  /\ start = 0 /\ position = 0 /\ literalStart = 0 /\ chain = 0 /\ tokens = 0
  /\ blocks = 0 /\ token = 0 /\ out = 0
NoHuffman == decoding = 0 /\ queue = 0 /\ lengths = 0 /\ codes = 0 /\ prefix = 0
NoCodec ==
  /\ input = 0 /\ written = 0 /\ declared = 0 /\ read = 0 /\ output = 0 /\ stream = 0
  /\ current = 0 /\ NoRle /\ NoLz /\ NoHuffman
NoPack ==
  /\ source = 0 /\ layout = 0 /\ offsets = 0 /\ central = 0 /\ count = 0
  /\ entries = 0 /\ damages = 0
NoArchive ==
  /\ password = 0 /\ allowLegacy = 0 /\ op = 0 /\ files = 0 /\ opened = 0
  /\ header = 0 /\ others = 0

Init ==
  \/ /\ active = "rle" /\ R!Init
     /\ current = 0 /\ NoLz /\ NoHuffman /\ NoPack /\ stage = 0 /\ NoArchive
  \/ /\ active = "lz77" /\ L!Init
     /\ stream = 0 /\ at = 0 /\ NoRle /\ NoHuffman /\ NoPack /\ stage = 0 /\ NoArchive
  \/ /\ active = "huffman" /\ H!Init
     /\ NoRle /\ NoLz /\ NoPack /\ stage = 0 /\ NoArchive
  \/ /\ active = "pack" /\ P!Init
     /\ NoCodec /\ NoArchive
  \/ /\ \/ active = "archive" /\ A!Init
        \/ active = "options" /\ O!Init
     /\ NoCodec /\ at = 0 /\ NoPack

Next ==
  /\ active' = active
  /\ \/ /\ active = "rle" /\ R!Next
        /\ UNCHANGED <<current, lzOnly, huffmanOnly, packOnly, stage, archiveOnly>>
     \/ /\ active = "lz77" /\ L!Next
        /\ UNCHANGED <<stream, at, rleOnly, huffmanOnly, packOnly, stage, archiveOnly>>
     \/ /\ active = "huffman" /\ H!Next
        /\ UNCHANGED <<rleOnly, lzOnly, packOnly, stage, archiveOnly>>
     \/ /\ active = "pack" /\ P!Next
        /\ UNCHANGED <<codecs, stream, current, rleOnly, lzOnly, huffmanOnly, archiveOnly>>
     \/ /\ \/ active = "archive" /\ A!Next
           \/ active = "options" /\ O!Next
        /\ UNCHANGED <<codecs, stream, at, current, rleOnly, lzOnly, huffmanOnly, packOnly>>

Spec == Init /\ [][Next]_vars

-----------------------------------------------------------------------------
\* The variables have their types, and no decoder reads or writes past the
\* sizes that were declared to it, whatever the stream.
TypeOK ==
  /\ active = "rle" => R!TypeOK /\ R!OutputIsBounded
  /\ active = "lz77" => L!TypeOK /\ L!InBuffers
  /\ active = "huffman" => H!TypeOK
  /\ active = "pack" => P!TypeOK /\ P!ContentIsInside
  /\ active = "archive" => A!TypeOK

\* Whatever this program writes, it reads again and gets what it was given: a
\* stream of each codec, a stage of each layout, an archive with any options.
\* The Huffman code is the shortest there is, no table of lengths that has one
\* is refused, and a run-length stream grows by no more than one byte per block.
RoundTrip ==
  /\ active = "rle" => R!RoundTrip /\ R!GrowthIsBounded
  /\ active = "lz77" => L!RoundTrip
  /\ active = "huffman" => H!RoundTrip /\ H!CodeIsOptimal /\ H!RefusedIsImpossible
  /\ active = "pack" => P!RoundTrip
  /\ active = "options" => O!CreatedIsReadable

\* What a reader accepts means exactly one thing: the decoders accept only
\* streams the encoder might have written or that stand for their output, the
\* readers of a stage only lists that can be restored and leave nothing unread,
\* and an archive is opened only if it is whole and, if encrypted, authentic.
OnlyValidIsAccepted ==
  /\ active = "rle" => R!AcceptsExactlyTheValid
  /\ active = "huffman" => H!CodesAreDistinct /\ H!AcceptedIsCanonical
  /\ active = "pack" => P!NothingIsLeft /\ P!AcceptedIsRestorable
  /\ active = "archive" => A!WholeArchive /\ A!EncryptedIsAuthentic
=============================================================================
