-------------------------------- MODULE Lz77 --------------------------------
(***************************************************************************)
(* lz77Compress and lz77Decompress (core/compress_lz77.cpp): blocks coded  *)
(* on their own as sequences of literals and matches, or stored.           *)
(*                                                                         *)
(* Every number that has a width in the stream is a parameter, so that the *)
(* carries between a nibble, its extension bytes and the two bytes of a    *)
(* distance happen in small instances.  The code has Nibble = 16, MinMatch *)
(* = 3, Window = MaxMatch = 65535, MaxChain = 64 and BlockSize = 2^20.     *)
(* Positions count from 0.  Reading and writing blocks is not split.       *)
(***************************************************************************)
EXTENDS Integers, Sequences, FiniteSetsExt

CONSTANTS
  Nibble, MinMatch, Window, MaxMatch, MaxChain, BlockSize,
  Hash(_),   \* lz77Hash, of three bytes
  Inputs,    \* what lz77Compress is given
  Streams    \* streams of other origin: [blocks, declared]

Byte == Nibble * Nibble
Most == Byte - 1     \* an extension byte that is followed by another
Full == Nibble - 1   \* a nibble that is followed by extension bytes

WidthAssumption ==
  /\ Nibble \in Nat \ {0, 1} /\ MinMatch \in Nat \ {0} /\ BlockSize \in Nat \ {0}
  /\ Window \in 1..Byte * Byte - 1 /\ MaxMatch \in Nat /\ MaxMatch >= MinMatch
  /\ MaxChain \in Nat \ {0}
DataAssumption ==
  /\ Inputs \subseteq Seq(0..Most)
  /\ \A s \in Streams :
       /\ s.blocks \in Seq([stored : BOOLEAN, raw : Nat, payload : Seq(0..Most)])
       /\ s.declared \in Nat

VARIABLES
  input, written,  \* what is compressed; whether the stream is that
  pc,
  start,           \* completed: where the current block begins
  position, literalStart,
  chain,           \* head_ and previous_: the positions inserted, newest first
  tokens,          \* output_
  blocks,          \* the stream: [stored, raw, payload]
  declared,        \* originalSize, equal to expectedSize
  current,         \* the block being decoded
  read, token,     \* in its payload
  out,             \* the bytes of the block decoded so far
  output

encoder == <<start, position, literalStart, chain, tokens>>
decoder == <<current, read, token, out, output>>
vars == <<input, written, pc, encoder, blocks, declared, decoder>>

Bytes == Seq(0..Most)
Lesser(m, n) == IF m < n THEN m ELSE n

TypeOK ==
  /\ pc \in {"encode", "decode", "literals", "match", "done", "failed"}
  /\ start \in 0..Len(input) /\ literalStart \in 0..position
  /\ \A i \in DOMAIN chain : chain[i] < position
  /\ \A i \in 2..Len(chain) : chain[i] < chain[i - 1]
  /\ tokens \in Bytes /\ out \in Bytes /\ output \in Bytes
  /\ \A i \in DOMAIN blocks : blocks[i].payload \in Bytes
  /\ current \in 1..Len(blocks) + 1 /\ token \in 0..Most

Init ==
  /\ start = 0 /\ position = 0 /\ literalStart = 0 /\ chain = <<>> /\ tokens = <<>>
  /\ current = 1 /\ read = 0 /\ token = 0 /\ out = <<>> /\ output = <<>>
  /\ \/ /\ written = TRUE /\ input \in Inputs
        /\ pc = "encode" /\ blocks = <<>> /\ declared = 0
     \/ /\ written = FALSE /\ input = <<>> /\ pc = "decode"
        /\ \E s \in Streams : blocks = s.blocks /\ declared = s.declared

-----------------------------------------------------------------------------
(* The encoder.                                                            *)

Raw == SubSeq(input, start + 1, Lesser(start + BlockSize, Len(input)))
Size == Len(Raw)
HashAt(p) == Hash(SubSeq(Raw, p + 1, p + 3))

\* Mutant of Extension: a remainder that fills a byte ends the length.
ExtensionFull(n) ==
  IF n = 0 THEN <<0>>
  ELSE [i \in 1..(n - 1) \div Most |-> Most] \o <<((n - 1) % Most) + 1>>
\* appendExtension
Extension(n) == [i \in 1..n \div Most |-> Most] \o <<n % Most>>
Extended(n) == IF n >= Full THEN Extension(n - Full) ELSE <<>>

\* appendSequence; a match of length 0 is none.
TokenSequence(literals, length, distance) ==
  LET code == IF length = 0 THEN 0 ELSE length - MinMatch IN
  <<Lesser(Len(literals), Full) * Nibble + Lesser(code, Full)>>
    \o Extended(Len(literals)) \o literals
    \o IF length = 0 THEN <<>>
       ELSE Extended(code) \o <<distance % Byte, (distance \div Byte) % Byte>>

\* How far two positions agree.
MatchLength(c, p) ==
  Max({n \in 0..Lesser(Size - p, MaxMatch) :
         \A i \in 1..n : Raw[c + i] = Raw[p + i]})

InWindow(c, p) == c < p /\ p - c <= Window

\* search: the newest of the longest matches among the last positions of the
\* bucket; those that come after p count as steps.
Search(inserted, p) ==
  LET bucket == {i \in DOMAIN inserted : HashAt(inserted[i]) = HashAt(p)}
      tried == {i \in bucket : /\ InWindow(inserted[i], p)
                               /\ Cardinality({j \in bucket : j <= i}) <= MaxChain}
      length(i) == MatchLength(inserted[i], p)
      best == CHOOSE i \in tried : \A j \in tried :
                length(j) < length(i) \/ (length(j) = length(i) /\ i <= j)
  IN IF tried = {} THEN [length |-> 0, distance |-> 0]
     ELSE [length |-> length(best), distance |-> p - inserted[best]]

Inserted == <<position>> \o chain
Found == Search(Inserted, position)
\* The lazy step: the next position starts a longer match.
NextIsBetter ==
  /\ position + 1 + MinMatch <= Size
  /\ Search(Inserted, position + 1).length > Found.length
MatchHere == Found.length >= MinMatch /\ ~NextIsBetter

Scanning == pc = "encode" /\ start < Len(input) /\ position + MinMatch <= Size

SkipLiteral ==
  /\ Scanning /\ ~MatchHere
  /\ chain' = Inserted /\ position' = position + 1
  /\ UNCHANGED <<input, written, pc, start, literalStart, tokens, blocks, declared, decoder>>

EmitMatch ==
  /\ Scanning /\ MatchHere
  /\ chain' = Inserted
  /\ tokens' = tokens \o TokenSequence(SubSeq(Raw, literalStart + 1, position),
                                       Found.length, Found.distance)
  /\ position' = position + Found.length /\ literalStart' = position'
  /\ UNCHANGED <<input, written, pc, start, blocks, declared, decoder>>

\* encode() starts with an empty chain.
FreshChain == <<>>

\* The literals at the end, and the shorter form of the block.
EmitBlock ==
  /\ pc = "encode" /\ start < Len(input) /\ position + MinMatch > Size
  /\ LET all == tokens \o IF literalStart < Size
                          THEN TokenSequence(SubSeq(Raw, literalStart + 1, Size), 0, 0) ELSE <<>>
         stored == Len(all) >= Size
     IN blocks' = Append(blocks, [stored |-> stored, raw |-> Size,
                                  payload |-> IF stored THEN Raw ELSE all])
  /\ start' = start + Size
  /\ position' = 0 /\ literalStart' = 0 /\ tokens' = <<>> /\ chain' = FreshChain
  /\ UNCHANGED <<input, written, pc, declared, decoder>>

EncodeEnd ==
  /\ pc = "encode" /\ start = Len(input)
  /\ declared' = Len(input) /\ pc' = "decode"
  /\ UNCHANGED <<input, written, encoder, blocks, decoder>>

-----------------------------------------------------------------------------
(* The decoder.                                                            *)

Block == blocks[current]
Payload == Block.payload
Left == Len(Payload) - read

\* What the header of a block may say.
Acceptable ==
  /\ Block.raw \in 1..BlockSize /\ Block.raw <= declared - Len(output)
  /\ IF Block.stored THEN Len(Payload) = Block.raw ELSE Len(Payload) < Block.raw

\* The next block may be read.
BlockComes ==
  pc = "decode" /\ Len(output) < declared /\ current <= Len(blocks) /\ Acceptable

\* A block is complete.
Deliver(bytes) ==
  output' = output \o bytes /\ current' = current + 1 /\ pc' = "decode"

ReadBlock ==
  /\ BlockComes
  /\ IF Block.stored THEN Deliver(Payload)
     ELSE pc' = "literals" /\ UNCHANGED <<output, current>>
  /\ read' = 0 /\ out' = <<>>
  /\ UNCHANGED <<input, written, encoder, blocks, declared, token>>

\* readLength: the value of a nibble and the extension bytes after "at", if
\* they exist and do not exceed the block. "more" is their number.
ReadLength(nibble, at, value, more) ==
  IF nibble < Full THEN value = nibble /\ more = 0
  ELSE /\ more >= 1 /\ at + more <= Len(Payload)
       /\ \A i \in 1..more - 1 : Payload[at + i] = Most
       /\ Payload[at + more] # Most
       /\ value = Full + (more - 1) * Most + Payload[at + more]
       /\ value <= Block.raw
Lengths == 0..BlockSize
Extras == 0..BlockSize

\* A run or match stays in the declared block.
Fits(n) == n <= Block.raw - Len(out)

\* A token and its literals; they may complete the block.
LiteralsAre(count, more) ==
  /\ pc = "literals" /\ Len(out) < Block.raw /\ Left >= 1
  /\ ReadLength(Payload[read + 1] \div Nibble, read + 1, count, more)
  /\ read + 1 + more + count <= Len(Payload) /\ Fits(count)
DecodeLiterals ==
  /\ \E count \in Lengths, more \in Extras :
       LET from == read + 1 + more IN
       /\ LiteralsAre(count, more)
       /\ out' = out \o SubSeq(Payload, from + 1, from + count)
       /\ read' = from + count
  /\ token' = Payload[read + 1]
  /\ pc' = IF Len(out') = Block.raw THEN "literals" ELSE "match"
  /\ UNCHANGED <<input, written, encoder, blocks, declared, current, output>>

\* A copy, byte by byte: it may read what it has just written.
Copied(length, distance) ==
  [i \in 1..Len(out) + length |->
     IF i <= Len(out) THEN out[i]
     ELSE out[Len(out) - distance + 1 + ((i - Len(out) - 1) % distance)]]

\* The two bytes after "at".
DistanceAt(at) == Payload[at + 1] + Payload[at + 2] * Byte
MatchIs(code, more) ==
  /\ pc = "match"
  /\ ReadLength(token % Nibble, read, code, more)
  /\ read + more + 2 <= Len(Payload)
  /\ DistanceAt(read + more) \in 1..Len(out) /\ Fits(code + MinMatch)
DecodeMatch ==
  /\ \E code \in Lengths, more \in Extras :
       /\ MatchIs(code, more)
       /\ out' = Copied(code + MinMatch, DistanceAt(read + more))
       /\ read' = read + more + 2
  /\ pc' = "literals"
  /\ UNCHANGED <<input, written, encoder, blocks, declared, current, token, output>>

\* The block has its declared size and nothing of the payload is left.
BlockIsComplete == pc = "literals" /\ Len(out) = Block.raw /\ Left = 0
FinishBlock ==
  /\ BlockIsComplete
  /\ Deliver(out)
  /\ UNCHANGED <<input, written, encoder, blocks, declared, read, token, out>>

StreamIsComplete == pc = "decode" /\ Len(output) >= declared /\ current = Len(blocks) + 1
DecodeEnd ==
  /\ StreamIsComplete
  /\ pc' = "done"
  /\ UNCHANGED <<input, written, encoder, blocks, declared, decoder>>

Decode == ReadBlock \/ DecodeLiterals \/ DecodeMatch \/ FinishBlock \/ DecodeEnd

DecodeError ==
  /\ pc \in {"decode", "literals", "match"}
  /\ ~BlockComes /\ ~BlockIsComplete /\ ~StreamIsComplete
  /\ \A n \in Lengths, more \in Extras : ~LiteralsAre(n, more) /\ ~MatchIs(n, more)
  /\ pc' = "failed"
  /\ UNCHANGED <<input, written, encoder, blocks, declared, decoder>>

Next == SkipLiteral \/ EmitMatch \/ EmitBlock \/ EncodeEnd \/ Decode \/ DecodeError

Spec == Init /\ [][Next]_vars

-----------------------------------------------------------------------------
\* What was compressed is accepted and comes back, whatever matches were found
\* and wherever the block boundaries fall.
RoundTrip == written => pc # "failed" /\ (pc = "done" => output = input)

\* A malformed block can neither be read nor written past its declared sizes.
InBuffers ==
  /\ pc \in {"literals", "match"} =>
       current <= Len(blocks) /\ read <= Len(Payload) /\ Len(out) <= Block.raw
  /\ pc # "encode" => Len(output) <= declared
=============================================================================
