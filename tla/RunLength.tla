----------------------------- MODULE RunLength -----------------------------
(***************************************************************************)
(* rleCompress and rleDecompress (core/compress_rle.cpp), one byte and one *)
(* block at a time.  A control byte below MaxRun starts that many literals *)
(* and one more; any other repeats the byte after it.  The code has MaxRun *)
(* = 128.  The magic and the declared size are the variable "declared".    *)
(***************************************************************************)
EXTENDS Integers, Sequences

CONSTANTS
  MaxRun,    \* the longest run and the longest literal block
  Values,    \* the bytes of the input
  MaxInput,  \* bound: the length of an input
  MaxStream, \* bound: the length of a stream that was not written by the encoder
  Unreadable \* the meaning of a stream that has none

RunAssumption ==
  MaxRun \in Nat \ {0} /\ Values \subseteq 0..2 * MaxRun - 1
  /\ Unreadable \notin Seq(0..2 * MaxRun - 1)
BoundAssumption == MaxInput \in Nat /\ MaxStream \in Nat

Bytes == 0..2 * MaxRun - 1
UpTo(S, n) == UNION {[1..m -> S] : m \in 0..n}
Repeat(v, n) == [j \in 1..n |-> v]
Shorter(m, n) == IF m < n THEN m ELSE n

VARIABLES
  input,      \* what rleCompress is given
  written,    \* whether the stream comes from rleCompress
  pc,
  at,         \* bytes of the input consumed
  runByte, runLength,  \* the current run; its length is 0 before the first byte
  literals,
  stream,     \* the encoded bytes
  declared,   \* originalSize in the header, equal to expectedSize
  read,       \* bytes of the stream consumed
  output

vars == <<input, written, pc, at, runByte, runLength, literals, stream, declared, read, output>>

TypeOK ==
  /\ input \in UpTo(Values, MaxInput) /\ written \in BOOLEAN
  /\ pc \in {"encode", "flush", "decode", "done", "failed"}
  /\ at \in 0..MaxInput
  /\ runByte \in Bytes /\ runLength \in 0..MaxRun
  /\ literals \in Seq(Bytes) /\ Len(literals) < MaxRun
  /\ stream \in Seq(Bytes) /\ declared \in Nat
  /\ read \in 0..Len(stream) /\ output \in Seq(Bytes)

\* Either an input to encode and decode again, or a stream found in a file.
Init ==
  /\ at = 0 /\ runByte = 0 /\ runLength = 0 /\ literals = <<>>
  /\ read = 0 /\ output = <<>>
  /\ \/ /\ written = TRUE /\ input \in UpTo(Values, MaxInput)
        /\ pc = "encode" /\ stream = <<>> /\ declared = 0
     \/ /\ written = FALSE /\ input = <<>>
        /\ pc = "decode" /\ stream \in UpTo(Bytes, MaxStream) /\ declared \in 0..MaxInput

\* What has been collected and written, as a pair.
FlushLiterals(p) ==
  IF p.lits = <<>> THEN p
  ELSE [lits |-> <<>>, out |-> p.out \o <<Len(p.lits) - 1>> \o p.lits]

AddLiteral(p, v) ==
  LET q == [p EXCEPT !.lits = Append(@, v)] IN
  IF Len(q.lits) = MaxRun THEN FlushLiterals(q) ELSE q

\* Runs of one or two bytes become literals.
FlushRun(p, v, n) ==
  IF n >= 3
  THEN LET q == FlushLiterals(p) IN [q EXCEPT !.out = @ \o <<MaxRun + n - 1, v>>]
  ELSE IF n = 2 THEN AddLiteral(AddLiteral(p, v), v) ELSE AddLiteral(p, v)

Pending == [lits |-> literals, out |-> stream]

\* One byte of the input.
EncodeByte ==
  /\ pc = "encode" /\ at < Len(input)
  /\ LET value == input[at + 1] IN
     IF runLength = 0 \/ (value = runByte /\ runLength < MaxRun)
     THEN /\ runByte' = value /\ runLength' = runLength + 1
          /\ UNCHANGED <<literals, stream>>
     ELSE /\ LET p == FlushRun(Pending, runByte, runLength) IN
             literals' = p.lits /\ stream' = p.out
          /\ runByte' = value /\ runLength' = 1
  /\ at' = at + 1
  /\ UNCHANGED <<input, written, pc, declared, read, output>>

\* The last run and the last literals.
EncodeEnd ==
  /\ pc = "encode" /\ at = Len(input)
  /\ LET p == IF runLength > 0 THEN FlushRun(Pending, runByte, runLength) ELSE Pending
         q == FlushLiterals(p)
     IN literals' = q.lits /\ stream' = q.out
  /\ declared' = Len(input) /\ pc' = "decode"
  /\ UNCHANGED <<input, written, at, runByte, runLength, read, output>>

\* Mutant of Fits: the limit is the declared size, not what is left of it.
FitsWhole(count) == count <= declared
\* A block does not exceed what is left of the declared size.
Fits(count) == count <= declared - Len(output)

Left == Len(stream) - read
Control == stream[read + 1]
Count == (Control % MaxRun) + 1

\* A run, or a block of literals, is there and fits.
RunComes == Len(output) < declared /\ Left >= 2 /\ Control >= MaxRun /\ Fits(Count)
LiteralsCome ==
  Len(output) < declared /\ Left >= 1 /\ Control < MaxRun /\ Fits(Count) /\ Left > Count
Complete == Len(output) >= declared /\ Left = 0

DecodeRun ==
  /\ pc = "decode" /\ RunComes
  /\ output' = output \o Repeat(stream[read + 2], Count)
  /\ read' = read + 2
  /\ UNCHANGED <<input, written, pc, at, runByte, runLength, literals, stream, declared>>
DecodeLiterals ==
  /\ pc = "decode" /\ LiteralsCome
  /\ output' = output \o SubSeq(stream, read + 2, read + 1 + Count)
  /\ read' = read + 1 + Count
  /\ UNCHANGED <<input, written, pc, at, runByte, runLength, literals, stream, declared>>

\* Mutant of DecodeEnd: trailing data is accepted.
DecodeEndEarly ==
  /\ pc = "decode" /\ Len(output) >= declared
  /\ pc' = "done"
  /\ UNCHANGED <<input, written, at, runByte, runLength, literals, stream, declared, read, output>>
DecodeEnd ==
  /\ pc = "decode" /\ Complete
  /\ pc' = "done"
  /\ UNCHANGED <<input, written, at, runByte, runLength, literals, stream, declared, read, output>>

Decode == DecodeRun \/ DecodeLiterals \/ DecodeEnd

\* Everything else is an error: a block that is cut short or too long, or
\* data after the last one.
DecodeError ==
  /\ pc = "decode" /\ ~RunComes /\ ~LiteralsCome /\ ~Complete
  /\ pc' = "failed"
  /\ UNCHANGED <<input, written, at, runByte, runLength, literals, stream, declared, read, output>>

Next == EncodeByte \/ EncodeEnd \/ Decode \/ DecodeError

Spec == Init /\ [][Next]_vars

\* A reference decoder: what a whole stream stands for, by recursion on the
\* position from which it is read. Unreadable is no sequence of bytes.
CountAt(s, p) == (s[p] % MaxRun) + 1
After(s, p) == IF s[p] >= MaxRun THEN p + 2 ELSE p + 1 + CountAt(s, p)
Block(s, p) == IF s[p] >= MaxRun THEN Repeat(s[p + 1], CountAt(s, p))
               ELSE SubSeq(s, p + 1, p + CountAt(s, p))
MeaningFrom(s) ==
  LET from[p \in 1..Len(s) + 1] ==
        IF p = Len(s) + 1 THEN <<>>
        ELSE IF After(s, p) > Len(s) + 1 \/ from[After(s, p)] = Unreadable THEN Unreadable
        ELSE Block(s, p) \o from[After(s, p)]
  IN from
Meaning(s) == MeaningFrom(s)[1]

\* Decoding what was encoded gives the input back.
RoundTrip == written => pc # "failed" /\ (pc = "done" => output = input)

\* Whatever the stream, the decoder never produces more than was declared.
OutputIsBounded == Len(output) <= declared \/ pc = "encode"

\* A stream is accepted exactly if the whole of it stands for a sequence of the
\* declared length, and then that is the output.
AcceptsExactlyTheValid ==
  /\ pc = "done" => Meaning(stream) = output /\ Len(output) = declared
  /\ pc = "failed" => Meaning(stream) = Unreadable \/ Len(Meaning(stream)) # declared

\* In the worst case the encoder adds one control byte to every full block of
\* literals and to the rest.
GrowthIsBounded ==
  written /\ pc = "done" => Len(stream) <= Len(input) + (Len(input) + MaxRun - 1) \div MaxRun
=============================================================================
