------------------------------ MODULE Huffman ------------------------------
(***************************************************************************)
(* huffmanCompress and huffmanDecompress (core/compress_huffman.cpp): code *)
(* lengths from frequencies, canonical codes from lengths, and the bits.   *)
(* In the code there are 256 symbols and ByteBits = 8.                     *)
(*                                                                         *)
(* A node of the queue is the tree below it: the depth of each symbol.     *)
(* The trie of the decoder is the set of codes and their prefixes.         *)
(***************************************************************************)
EXTENDS Integers, Sequences, SequencesExt, FiniteSetsExt

CONSTANTS
  Symbols,   \* in their order
  ByteBits,
  Inputs,    \* what huffmanCompress is given
  Streams    \* streams of other origin: [lengths, bits, declared]

SymbolsAssumption ==
  Symbols \subseteq Nat /\ IsFiniteSet(Symbols) /\ ByteBits \in Nat \ {0}
DataAssumption ==
  /\ Inputs \subseteq Seq(Symbols)
  /\ \A x \in Streams :
       /\ x.lengths \in [Symbols -> Nat] /\ x.declared \in Nat
       /\ x.bits \in Seq({0, 1}) /\ Len(x.bits) % ByteBits = 0

VARIABLES
  input, written,     \* what is compressed; whether the stream is that
  pc, decoding,
  queue,              \* of trees: [frequency, minimum, depth]
  lengths, declared, stream,  \* the file: header and bits
  codes, current,     \* canonicalCodes: the codes so far and the one last given
  at,                 \* symbols of the input written
  read,               \* bits of the stream read
  prefix,             \* the node of the trie that has been reached
  output

file == <<lengths, declared, stream>>
table == <<codes, current>>
reader == <<read, prefix, output>>
vars == <<input, written, pc, decoding, queue, file, table, at, reader>>

Bit == {0, 1}
None == <<>>   \* the code of a symbol without one

TypeOK ==
  /\ pc \in {"merge", "codes", "write", "read", "done", "failed"} /\ decoding \in BOOLEAN
  /\ \A t \in queue : t.minimum = Min(DOMAIN t.depth)
  /\ \A t, u \in queue : t = u \/ DOMAIN t.depth \cap DOMAIN u.depth = {}
  /\ lengths \in [Symbols -> Nat] /\ declared \in Nat /\ stream \in Seq(Bit)
  /\ codes \in [Symbols -> Seq(Bit)] /\ \A s \in Symbols : Len(codes[s]) \in {0, lengths[s]}
  /\ at \in 0..Len(input) /\ read \in 0..Len(stream) /\ output \in Seq(Symbols)

Frequency(s) == Cardinality({i \in DOMAIN input : input[i] = s})
Leaf(s) == [frequency |-> Frequency(s), minimum |-> s, depth |-> [x \in {s} |-> 0]]

\* The first pass over the input counts; or a stream is found in a file.
Init ==
  /\ codes = [s \in Symbols |-> None] /\ current = <<>>
  /\ at = 0 /\ read = 0 /\ prefix = <<>> /\ output = <<>>
  /\ \/ /\ written = TRUE /\ input \in Inputs /\ pc = "merge" /\ decoding = FALSE
        /\ queue = {Leaf(s) : s \in {x \in Symbols : Frequency(x) > 0}}
        /\ lengths = [s \in Symbols |-> 0] /\ declared = Len(input) /\ stream = <<>>
     \/ /\ written = FALSE /\ input = <<>> /\ pc = "codes" /\ decoding = TRUE /\ queue = {}
        /\ \E x \in Streams : lengths = x.lengths /\ declared = x.declared /\ stream = x.bits

-----------------------------------------------------------------------------
(* buildHuffmanLengths.                                                    *)

\* The order of the priority queue.
Before(t, u) ==
  t.frequency < u.frequency \/ (t.frequency = u.frequency /\ t.minimum < u.minimum)

Joined(t, u) ==
  [frequency |-> t.frequency + u.frequency,
   minimum |-> Min({t.minimum, u.minimum}),
   depth |-> [s \in DOMAIN t.depth \cup DOMAIN u.depth |->
                1 + IF s \in DOMAIN t.depth THEN t.depth[s] ELSE u.depth[s]]]

Merge ==
  /\ pc = "merge"
  /\ \E t, u \in queue :
       /\ Before(t, u) /\ \A v \in queue \ {t, u} : Before(u, v)
       /\ queue' = (queue \ {t, u}) \cup {Joined(t, u)}
  /\ UNCHANGED <<input, written, pc, decoding, file, table, at, reader>>

Bits(depth) == Max({depth, 1})

\* The depths of the one tree; a lone symbol still gets one bit.
TakeLengths ==
  /\ pc = "merge" /\ \A t, u \in queue : t = u
  /\ lengths' = [s \in Symbols |->
       IF \E t \in queue : s \in DOMAIN t.depth
       THEN LET t == CHOOSE t \in queue : TRUE IN Bits(t.depth[s]) ELSE 0]
  /\ queue' = {} /\ pc' = "codes"
  /\ UNCHANGED <<input, written, decoding, declared, stream, table, at, reader>>

-----------------------------------------------------------------------------
(* canonicalCodes, for the writer and again for the reader.                *)

Pending == {s \in Symbols : lengths[s] > 0 /\ codes[s] = None}
First == CHOOSE s \in Pending : \A x \in Pending \ {s} :
           lengths[s] < lengths[x] \/ (lengths[s] = lengths[x] /\ s < x)

AllOnes(c) == \A i \in DOMAIN c : c[i] = 1
\* The binary successor, with the carry lost.
Successor(c) ==
  LET p == Max({0} \cup {i \in DOMAIN c : c[i] = 0}) IN
  [i \in DOMAIN c |-> IF i < p THEN c[i] ELSE IF i = p THEN 1 ELSE 0]

\* There is no code after the one given last.
Overflows == current # <<>> /\ AllOnes(current)

AssignCode ==
  /\ pc = "codes" /\ Pending # {} /\ ~Overflows
  /\ LET length == lengths[First]
         code == (IF current = <<>> THEN <<>> ELSE Successor(current))
         full == code \o [i \in 1..length - Len(code) |-> 0]
     IN codes' = [codes EXCEPT ![First] = full] /\ current' = full
  /\ UNCHANGED <<input, written, pc, decoding, queue, file, at, reader>>

\* "oversubscribed Huffman code lengths"
RefuseLengths ==
  /\ pc = "codes" /\ Pending # {} /\ Overflows
  /\ pc' = "failed"
  /\ UNCHANGED <<input, written, decoding, queue, file, table, at, reader>>

Used == {s \in Symbols : lengths[s] > 0}
Given == {s \in Symbols : codes[s] # None}
PrefixFree == \A s, x \in Given : s # x => ~IsPrefix(codes[s], codes[x])

StartWriting ==
  /\ pc = "codes" /\ ~decoding /\ Pending = {}
  /\ pc' = "write"
  /\ UNCHANGED <<input, written, decoding, queue, file, table, at, reader>>

\* The trie, and the table must fit the declared size.
StartReading ==
  /\ pc = "codes" /\ decoding /\ Pending = {}
  /\ pc' = IF PrefixFree /\ (declared = 0) = (Used = {}) THEN "read" ELSE "failed"
  /\ UNCHANGED <<input, written, decoding, queue, file, table, at, reader>>

-----------------------------------------------------------------------------
(* The bits.                                                               *)

WriteSymbol ==
  /\ pc = "write" /\ at < Len(input)
  /\ stream' = stream \o codes[input[at + 1]] /\ at' = at + 1
  /\ UNCHANGED <<input, written, pc, decoding, queue, lengths, declared, table, reader>>

\* BitWriter::finish
Padding(bits) == bits \o [i \in 1..(-Len(bits)) % ByteBits |-> 0]

\* The file is complete, and is read back.
FinishWriting ==
  /\ pc = "write" /\ at = Len(input)
  /\ stream' = Padding(stream)
  /\ pc' = "codes" /\ decoding' = TRUE
  /\ codes' = [s \in Symbols |-> None] /\ current' = <<>>
  /\ UNCHANGED <<input, written, queue, lengths, declared, at, reader>>

\* The trie goes on with the next bit.
NextBits == Append(prefix, stream[read + 1])
BitComes ==
  /\ Len(output) < declared /\ read < Len(stream)
  /\ \E s \in Used : IsPrefix(NextBits, codes[s])
ReadBit ==
  /\ pc = "read" /\ BitComes
  /\ LET found == {s \in Used : codes[s] = NextBits}
     IN IF found = {} THEN prefix' = NextBits /\ UNCHANGED output
        ELSE prefix' = <<>> /\ output' = Append(output, CHOOSE s \in found : TRUE)
  /\ read' = read + 1
  /\ UNCHANGED <<input, written, pc, decoding, queue, file, table, at>>

\* hasOnlyZeroPaddingAndEof: only zeros in the byte, and no further byte.
OnlyPadding ==
  /\ Len(stream) - read < ByteBits
  /\ \A i \in read + 1..Len(stream) : stream[i] = 0

Complete == Len(output) >= declared /\ OnlyPadding
FinishReading ==
  /\ pc = "read" /\ Complete
  /\ pc' = "done"
  /\ UNCHANGED <<input, written, decoding, queue, file, table, at, reader>>

\* The stream is truncated, holds no code, or goes on.
ReadError ==
  /\ pc = "read" /\ ~BitComes /\ ~Complete
  /\ pc' = "failed"
  /\ UNCHANGED <<input, written, decoding, queue, file, table, at, reader>>

Next ==
  \/ Merge \/ TakeLengths \/ AssignCode \/ RefuseLengths
  \/ StartWriting \/ WriteSymbol \/ FinishWriting
  \/ StartReading \/ ReadBit \/ FinishReading \/ ReadError

Spec == Init /\ [][Next]_vars

-----------------------------------------------------------------------------
Longest == Max({lengths[s] : s \in Symbols} \cup {0})
\* The share of all words of length n that a table of lengths takes.
Kraft(l, n) == MapThenSumSet(LAMBDA s : IF l[s] = 0 THEN 0 ELSE 2 ^ (n - l[s]), DOMAIN l)

\* What was compressed is accepted and comes back.
RoundTrip == written => pc # "failed" /\ (pc = "done" => output = input)

\* The codes of a table are a prefix code: the checks the decoder makes of its
\* trie never find anything.
CodesAreDistinct == PrefixFree

\* A table of lengths is refused exactly if it has no prefix code (Kraft).
RefusedIsImpossible ==
  /\ pc \in {"write", "read"} => Kraft(lengths, Longest) <= 2 ^ Longest
  /\ pc = "codes" /\ Overflows /\ Pending # {} => Kraft(lengths, Longest) > 2 ^ Longest

\* No prefix code encodes the input in fewer bits.
CodeIsOptimal ==
  pc = "write" /\ Cardinality(Used) > 1 =>
    LET cost(l) == MapThenSumSet(LAMBDA s : Frequency(s) * l[s], Used)
        n == Cardinality(Used) - 1
    IN \A l \in [Used -> 1..n] : Kraft(l, n) <= 2 ^ n => cost(lengths) <= cost(l)

\* An accepted stream is the only one for its table and output: it is what
\* the writer would have written.
AcceptedIsCanonical ==
  pc = "done" =>
    /\ Len(output) = declared
    /\ stream = Padding(FlattenSeq([i \in DOMAIN output |-> codes[output[i]]]))
=============================================================================
