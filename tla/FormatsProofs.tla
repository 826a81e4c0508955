--------------------------- MODULE FormatsProofs ---------------------------
(***************************************************************************)
(* The formats: no decoder leaves the bounds that were declared to it,     *)
(* what a reader accepts means exactly one thing, and what is written is   *)
(* read back.                                                              *)
(*                                                                         *)
(* Each part has invariants of its own with the same three lemmas: they    *)
(* hold at the start, every step of the part keeps them, and so does a     *)
(* step in which nothing of the part changes.  CodecProofs has those of    *)
(* the run-length and the Huffman codec.                                   *)
(***************************************************************************)
EXTENDS CodecProofs

-----------------------------------------------------------------------------
(* Lz77.                                                                   *)

LzBlock == [stored : BOOLEAN, raw : Nat, payload : L!Bytes]

LzInv ==
  /\ L!TypeOK /\ L!InBuffers
  /\ input \in L!Bytes /\ position \in Nat /\ chain \in Seq(Nat)
  /\ blocks \in Seq(LzBlock) /\ declared \in Nat /\ read \in Nat
  /\ pc = "encode" => output = <<>>
  /\ pc # "encode" => Len(output) <= declared
  /\ pc \in {"literals", "match"} => L!Block.raw <= declared - Len(output)

\* The widths of the numbers of the stream.
LEMMA WidthFacts ==
  /\ Nibble \in Nat /\ Nibble >= 2 /\ MinMatch \in Nat /\ MinMatch >= 1
  /\ BlockSize \in Nat /\ BlockSize >= 1 /\ MaxMatch \in Nat
  /\ L!Byte \in Nat /\ L!Byte >= 4 /\ L!Most = L!Byte - 1 /\ L!Full = Nibble - 1
  /\ \A b \in 0..L!Most : b \in 0..L!Byte - 1
<1>1. /\ Nibble \in Nat /\ Nibble >= 2 /\ MinMatch \in Nat /\ MinMatch >= 1
      /\ BlockSize \in Nat /\ BlockSize >= 1 /\ MaxMatch \in Nat
  BY Lz77Assumption DEF L!WidthAssumption
<1>2. Nibble * Nibble \in Nat /\ Nibble * Nibble >= 4
  BY <1>1
<1> QED
  BY <1>1, <1>2 DEF L!Byte, L!Most, L!Full

\* Sequences of bytes.
LEMMA ByteFacts ==
  ASSUME NEW s \in L!Bytes
  PROVE  /\ Len(s) \in Nat /\ DOMAIN s = 1..Len(s)
         /\ \A i \in 1..Len(s) : s[i] \in 0..L!Most
<1>1. PICK B : B = 0..L!Most
  OBVIOUS
<1>2. s \in Seq(B)
  BY <1>1 DEF L!Bytes
<1>3. Len(s) \in Nat /\ DOMAIN s = 1..Len(s) /\ \A i \in 1..Len(s) : s[i] \in B
  BY ONLY <1>2
<1> QED
  BY <1>1, <1>3

\* The LZ77 codec starts in the invariant.
LEMMA LzInit == L!Init => LzInv
<1> SUFFICES ASSUME L!Init PROVE LzInv
  OBVIOUS
<1>1. /\ start = 0 /\ position = 0 /\ literalStart = 0 /\ chain = <<>> /\ tokens = <<>>
      /\ current = 1 /\ read = 0 /\ token = 0 /\ out = <<>> /\ output = <<>>
      /\ pc \in {"encode", "decode"}
  BY DEF L!Init
<1>2. input \in L!Bytes /\ blocks \in Seq(LzBlock) /\ declared \in Nat
  <2>1. CASE written = TRUE
    <3>1. input \in Texts /\ blocks = <<>> /\ declared = 0
      BY <2>1 DEF L!Init
    <3> QED
      BY <3>1, Lz77Assumption DEF L!DataAssumption, L!Bytes
  <2>2. CASE written # TRUE
    <3>1. PICK s \in Compressed : input = <<>> /\ blocks = s.blocks /\ declared = s.declared
      BY <2>2 DEF L!Init
    <3>2. blocks \in Seq(LzBlock) /\ declared \in Nat
      BY <3>1, Lz77Assumption DEF L!DataAssumption, L!Bytes, LzBlock
    <3> QED
      BY <3>1, <3>2 DEF L!Bytes
  <2> QED
    BY <2>1, <2>2
<1>3. /\ Len(input) \in Nat /\ Len(blocks) \in Nat
      /\ \A i \in DOMAIN blocks : blocks[i].payload \in L!Bytes
  <2>1. input \in Seq(0..L!Most)
    BY <1>2 DEF L!Bytes
  <2>2. DOMAIN blocks = 1..Len(blocks) /\ Len(blocks) \in Nat
    BY <1>2
  <2>3. \A i \in 1..Len(blocks) : blocks[i] \in LzBlock
    BY <1>2
  <2>4. \A b \in LzBlock : b.payload \in L!Bytes
    BY DEF LzBlock
  <2> QED
    BY <2>1, <2>2, <2>3, <2>4
<1>4. tokens \in L!Bytes /\ out \in L!Bytes /\ output \in L!Bytes /\ chain \in Seq(Nat) /\ Len(output) = 0
  BY <1>1 DEF L!Bytes
<1>5. L!TypeOK
  BY <1>1, <1>3, <1>4, WidthFacts DEF L!TypeOK
<1> QED
  BY <1>1, <1>2, <1>4, <1>5 DEF LzInv, L!InBuffers

\* The block being compressed is a part of the input.
LEMMA RawFacts ==
  ASSUME LzInv
  PROVE  /\ L!Raw \in L!Bytes /\ L!Size = Len(L!Raw) /\ L!Size \in Nat
         /\ start + L!Size \in 0..Len(input)
<1>1. input \in L!Bytes /\ start \in 0..Len(input) /\ Len(input) \in Nat /\ BlockSize \in Nat
  BY WidthFacts DEF LzInv, L!TypeOK, L!Bytes
<1>2. PICK e \in Nat : e = L!Lesser(start + BlockSize, Len(input))
  BY <1>1 DEF L!Lesser
<1>3. start <= e /\ e <= Len(input)
  BY <1>1, <1>2 DEF L!Lesser
<1>4. /\ start + 1 \in Int /\ e \in Int
      /\ \A i \in start + 1..e : input[i] \in 0..L!Most
  <2>2. \A i \in 1..Len(input) : input[i] \in 0..L!Most
    BY <1>1, ByteFacts
  <2>3. \A i \in start + 1..e : i \in 1..Len(input)
    BY ONLY <1>1, <1>2, <1>3
  <2> QED
    BY ONLY <1>1, <1>2, <2>2, <2>3
<1>5. L!Raw = SubSeq(input, start + 1, e)
  BY <1>2 DEF L!Raw
<1>6. /\ L!Raw \in Seq(0..L!Most)
      /\ Len(L!Raw) = IF start + 1 <= e THEN e - (start + 1) + 1 ELSE 0
  BY <1>4, <1>5, SubSeqProperties
<1>7. Len(L!Raw) = e - start
  BY <1>1, <1>2, <1>3, <1>6
<1> QED
  BY <1>1, <1>2, <1>3, <1>6, <1>7 DEF L!Bytes, L!Size

\* Two sequences of bytes in one.
LEMMA BytesJoin ==
  ASSUME NEW s \in L!Bytes, NEW t \in L!Bytes
  PROVE  s \o t \in L!Bytes /\ Len(s \o t) = Len(s) + Len(t)
BY ConcatProperties DEF L!Bytes

\* A part of a sequence of bytes.
LEMMA BytesPart ==
  ASSUME NEW s \in L!Bytes, NEW m \in Nat, NEW n \in Nat, n <= Len(s)
  PROVE  /\ SubSeq(s, m + 1, n) \in L!Bytes
         /\ m <= n => Len(SubSeq(s, m + 1, n)) = n - m
<1>1. \A i \in m + 1..n : s[i] \in 0..L!Most
  <2>2. (\A i \in 1..Len(s) : s[i] \in 0..L!Most) /\ Len(s) \in Nat
    BY ByteFacts
  <2>3. \A i \in m + 1..n : i \in 1..Len(s)
    BY <2>2
  <2> QED
    BY ONLY <2>2, <2>3
<1>2. m + 1 \in Int /\ n \in Int
  OBVIOUS
<1>3. /\ SubSeq(s, m + 1, n) \in Seq(0..L!Most)
      /\ Len(SubSeq(s, m + 1, n)) = IF m + 1 <= n THEN n - (m + 1) + 1 ELSE 0
  BY ONLY <1>1, <1>2, SubSeqProperties
<1>4. m <= n => Len(SubSeq(s, m + 1, n)) = n - m
  <2>1. PICK k : k = Len(SubSeq(s, m + 1, n))
    OBVIOUS
  <2>2. k = IF m + 1 <= n THEN n - (m + 1) + 1 ELSE 0
    BY <1>3, <2>1
  <2>3. m <= n => k = n - m
    BY <2>2
  <2> QED
    BY <2>1, <2>3
<1> QED
  BY <1>3, <1>4 DEF L!Bytes

\* The extension bytes of a length.
LEMMA ExtensionFacts ==
  ASSUME NEW n \in Nat
  PROVE  L!Extended(n) \in L!Bytes
<1>1. CASE n >= L!Full
  <2>1. PICK k \in Nat : k = n - L!Full
    BY <1>1, WidthFacts
  <2>2. L!Most \in Nat \ {0}
    BY WidthFacts
  <2>3. PICK q \in Nat, r \in 0..L!Most - 1 : q = k \div L!Most /\ r = k % L!Most
    BY <2>2
  <2>4. PICK ones : ones = [i \in 1..q |-> L!Most]
    OBVIOUS
  <2>5. ones \in Seq(0..L!Most)
    BY <2>2, <2>4
  <2>6. <<r>> \in Seq(0..L!Most)
    BY <2>2
  <2>7. ones \o <<r>> \in Seq(0..L!Most)
    BY ONLY <2>5, <2>6, ConcatProperties
  <2>8. L!Extended(n) = ones \o <<r>>
    BY <1>1, <2>1, <2>3, <2>4 DEF L!Extended, L!Extension
  <2> QED
    BY <2>7, <2>8 DEF L!Bytes
<1>2. CASE ~(n >= L!Full)
  BY <1>2 DEF L!Extended, L!Bytes
<1> QED
  BY <1>1, <1>2

\* Two nibbles make a byte.
LEMMA TwoNibbles ==
  ASSUME NEW a \in 0..L!Full, NEW b \in 0..L!Full
  PROVE  a * Nibble + b \in 0..L!Most
<1>1. PICK n \in Nat : n = Nibble /\ n >= 2
  BY WidthFacts
<1>2. a \in 0..n - 1 /\ b \in 0..n - 1 /\ L!Most = n * n - 1
  BY <1>1 DEF L!Full, L!Most, L!Byte
<1>3. a * n <= (n - 1) * n
  BY <1>1, <1>2
<1>4. (n - 1) * n = n * n - n
  BY <1>1
<1>5. PICK p \in Nat : p = a * n
  BY <1>1, <1>2
<1>6. PICK s \in Nat : s = n * n
  BY <1>1
<1>7. p <= s - n
  BY ONLY <1>3, <1>4, <1>5, <1>6
<1>8. p + b \in 0..s - 1
  BY ONLY <1>2, <1>5, <1>6, <1>7, <1>1
<1> QED
  BY <1>1, <1>2, <1>5, <1>6, <1>8

\* A token with its literals and its match is made of bytes.
LEMMA SequenceFacts ==
  ASSUME NEW lits \in L!Bytes, NEW length \in Nat, NEW distance \in Int,
         length = 0 \/ length >= MinMatch
  PROVE  L!TokenSequence(lits, length, distance) \in L!Bytes
<1>1. PICK code \in Nat : code = IF length = 0 THEN 0 ELSE length - MinMatch
  BY WidthFacts
<1>2. PICK first \in 0..L!Most :
        first = L!Lesser(Len(lits), L!Full) * Nibble + L!Lesser(code, L!Full)
  <2>1. Len(lits) \in Nat
    BY DEF L!Bytes
  <2>2. L!Lesser(Len(lits), L!Full) \in 0..L!Full /\ L!Lesser(code, L!Full) \in 0..L!Full
    BY <1>1, <2>1, WidthFacts DEF L!Lesser
  <2> QED
    BY <2>2, TwoNibbles
<1>3. PICK low \in 0..L!Most, high \in 0..L!Most :
        low = distance % L!Byte /\ high = (distance \div L!Byte) % L!Byte
  <2>1. L!Byte \in Nat \ {0} /\ L!Most = L!Byte - 1
    BY WidthFacts
  <2>2. PICK q \in Int : q = distance \div L!Byte
    BY <2>1
  <2>3. distance % L!Byte \in 0..L!Most /\ q % L!Byte \in 0..L!Most
    BY <2>1, <2>2
  <2> QED
    BY <2>2, <2>3
<1>4. <<first>> \in L!Bytes /\ <<low, high>> \in L!Bytes /\ <<>> \in L!Bytes
  BY <1>2, <1>3 DEF L!Bytes
<1>5. PICK tail : tail = IF length = 0 THEN <<>> ELSE L!Extended(code) \o <<low, high>>
  OBVIOUS
<1>6. tail \in L!Bytes
  <2>1. L!Extended(code) \in L!Bytes
    BY <1>1, ExtensionFacts
  <2>2. L!Extended(code) \o <<low, high>> \in L!Bytes
    BY ONLY <1>4, <2>1, BytesJoin
  <2> QED
    BY <1>4, <1>5, <2>2
<1>7. PICK ext \in L!Bytes : ext = L!Extended(Len(lits))
  <2>1. Len(lits) \in Nat
    BY DEF L!Bytes
  <2> QED
    BY <2>1, ExtensionFacts
<1>8. L!TokenSequence(lits, length, distance) = ((<<first>> \o ext) \o lits) \o tail
  BY <1>1, <1>2, <1>3, <1>5, <1>7 DEF L!TokenSequence
<1>9. <<first>> \o ext \in L!Bytes
  BY ONLY <1>4, <1>7, BytesJoin
<1>10. (<<first>> \o ext) \o lits \in L!Bytes
  BY ONLY <1>9, BytesJoin, lits \in L!Bytes
<1>11. ((<<first>> \o ext) \o lits) \o tail \in L!Bytes
  BY ONLY <1>6, <1>10, BytesJoin
<1> QED
  BY <1>8, <1>11

\* A match has a length, and ends within the block.
LEMMA MatchLengthFacts ==
  ASSUME LzInv, NEW c, NEW p \in Nat, p <= L!Size
  PROVE  L!MatchLength(c, p) \in Nat /\ L!MatchLength(c, p) <= L!Size - p
<1>1. PICK n \in Nat : n = L!Lesser(L!Size - p, MaxMatch) /\ n <= L!Size - p
  BY RawFacts, WidthFacts DEF L!Lesser
<1> DEFINE S == {m \in 0..n : \A i \in 1..m : L!Raw[c + i] = L!Raw[p + i]}
<1>2. S \in SUBSET (0..n) /\ 0 \in S
  BY <1>1
<1>3. L!MatchLength(c, p) = L!Max(S)
  BY <1>1 DEF L!MatchLength
<1> HIDE DEF S
<1>4. L!Max(S) = H!Max(S)
  BY DEF L!Max, H!Max
<1>5. L!Max(S) \in 0..n
  BY <1>2, <1>4, MaximumFacts
<1> QED
  BY <1>1, <1>3, <1>5, RawFacts

\* The search finds a match that exists, or none.
LEMMA SearchFacts ==
  ASSUME LzInv, NEW s \in Seq(Nat), NEW p \in Nat, p <= L!Size
  PROVE  L!Search(s, p).length \in Nat /\ L!Search(s, p).distance \in Int
<1> DEFINE bucket == {i \in DOMAIN s : L!HashAt(s[i]) = L!HashAt(p)}
           tried == {i \in bucket : /\ L!InWindow(s[i], p)
                                    /\ L!Cardinality({j \in bucket : j <= i}) <= MaxChain}
           length(i) == L!MatchLength(s[i], p)
           best == CHOOSE i \in tried : \A j \in tried :
                     length(j) < length(i) \/ (length(j) = length(i) /\ i <= j)
<1>1. L!Search(s, p) = IF tried = {} THEN [length |-> 0, distance |-> 0]
                       ELSE [length |-> length(best), distance |-> p - s[best]]
  BY DEF L!Search
<1>2. tried \subseteq 1..Len(s) /\ Len(s) \in Nat
  OBVIOUS
<1>3. PICK n \in Nat : n = L!Size - p
  BY RawFacts
<1>4. \A c : L!MatchLength(c, p) \in 0..n
  <2>1. \A c : L!MatchLength(c, p) \in Nat /\ L!MatchLength(c, p) <= L!Size - p
    BY MatchLengthFacts
  <2> QED
    BY <1>3, <2>1
<1>5. CASE tried = {}
  BY <1>1, <1>5
<1>6. CASE tried # {}
  <2> HIDE DEF bucket, tried
  <2>1. \A i \in tried : length(i) \in 0..n
    BY <1>4
  <2> HIDE DEF length
  <2> DEFINE lens == {length(i) : i \in tried}
  <2>2. PICK m \in lens : \A h \in lens : m >= h
    <3>1. lens \in SUBSET (0..n) /\ lens # {}
      BY <1>6, <2>1
    <3> HIDE DEF lens
    <3> QED
      BY <3>1, MaximumFacts
  <2> DEFINE longest == {i \in tried : length(i) = m}
  <2>3. PICK b \in longest : \A h \in longest : b <= h
    <3>1. longest \in SUBSET Nat /\ longest # {}
      BY <1>2, <2>2
    <3> HIDE DEF longest
    <3> QED
      BY <3>1, LeastNatural
  <2>4. ASSUME NEW j \in tried PROVE length(j) < length(b) \/ (length(j) = length(b) /\ b <= j)
    <3>1. length(j) \in lens /\ length(b) = m /\ length(j) \in 0..n /\ m \in 0..n
      BY <2>1, <2>2, <2>3
    <3>2. length(j) = m => j \in longest
      OBVIOUS
    <3> QED
      BY <2>2, <2>3, <3>1, <3>2
  <2>5. b \in tried
    BY <2>3
  <2>6. best \in tried
    BY <2>4, <2>5
  <2> HIDE DEF best
  <2>7. s[best] \in Nat /\ length(best) \in Nat
    BY <1>2, <2>1, <2>6
  <2> QED
    BY <1>1, <1>6, <2>7
<1> QED
  BY <1>5, <1>6

\* Every position before the next one is in the chain.
LEMMA InsertedFacts ==
  ASSUME LzInv, NEW q \in Nat, q > position
  PROVE  /\ L!Inserted \in Seq(Nat)
         /\ \A i \in DOMAIN L!Inserted : L!Inserted[i] < q
         /\ \A i \in 2..Len(L!Inserted) : L!Inserted[i] < L!Inserted[i - 1]
<1>1. PICK n \in Nat : n = Len(chain)
  BY DEF LzInv
<1>2. /\ chain \in Seq(Nat) /\ position \in Nat /\ DOMAIN chain = 1..n
      /\ \A i \in 1..n : chain[i] < position
      /\ \A i \in 2..n : chain[i] < chain[i - 1]
      /\ \A i \in 1..n : chain[i] \in Nat
  <2>1. /\ chain \in Seq(Nat) /\ position \in Nat
        /\ \A i \in DOMAIN chain : chain[i] < position
        /\ \A i \in 2..Len(chain) : chain[i] < chain[i - 1]
    BY DEF LzInv, L!TypeOK
  <2>2. DOMAIN chain = 1..n /\ \A i \in 1..n : chain[i] \in Nat
    BY ONLY <1>1, <2>1
  <2> QED
    BY ONLY <1>1, <2>1, <2>2
<1>3. PICK h : h = <<position>>
  OBVIOUS
<1>4. h \in Seq(Nat) /\ Len(h) = 1 /\ h[1] = position
  BY <1>2, <1>3
<1>5. PICK c : c = h \o chain
  OBVIOUS
<1>6. /\ c \in Seq(Nat) /\ Len(c) = 1 + n
      /\ \A i \in 1..1 + n : c[i] = IF i <= 1 THEN h[i] ELSE chain[i - 1]
  <2>1. /\ c \in Seq(Nat) /\ Len(c) = Len(h) + Len(chain)
        /\ \A i \in 1..Len(h) + Len(chain) : c[i] = IF i <= Len(h) THEN h[i] ELSE chain[i - Len(h)]
    <3>1. h \in Seq(Nat) /\ chain \in Seq(Nat)
      BY ONLY <1>2, <1>4
    <3> QED
      BY ONLY <1>5, <3>1, ConcatProperties
  <2> QED
    BY ONLY <1>1, <1>4, <2>1
<1>7. c[1] = position /\ \A i \in 2..1 + n : c[i] = chain[i - 1]
  BY <1>1, <1>4, <1>6
<1>8. DOMAIN c = 1..1 + n
  BY <1>1, <1>6
<1>9. \A i \in 1..1 + n : c[i] < q
  <2>1. \A i \in 2..1 + n : i - 1 \in 1..n
    BY <1>1
  <2>2. \A i \in 2..1 + n : c[i] < position /\ c[i] \in Nat
    BY <1>2, <1>7, <2>1
  <2>3. \A i \in 1..1 + n : i = 1 \/ i \in 2..1 + n
    BY <1>1
  <2> QED
    BY ONLY <1>2, <1>7, <2>2, <2>3, q \in Nat, q > position
<1>10. \A i \in 2..1 + n : c[i] < c[i - 1]
  <2> SUFFICES ASSUME NEW i \in 2..1 + n PROVE c[i] < c[i - 1]
    OBVIOUS
  <2>1. c[i] = chain[i - 1] /\ i - 1 \in 1..n
    BY <1>1, <1>7
  <2>2. CASE i = 2
    BY <1>2, <1>7, <2>1, <2>2
  <2>3. CASE i # 2
    <3>1. i - 1 \in 2..1 + n /\ i - 1 \in 2..n /\ i - 1 - 1 = (i - 1) - 1
      BY <1>1, <2>3
    <3>2. c[i - 1] = chain[(i - 1) - 1]
      BY <1>7, <3>1
    <3> QED
      BY <1>2, <2>1, <3>1, <3>2
  <2> QED
    BY <2>2, <2>3
<1>11. L!Inserted = c
  BY <1>3, <1>5 DEF L!Inserted
<1> QED
  BY ONLY <1>6, <1>8, <1>9, <1>10, <1>11

\* What the encoder leaves alone.
LEMMA SkipKeeps ==
  ASSUME LzInv, L!SkipLiteral
  PROVE  LzInv'
<1>1. /\ pc = "encode" /\ chain' = L!Inserted /\ position' = position + 1
      /\ UNCHANGED <<input, written, pc, start, literalStart, tokens, blocks, declared,
                     current, read, token, out, output>>
  BY DEF L!SkipLiteral, L!Scanning, L!decoder
<1>2. position \in Nat /\ literalStart \in 0..position
  BY DEF LzInv, L!TypeOK
<1>3. position' \in Nat /\ position' > position /\ literalStart' \in 0..position'
  BY <1>1, <1>2
<1>4. /\ chain' \in Seq(Nat) /\ \A i \in DOMAIN chain' : chain'[i] < position'
      /\ \A i \in 2..Len(chain') : chain'[i] < chain'[i - 1]
  BY <1>1, <1>3, InsertedFacts
<1>5. L!TypeOK'
  BY <1>1, <1>3, <1>4 DEF LzInv, L!TypeOK
<1> QED
  BY <1>1, <1>3, <1>4, <1>5 DEF LzInv, L!InBuffers

\* A match is written with the literals before it.
LEMMA EmitMatchKeeps ==
  ASSUME LzInv, L!EmitMatch
  PROVE  LzInv'
<1>1. /\ pc = "encode" /\ position + MinMatch <= L!Size /\ L!Found.length >= MinMatch
      /\ chain' = L!Inserted
      /\ tokens' = tokens \o L!TokenSequence(SubSeq(L!Raw, literalStart + 1, position),
                                             L!Found.length, L!Found.distance)
      /\ position' = position + L!Found.length /\ literalStart' = position'
      /\ UNCHANGED <<input, written, pc, start, blocks, declared, current, read, token, out, output>>
  BY DEF L!EmitMatch, L!Scanning, L!MatchHere, L!decoder
<1>2. position \in Nat /\ literalStart \in 0..position /\ tokens \in L!Bytes
      /\ MinMatch \in Nat /\ MinMatch >= 1 /\ L!Size \in Nat /\ L!Raw \in L!Bytes
      /\ L!Size = Len(L!Raw)
  BY WidthFacts, RawFacts DEF LzInv, L!TypeOK
<1>3. L!Found.length \in Nat /\ L!Found.distance \in Int
  <2>1. position + 1 \in Nat /\ position + 1 > position /\ position <= L!Size
    BY <1>1, <1>2
  <2>2. L!Inserted \in Seq(Nat)
    BY <2>1, InsertedFacts
  <2> QED
    BY <1>2, <2>1, <2>2, SearchFacts DEF L!Found
<1>4. /\ position' \in Nat /\ position' > position /\ literalStart' \in 0..position'
  BY <1>1, <1>2, <1>3
<1>5. tokens' \in L!Bytes
  <2>1. SubSeq(L!Raw, literalStart + 1, position) \in L!Bytes
    <3>1. position <= Len(L!Raw) /\ literalStart \in Nat
      BY <1>1, <1>2
    <3> QED
      BY ONLY <1>2, <3>1, BytesPart
  <2>2. L!TokenSequence(SubSeq(L!Raw, literalStart + 1, position),
                        L!Found.length, L!Found.distance) \in L!Bytes
    BY ONLY <1>1, <1>3, <2>1, SequenceFacts
  <2> QED
    BY ONLY <1>1, <1>2, <2>2, BytesJoin
<1>6. /\ chain' \in Seq(Nat) /\ \A i \in DOMAIN chain' : chain'[i] < position'
      /\ \A i \in 2..Len(chain') : chain'[i] < chain'[i - 1]
  BY <1>1, <1>4, InsertedFacts
<1>7. L!TypeOK'
  <2> HIDE DEF L!Bytes
  <2>1. UNCHANGED <<input, pc, start, blocks, current, token, out, output>>
    BY <1>1
  <2>2. L!Bytes' = L!Bytes /\ L!Most' = L!Most
    BY DEF L!Bytes, L!Most, L!Byte
  <2> QED
    BY <1>4, <1>5, <1>6, <2>1, <2>2 DEF LzInv, L!TypeOK
<1> QED
  BY <1>1, <1>4, <1>6, <1>7 DEF LzInv, L!InBuffers

\* A block is complete, in the shorter of its forms.
LEMMA EmitBlockKeeps ==
  ASSUME LzInv, L!EmitBlock
  PROVE  LzInv'
<1> DEFINE rest == IF literalStart < L!Size
                   THEN L!TokenSequence(SubSeq(L!Raw, literalStart + 1, L!Size), 0, 0) ELSE <<>>
           all == tokens \o rest
           block == [stored |-> Len(all) >= L!Size, raw |-> L!Size,
                     payload |-> IF Len(all) >= L!Size THEN L!Raw ELSE all]
<1>1. /\ pc = "encode" /\ blocks' = Append(blocks, block)
      /\ start' = start + L!Size
      /\ position' = 0 /\ literalStart' = 0 /\ tokens' = <<>> /\ chain' = <<>>
      /\ UNCHANGED <<input, written, pc, declared, current, read, token, out, output>>
  BY DEF L!EmitBlock, L!FreshChain, L!decoder
<1>2. position \in Nat /\ literalStart \in 0..position /\ tokens \in L!Bytes
      /\ L!Size \in Nat /\ L!Raw \in L!Bytes /\ L!Size = Len(L!Raw)
      /\ start + L!Size \in 0..Len(input) /\ blocks \in Seq(LzBlock)
      /\ current \in 1..Len(blocks) + 1
  BY RawFacts DEF LzInv, L!TypeOK
<1>3. <<>> \in L!Bytes
  BY DEF L!Bytes
<1>4. rest \in L!Bytes
  <2>1. SubSeq(L!Raw, literalStart + 1, L!Size) \in L!Bytes
    <3>1. L!Size <= Len(L!Raw) /\ literalStart \in Nat
      BY <1>2
    <3> QED
      BY ONLY <1>2, <3>1, BytesPart
  <2>2. 0 \in Nat /\ 0 \in Int /\ (0 = 0 \/ 0 >= MinMatch)
    OBVIOUS
  <2>3. L!TokenSequence(SubSeq(L!Raw, literalStart + 1, L!Size), 0, 0) \in L!Bytes
    BY ONLY <2>1, <2>2, SequenceFacts
  <2> QED
    BY <1>3, <2>3
<1> HIDE DEF rest
<1>5. all \in L!Bytes
  BY ONLY <1>2, <1>4, BytesJoin DEF all
<1> HIDE DEF all
<1>6. PICK b : b = block
  OBVIOUS
<1>7. b \in LzBlock
  <2>1. (Len(all) >= L!Size) \in BOOLEAN
    OBVIOUS
  <2>2. (IF Len(all) >= L!Size THEN L!Raw ELSE all) \in L!Bytes
    BY <1>2, <1>5
  <2> QED
    BY <1>2, <1>6, <2>1, <2>2 DEF LzBlock
<1>8. blocks' = Append(blocks, b)
  BY <1>1, <1>6
<1> HIDE DEF block
<1>9. blocks' \in Seq(LzBlock) /\ Len(blocks') = Len(blocks) + 1
  BY ONLY <1>2, <1>7, <1>8, AppendProperties
<1>10. current' \in 1..Len(blocks') + 1
  BY <1>1, <1>2, <1>9
<1>11. \A i \in DOMAIN blocks' : blocks'[i].payload \in L!Bytes
  <2>1. DOMAIN blocks' = 1..Len(blocks') /\ \A i \in 1..Len(blocks') : blocks'[i] \in LzBlock
    BY ONLY <1>9
  <2>2. \A c \in LzBlock : c.payload \in L!Bytes
    BY DEF LzBlock
  <2> QED
    BY ONLY <2>1, <2>2
<1>12. /\ chain' \in Seq(Nat) /\ DOMAIN chain' = {} /\ Len(chain') = 0
  BY <1>1
<1>13. position' \in Nat /\ literalStart' \in 0..position' /\ start' \in 0..Len(input')
  BY <1>1, <1>2
<1>14. tokens' \in L!Bytes
  BY <1>1, <1>3
<1>15. L!TypeOK'
  <2>1. UNCHANGED <<input, pc, token, out, output>>
    BY <1>1
  <2>2. L!Bytes' = L!Bytes /\ L!Most' = L!Most
    BY DEF L!Bytes, L!Most, L!Byte
  <2>3. \A i \in 2..Len(chain') : FALSE
    BY <1>12
  <2> QED
    BY <1>10, <1>11, <1>12, <1>13, <1>14, <2>1, <2>2, <2>3 DEF LzInv, L!TypeOK
<1> QED
  BY <1>1, <1>9, <1>12, <1>13, <1>15 DEF LzInv, L!InBuffers, LzBlock

\* The whole input is encoded.
LEMMA EncodeEndKeepsLz ==
  ASSUME LzInv, L!EncodeEnd
  PROVE  LzInv'
<1>1. /\ pc = "encode" /\ declared' = Len(input) /\ pc' = "decode"
      /\ UNCHANGED <<input, written, start, position, literalStart, chain, tokens, blocks,
                     current, read, token, out, output>>
  BY DEF L!EncodeEnd, L!encoder, L!decoder
<1>2. Len(input) \in Nat /\ output = <<>> /\ Len(output) = 0
  BY <1>1, ByteFacts DEF LzInv
<1>3. L!TypeOK'
  BY <1>1 DEF LzInv, L!TypeOK
<1> QED
  BY <1>1, <1>2, <1>3 DEF LzInv, L!InBuffers

\* The block a decoder is in.
LEMMA DecodedBlock ==
  ASSUME LzInv, current <= Len(blocks)
  PROVE  /\ L!Block \in LzBlock /\ L!Payload \in L!Bytes /\ L!Block.raw \in Nat
         /\ L!Payload = L!Block.payload /\ Len(L!Payload) \in Nat /\ current + 1 \in 1..Len(blocks) + 1
<1>1. blocks \in Seq(LzBlock) /\ current \in 1..Len(blocks) + 1 /\ Len(blocks) \in Nat
  BY DEF LzInv, L!TypeOK
<1>2. current \in 1..Len(blocks)
  BY <1>1
<1>3. L!Block \in LzBlock
  BY <1>1, <1>2 DEF L!Block
<1>4. \A b \in LzBlock : b.payload \in L!Bytes /\ b.raw \in Nat
  BY DEF LzBlock
<1> QED
  BY <1>1, <1>2, <1>3, <1>4, ByteFacts DEF L!Payload

\* The next block is delivered as it is stored, or its decoding begins.
LEMMA ReadBlockKeeps ==
  ASSUME LzInv, L!ReadBlock
  PROVE  LzInv'
<1>1. /\ pc = "decode" /\ current <= Len(blocks) /\ Len(output) < declared
      /\ L!Block.raw <= declared - Len(output)
      /\ L!Block.stored => Len(L!Payload) = L!Block.raw
      /\ read' = 0 /\ out' = <<>>
      /\ UNCHANGED <<input, written, start, position, literalStart, chain, tokens, blocks, declared, token>>
  BY DEF L!ReadBlock, L!BlockComes, L!Acceptable, L!encoder
<1>2. \/ /\ L!Block.stored /\ output' = output \o L!Payload /\ current' = current + 1 /\ pc' = "decode"
      \/ /\ pc' = "literals" /\ output' = output /\ current' = current
  BY DEF L!ReadBlock, L!Deliver
<1>3. /\ L!Payload \in L!Bytes /\ L!Block.raw \in Nat /\ output \in L!Bytes /\ Len(output) \in Nat
      /\ Len(L!Payload) \in Nat /\ declared \in Nat /\ current + 1 \in 1..Len(blocks) + 1
      /\ current \in 1..Len(blocks) + 1
  BY <1>1, DecodedBlock, ByteFacts DEF LzInv, L!TypeOK
<1>4. output' \in L!Bytes /\ Len(output') <= declared'
  <2>1. output \o L!Payload \in L!Bytes /\ Len(output \o L!Payload) = Len(output) + Len(L!Payload)
    BY ONLY <1>3, BytesJoin
  <2>2. CASE output' = output
    BY <1>1, <1>3, <2>2
  <2>3. CASE output' # output
    <3>1. L!Block.stored /\ output' = output \o L!Payload
      BY <1>2, <2>3
    <3>2. Len(L!Payload) = L!Block.raw
      BY <1>1, <3>1, Zenon
    <3>3. output' \in L!Bytes /\ Len(output') = Len(output) + L!Block.raw
      BY <2>1, <3>1, <3>2
    <3> QED
      BY <1>1, <1>3, <3>3
  <2> QED
    BY <2>2, <2>3
<1>5. current' \in 1..Len(blocks') + 1
  BY <1>1, <1>2, <1>3
<1>6. out' \in L!Bytes /\ Len(out') = 0 /\ read' \in Nat
  BY <1>1 DEF L!Bytes
<1>7. L!TypeOK'
  <2>1. L!Bytes' = L!Bytes /\ L!Most' = L!Most
    BY DEF L!Bytes, L!Most, L!Byte
  <2>2. pc' \in {"encode", "decode", "literals", "match", "done", "failed"}
    BY <1>2
  <2> QED
    BY <1>1, <1>4, <1>5, <1>6, <2>1, <2>2 DEF LzInv, L!TypeOK
<1>8. pc' \in {"literals", "match"} =>
        /\ current' <= Len(blocks') /\ read' <= Len(L!Payload') /\ Len(out') <= L!Block'.raw
        /\ L!Block'.raw <= declared' - Len(output')
  BY <1>1, <1>2, <1>3, <1>6 DEF L!Payload, L!Block
<1> QED
  BY <1>1, <1>2, <1>4, <1>6, <1>7, <1>8 DEF LzInv, L!InBuffers, L!Block

\* What the decoder knows in the middle of a block.
LEMMA InsideFacts ==
  ASSUME LzInv, pc \in {"literals", "match"}
  PROVE  /\ current <= Len(blocks) /\ L!Payload \in L!Bytes /\ Len(L!Payload) \in Nat
         /\ L!Block.raw \in Nat /\ out \in L!Bytes /\ Len(out) \in Nat /\ read \in Nat
         /\ read <= Len(L!Payload) /\ Len(out) <= L!Block.raw /\ token \in 0..L!Most
         /\ \A i \in 1..Len(L!Payload) : L!Payload[i] \in 0..L!Most
         /\ output \in L!Bytes /\ Len(output) \in Nat /\ declared \in Nat
         /\ L!Block.raw <= declared - Len(output)
<1>1. /\ current <= Len(blocks) /\ read <= Len(L!Payload) /\ Len(out) <= L!Block.raw
      /\ out \in L!Bytes /\ output \in L!Bytes /\ token \in 0..L!Most /\ read \in Nat /\ declared \in Nat
      /\ L!Block.raw <= declared - Len(output)
  BY DEF LzInv, L!TypeOK, L!InBuffers
<1>2. L!Payload \in L!Bytes /\ L!Block.raw \in Nat
  BY <1>1, DecodedBlock
<1> QED
  BY <1>1, <1>2, ByteFacts

\* Literals are copied from the payload, inside both bounds.
LEMMA DecodeLiteralsKeeps ==
  ASSUME LzInv, L!DecodeLiterals
  PROVE  LzInv'
<1>1. PICK size \in L!Lengths, more \in L!Extras :
        /\ L!LiteralsAre(size, more)
        /\ out' = out \o SubSeq(L!Payload, read + 1 + more + 1, read + 1 + more + size)
        /\ read' = read + 1 + more + size
  BY DEF L!DecodeLiterals
<1>2. /\ token' = L!Payload[read + 1]
      /\ pc' \in {"literals", "match"}
      /\ UNCHANGED <<input, written, start, position, literalStart, chain, tokens, blocks, declared, current, output>>
  BY DEF L!DecodeLiterals, L!encoder
<1>3. /\ pc = "literals" /\ L!Left >= 1 /\ read + 1 + more + size <= Len(L!Payload)
      /\ size <= L!Block.raw - Len(out) /\ size \in Nat /\ more \in Nat
  BY <1>1, WidthFacts DEF L!LiteralsAre, L!Fits, L!Lengths, L!Extras
<1>4. /\ L!Payload \in L!Bytes /\ Len(L!Payload) \in Nat
      /\ L!Block.raw \in Nat /\ out \in L!Bytes /\ Len(out) \in Nat /\ read \in Nat
      /\ current <= Len(blocks) /\ L!Block.raw <= declared - Len(output)
      /\ \A i \in 1..Len(L!Payload) : L!Payload[i] \in 0..L!Most
  BY <1>3, InsideFacts
<1>5. PICK m \in Nat, n \in Nat : m = read + 1 + more /\ n = m + size /\ n <= Len(L!Payload)
  BY <1>3, <1>4
<1>6. /\ SubSeq(L!Payload, m + 1, n) \in L!Bytes /\ Len(SubSeq(L!Payload, m + 1, n)) = size
  <2>1. m <= n /\ n - m = size
    BY <1>3, <1>5
  <2> QED
    BY ONLY <1>4, <1>5, <2>1, BytesPart
<1>7. out' = out \o SubSeq(L!Payload, m + 1, n) /\ read' = n
  BY ONLY <1>1, <1>5
<1>8. out' \in L!Bytes /\ Len(out') = Len(out) + size
  BY ONLY <1>4, <1>6, <1>7, BytesJoin
<1>9. token' \in 0..L!Most
  <2>1. read + 1 \in 1..Len(L!Payload)
    BY <1>3, <1>4 DEF L!Left
  <2> QED
    BY <1>2, <1>4, <2>1
<1>10. Len(out') <= L!Block.raw /\ read' \in Nat /\ read' <= Len(L!Payload)
  BY <1>3, <1>4, <1>5, <1>7, <1>8
<1>11. L!TypeOK'
  <2>1. L!Bytes' = L!Bytes /\ L!Most' = L!Most
    BY DEF L!Bytes, L!Most, L!Byte
  <2> QED
    BY <1>2, <1>8, <1>9, <2>1 DEF LzInv, L!TypeOK
<1>12. L!Block' = L!Block /\ L!Payload' = L!Payload
  BY <1>2 DEF L!Block, L!Payload
<1> QED
  BY <1>2, <1>3, <1>4, <1>10, <1>11, <1>12 DEF LzInv, L!InBuffers

\* A copy reads only what is there.
LEMMA CopiedFacts ==
  ASSUME out \in L!Bytes, NEW n \in Nat, NEW distance \in 1..Len(out)
  PROVE  L!Copied(n, distance) \in L!Bytes /\ Len(L!Copied(n, distance)) = Len(out) + n
<1>1. PICK k \in Nat : k = Len(out)
  BY ByteFacts
<1>2. \A i \in 1..k : out[i] \in 0..L!Most
  BY <1>1, ByteFacts
<1>3. ASSUME NEW i \in 1..k + n, ~(i <= k)
      PROVE  out[k - distance + 1 + ((i - k - 1) % distance)] \in 0..L!Most
  <2>1. distance \in Nat \ {0} /\ distance <= k
    BY <1>1
  <2>2. PICK r \in 0..distance - 1 : r = (i - k - 1) % distance
    <3>1. PICK x \in Int : x = i - k - 1
      <4>1. i \in Int /\ k \in Int
        BY <1>1
      <4> QED
        BY ONLY <4>1
    <3>2. x % distance \in 0..distance - 1
      BY <2>1, <3>1
    <3> QED
      BY <3>1, <3>2
  <2>3. k - distance + 1 + r \in 1..k
    BY <1>1, <2>1, <2>2
  <2> QED
    BY <1>2, <2>2, <2>3
<1>4. PICK c : c = L!Copied(n, distance)
  OBVIOUS
<1>5. c = [i \in 1..k + n |-> IF i <= k THEN out[i] ELSE out[k - distance + 1 + ((i - k - 1) % distance)]]
  BY <1>1, <1>4 DEF L!Copied
<1>6. PICK B : B = 0..L!Most
  OBVIOUS
<1>7. \A i \in 1..k + n : (IF i <= k THEN out[i] ELSE out[k - distance + 1 + ((i - k - 1) % distance)]) \in B
  <2>1. \A i \in 1..k + n : i <= k => i \in 1..k
    BY <1>1
  <2> QED
    BY <1>2, <1>3, <1>6, <2>1
<1>8. c \in [1..k + n -> B]
  BY ONLY <1>5, <1>7
<1>9. c \in Seq(B) /\ Len(c) = k + n
  BY <1>1, <1>8
<1> QED
  BY <1>1, <1>4, <1>6, <1>9 DEF L!Bytes

\* A match is copied from the block decoded so far.
LEMMA DecodeMatchKeeps ==
  ASSUME LzInv, L!DecodeMatch
  PROVE  LzInv'
<1>1. PICK code \in L!Lengths, more \in L!Extras :
        /\ L!MatchIs(code, more)
        /\ out' = L!Copied(code + MinMatch, L!DistanceAt(read + more))
        /\ read' = read + more + 2
  BY DEF L!DecodeMatch
<1>2. /\ pc' = "literals"
      /\ UNCHANGED <<input, written, start, position, literalStart, chain, tokens, blocks, declared,
                     current, token, output>>
  BY DEF L!DecodeMatch, L!encoder
<1>3. /\ pc = "match" /\ read + more + 2 <= Len(L!Payload)
      /\ L!DistanceAt(read + more) \in 1..Len(out) /\ code + MinMatch <= L!Block.raw - Len(out)
      /\ code \in Nat /\ more \in Nat /\ MinMatch \in Nat
  BY <1>1, WidthFacts DEF L!MatchIs, L!Fits, L!Lengths, L!Extras
<1>4. /\ L!Payload \in L!Bytes /\ Len(L!Payload) \in Nat
      /\ L!Block.raw \in Nat /\ out \in L!Bytes /\ Len(out) \in Nat /\ read \in Nat
      /\ current <= Len(blocks) /\ L!Block.raw <= declared - Len(output)
  BY <1>3, InsideFacts
<1>5. out' \in L!Bytes /\ Len(out') = Len(out) + (code + MinMatch)
  <2>1. code + MinMatch \in Nat
    BY <1>3
  <2> QED
    BY ONLY <1>1, <1>3, <1>4, <2>1, CopiedFacts
<1>6. Len(out') <= L!Block.raw /\ read' \in Nat /\ read' <= Len(L!Payload)
  BY <1>1, <1>3, <1>4, <1>5
<1>7. L!TypeOK'
  <2>1. L!Bytes' = L!Bytes /\ L!Most' = L!Most
    BY DEF L!Bytes, L!Most, L!Byte
  <2> QED
    BY <1>2, <1>5, <2>1 DEF LzInv, L!TypeOK
<1>8. L!Block' = L!Block /\ L!Payload' = L!Payload
  BY <1>2 DEF L!Block, L!Payload
<1> QED
  BY <1>2, <1>3, <1>4, <1>6, <1>7, <1>8 DEF LzInv, L!InBuffers

\* A block of its declared size is delivered.
LEMMA FinishBlockKeeps ==
  ASSUME LzInv, L!FinishBlock
  PROVE  LzInv'
<1>1. /\ pc = "literals" /\ Len(out) = L!Block.raw
      /\ output' = output \o out /\ current' = current + 1 /\ pc' = "decode"
      /\ UNCHANGED <<input, written, start, position, literalStart, chain, tokens, blocks, declared,
                     read, token, out>>
  BY DEF L!FinishBlock, L!BlockIsComplete, L!Deliver, L!encoder
<1>2. /\ out \in L!Bytes /\ output \in L!Bytes /\ Len(out) \in Nat /\ Len(output) \in Nat
      /\ declared \in Nat /\ Len(out) <= declared - Len(output) /\ current + 1 \in 1..Len(blocks) + 1
  BY <1>1, InsideFacts, DecodedBlock
<1>3. output' \in L!Bytes /\ Len(output') <= declared'
  <2>1. output \o out \in L!Bytes /\ Len(output \o out) = Len(output) + Len(out)
    BY ONLY <1>2, BytesJoin
  <2> QED
    BY <1>1, <1>2, <2>1
<1>4. L!TypeOK'
  <2>1. L!Bytes' = L!Bytes /\ L!Most' = L!Most
    BY DEF L!Bytes, L!Most, L!Byte
  <2> QED
    BY <1>1, <1>2, <1>3, <2>1 DEF LzInv, L!TypeOK
<1> QED
  BY <1>1, <1>3, <1>4 DEF LzInv, L!InBuffers

\* The decoder stops.
LEMMA StopKeeps ==
  ASSUME LzInv, L!DecodeEnd \/ L!DecodeError
  PROVE  LzInv'
<1>1. /\ pc \in {"decode", "literals", "match"} /\ pc' \in {"done", "failed"}
      /\ UNCHANGED <<input, written, start, position, literalStart, chain, tokens, blocks, declared,
                     current, read, token, out, output>>
  BY DEF L!DecodeEnd, L!StreamIsComplete, L!DecodeError, L!encoder, L!decoder
<1>2. L!TypeOK'
  BY <1>1 DEF LzInv, L!TypeOK
<1> QED
  BY <1>1, <1>2 DEF LzInv, L!InBuffers

\* Every step of the LZ77 codec keeps the invariant.
LEMMA LzStep == LzInv /\ L!Next => LzInv'
BY SkipKeeps, EmitMatchKeeps, EmitBlockKeeps, EncodeEndKeepsLz, ReadBlockKeeps,
   DecodeLiteralsKeeps, DecodeMatchKeeps, FinishBlockKeeps, StopKeeps DEF L!Next, L!Decode

\* Nor does standing still break it.
LEMMA LzStill == LzInv /\ UNCHANGED L!vars => LzInv'
<1> SUFFICES ASSUME LzInv, UNCHANGED L!vars PROVE LzInv'
  OBVIOUS
<1>1. UNCHANGED <<input, written, pc, start, position, literalStart, chain, tokens, blocks, declared,
                  current, read, token, out, output>>
  BY DEF L!vars, L!encoder, L!decoder
<1>2. L!TypeOK'
  BY <1>1 DEF LzInv, L!TypeOK
<1>3. L!InBuffers' /\ L!Block' = L!Block
  BY <1>1 DEF LzInv, L!InBuffers, L!Payload, L!Block
<1> QED
  BY <1>1, <1>2, <1>3 DEF LzInv

\* A part of a sequence of bytes, byte by byte.
LEMMA PartIs ==
  ASSUME NEW s \in L!Bytes, NEW m \in Nat, NEW k \in Nat, m + k <= Len(s)
  PROVE  /\ SubSeq(s, m + 1, m + k) \in L!Bytes /\ Len(SubSeq(s, m + 1, m + k)) = k
         /\ \A i \in 1..k : SubSeq(s, m + 1, m + k)[i] = s[m + i]
<1>1. m <= m + k /\ m + k - m = k /\ m + k \in Nat
  OBVIOUS
<1>2. PICK t : t = SubSeq(s, m + 1, m + k)
  OBVIOUS
<1>3. t \in L!Bytes /\ Len(t) = k
  BY <1>1, <1>2, BytesPart
<1>4. \A i \in 1..Len(s) : s[i] \in 0..L!Most
  BY ByteFacts
<1>5. \A i \in m + 1..m + k : s[i] \in 0..L!Most
  <2>1. Len(s) \in Nat
    BY ByteFacts
  <2> QED
    BY <1>4, <2>1
<1>6. m + 1 \in Int /\ m + k \in Int
  OBVIOUS
<1>7. \A i \in 1..(m + k - (m + 1) + 1) : t[i] = s[m + 1 + i - 1]
  <2>1. m + 1 <= m + k + 1
    OBVIOUS
  <2> QED
    BY <1>2 , <1>6, <2>1, <1>3
<1>8. \A i \in 1..k : i \in 1..(m + k - (m + 1) + 1) /\ m + 1 + i - 1 = m + i
  OBVIOUS
<1> QED
  BY <1>2, <1>3, <1>7, <1>8

\* Two sequences of bytes that agree are the same.
LEMMA SameBytes ==
  ASSUME NEW s \in L!Bytes, NEW t \in L!Bytes, Len(s) = Len(t),
         \A i \in 1..Len(s) : s[i] = t[i]
  PROVE  s = t
<1>1. PICK B : B = 0..L!Most
  OBVIOUS
<1>2. s \in Seq(B) /\ t \in Seq(B)
  BY <1>1 DEF L!Bytes
<1> QED
  BY <1>2

\* Joined sequences, byte by byte.
LEMMA JoinIs ==
  ASSUME NEW s \in L!Bytes, NEW t \in L!Bytes
  PROVE  /\ \A i \in 1..Len(s) : (s \o t)[i] = s[i]
         /\ \A i \in 1..Len(t) : (s \o t)[Len(s) + i] = t[i]
<1>1. PICK B : B = 0..L!Most
  OBVIOUS
<1>2. s \in Seq(B) /\ t \in Seq(B)
  BY <1>1 DEF L!Bytes
<1> QED
  BY <1>2

-----------------------------------------------------------------------------
\* The extension bytes of a length, and where they are.
ExtraBytes(n) == IF n >= L!Full THEN (n - L!Full) \div L!Most + 1 ELSE 0
CodedAt(p, place, n) ==
  n >= L!Full => /\ \A i \in 1..(n - L!Full) \div L!Most : p[place + i] = L!Most
                 /\ p[place + ExtraBytes(n)] = (n - L!Full) % L!Most

\* The number of extra bytes of a length, by division.
LEMMA ExtraFacts ==
  ASSUME NEW n \in Nat
  PROVE  /\ ExtraBytes(n) \in 0..n
         /\ n >= L!Full =>
              \E q \in Nat, r \in 0..L!Most - 1 :
                /\ q = (n - L!Full) \div L!Most /\ r = (n - L!Full) % L!Most
                /\ ExtraBytes(n) = q + 1 /\ n = L!Full + q * L!Most + r
<1>1. CASE n >= L!Full
  <2>1. PICK f, m \in Nat : f = L!Full /\ m = L!Most /\ f >= 1 /\ m >= 3
    BY WidthFacts
  <2>2. PICK k \in Nat : k = n - f
    BY <1>1, <2>1
  <2>3. PICK q \in Nat, r \in 0..m - 1 : q = k \div m /\ r = k % m /\ k = m * q + r
    BY <2>1
  <2>4. m * q >= q /\ m * q = q * m
    BY <2>1
  <2>5. PICK x \in Nat : x = m * q
    OBVIOUS
  <2>6. q + 1 \in 0..n /\ n = f + x + r
    BY ONLY <2>1, <2>2, <2>3, <2>4, <2>5, n \in Nat
  <2>7. ExtraBytes(n) = q + 1
    BY <1>1, <2>1, <2>2, <2>3 DEF ExtraBytes
  <2> QED
    BY <2>1, <2>2, <2>3, <2>4, <2>5, <2>6, <2>7
<1>2. CASE ~(n >= L!Full)
  BY <1>2 DEF ExtraBytes
<1> QED
  BY <1>1, <1>2

\* The extra bytes that are written stand for the length.
LEMMA ExtendedIs ==
  ASSUME NEW n \in Nat
  PROVE  Len(L!Extended(n)) = ExtraBytes(n) /\ CodedAt(L!Extended(n), 0, n)
<1>1. CASE n >= L!Full
  <2>1. PICK q \in Nat, r \in 0..L!Most - 1 :
          /\ q = (n - L!Full) \div L!Most /\ r = (n - L!Full) % L!Most
          /\ ExtraBytes(n) = q + 1
    BY <1>1, ExtraFacts
  <2>2. PICK ones : ones = [i \in 1..q |-> L!Most]
    OBVIOUS
  <2>3. L!Most \in Nat
    BY WidthFacts
  <2>4. ones \in Seq(Nat) /\ Len(ones) = q /\ \A i \in 1..q : ones[i] = L!Most
    BY <2>2, <2>3
  <2>5. L!Extended(n) = Append(ones, r)
    <3>1. L!Extended(n) = ones \o <<r>>
      BY <1>1, <2>1, <2>2 DEF L!Extended, L!Extension
    <3> QED
      BY <2>1, <2>4, <3>1
  <2>6. PICK x : x = Append(ones, r)
    OBVIOUS
  <2>7. Len(x) = q + 1 /\ x[q + 1] = r /\ \A i \in 1..q : x[i] = L!Most
    BY <2>1, <2>4, <2>6
  <2>8. 0 + ExtraBytes(n) = q + 1 /\ \A i \in 1..q : 0 + i = i
    BY <2>1
  <2> QED
    BY <2>1, <2>5, <2>6, <2>7, <2>8 DEF CodedAt
<1>2. CASE ~(n >= L!Full)
  BY <1>2 DEF L!Extended, ExtraBytes, CodedAt
<1> QED
  BY <1>1, <1>2

\* A length that has been written is the only one that can be read.
LEMMA ReadsOnly ==
  ASSUME NEW n \in Nat, NEW place \in Nat, NEW v \in Nat, NEW m \in Nat,
         L!Payload \in L!Bytes, L!Block.raw \in Nat, n <= L!Block.raw,
         place + ExtraBytes(n) <= Len(L!Payload), CodedAt(L!Payload, place, n)
  PROVE  L!ReadLength(L!Lesser(n, L!Full), place, v, m) <=> v = n /\ m = ExtraBytes(n)
<1>1. L!Full \in Nat /\ L!Full >= 1 /\ L!Most \in Nat /\ L!Most >= 3
  BY WidthFacts
<1>2. CASE ~(n >= L!Full)
  <2>1. L!Lesser(n, L!Full) = n /\ n < L!Full
    BY <1>1, <1>2 DEF L!Lesser
  <2> QED
    BY <1>2, <2>1 DEF L!ReadLength, ExtraBytes
<1>3. CASE n >= L!Full
  <2>1. PICK q \in Nat, r \in 0..L!Most - 1 :
          /\ q = (n - L!Full) \div L!Most /\ r = (n - L!Full) % L!Most
          /\ ExtraBytes(n) = q + 1 /\ n = L!Full + q * L!Most + r
    BY <1>3, ExtraFacts
  <2>2. L!Lesser(n, L!Full) = L!Full
    BY <1>1, <1>3 DEF L!Lesser
  <2>3. (\A i \in 1..q : L!Payload[place + i] = L!Most) /\ L!Payload[place + (q + 1)] = r
    BY <1>3, <2>1 DEF CodedAt
  <2>4. L!ReadLength(L!Full, place, v, m) <=>
          /\ m >= 1 /\ place + m <= Len(L!Payload)
          /\ \A i \in 1..m - 1 : L!Payload[place + i] = L!Most
          /\ L!Payload[place + m] # L!Most
          /\ v = L!Full + (m - 1) * L!Most + L!Payload[place + m]
          /\ v <= L!Block.raw
    BY <1>1 DEF L!ReadLength
  <2>5. r # L!Most
    BY <1>1
  <2>6. ASSUME L!ReadLength(L!Full, place, v, m) PROVE v = n /\ m = q + 1
    <3>1. ~(m <= q)
      <4> SUFFICES ASSUME m <= q PROVE FALSE
        OBVIOUS
      <4>1. m \in 1..q
        BY <2>4, <2>6
      <4> QED
        BY <2>3, <2>4, <2>6, <4>1
    <3>2. ~(m > q + 1)
      <4> SUFFICES ASSUME m > q + 1 PROVE FALSE
        OBVIOUS
      <4>1. q + 1 \in 1..m - 1
        OBVIOUS
      <4> QED
        BY <2>3, <2>4, <2>5, <2>6, <4>1
    <3>3. m = q + 1
      BY <3>1, <3>2
    <3>4. m - 1 = q
      BY <3>3
    <3> QED
      BY <2>1, <2>3, <2>4, <2>6, <3>3, <3>4
  <2>7. ASSUME v = n, m = q + 1 PROVE L!ReadLength(L!Full, place, v, m)
    <3>1. m - 1 = q /\ m >= 1
      BY <2>7
    <3> QED
      BY <2>1, <2>3, <2>4, <2>5, <2>7, <3>1
  <2> QED
    BY <2>1, <2>2, <2>6, <2>7
<1> QED
  BY <1>2, <1>3

\* The two nibbles of a token byte.
LEMMA NibblesOf ==
  ASSUME NEW a \in 0..L!Full, NEW b \in 0..L!Full
  PROVE  (a * Nibble + b) \div Nibble = a /\ (a * Nibble + b) % Nibble = b
<1>1. PICK n \in Nat : n = Nibble /\ n >= 2
  BY WidthFacts
<1>2. a \in Nat /\ b \in 0..n - 1
  BY <1>1 DEF L!Full
<1>3. PICK x \in Nat : x = a * n + b
  BY <1>1, <1>2
<1>4. PICK q \in Nat, r \in 0..n - 1 : q = x \div n /\ r = x % n /\ x = n * q + r
  BY <1>1
<1>5. n * (q - a) = b - r
  BY <1>1, <1>2, <1>3, <1>4
<1>6. b - r < n /\ b - r > -n
  BY <1>1, <1>2, <1>4
<1>7. q - a = 0
  <2>1. PICK k \in Int : k = q - a
    BY <1>2
  <2>2. n * k < n /\ n * k > -n
    BY <1>5, <1>6, <2>1
  <2>3. ~(k >= 1)
    <3>1. k >= 1 => n * k >= n
      BY <1>1
    <3> QED
      BY <2>2, <3>1
  <2>4. ~(k <= -1)
    <3>1. k <= -1 => n * k <= -n
      BY <1>1
    <3> QED
      BY <2>2, <3>1
  <2> QED
    BY <2>1, <2>3, <2>4
<1>8. q = a /\ r = b
  BY <1>1, <1>2, <1>4, <1>5, <1>7
<1> QED
  BY <1>1, <1>3, <1>4, <1>8

\* The two bytes of a distance.
LEMMA DistanceBytes ==
  ASSUME NEW d \in Nat, d <= Window
  PROVE  (d % L!Byte) + ((d \div L!Byte) % L!Byte) * L!Byte = d
<1>1. PICK b \in Nat : b = L!Byte /\ b >= 4
  BY WidthFacts
<1>2. d <= b * b - 1
  <2>1. Window <= L!Byte * L!Byte - 1 /\ Window \in Nat
    <3>1. L!Byte * L!Byte - 1 \in Int
      BY <1>1
    <3> QED
      BY <3>1, Lz77Assumption DEF L!WidthAssumption
  <2>2. PICK s \in Nat : s = b * b
    BY <1>1
  <2> QED
    BY <1>1, <2>1, <2>2
<1>3. PICK q \in Nat, r \in 0..b - 1 : q = d \div b /\ r = d % b /\ d = b * q + r
  BY <1>1
<1>4. q < b
  <2>1. q >= b => b * q >= b * b
    BY <1>1
  <2>2. PICK s \in Nat, t \in Nat : s = b * b /\ t = b * q
    BY <1>1
  <2> QED
    BY <1>1, <1>2, <1>3, <2>1, <2>2
<1>5. q % b = q
  BY <1>1, <1>4
<1>6. b * q = q * b
  BY <1>1
<1> QED
  BY <1>1, <1>3, <1>5, <1>6

\* The literals and the match of one token: "n" bytes of the block "r" after
\* the first "f", then "l" bytes from "d" back, or none; and how they lie in the
\* payload "p" after the first "place" bytes.
Code(l) == IF l = 0 THEN 0 ELSE l - MinMatch
Span(n, l) == 1 + ExtraBytes(n) + n + IF l = 0 THEN 0 ELSE ExtraBytes(Code(l)) + 2
Placed(p, place, r, f, n, l, d) ==
  /\ p[place + 1] = L!Lesser(n, L!Full) * Nibble + L!Lesser(Code(l), L!Full)
  /\ CodedAt(p, place + 1, n)
  /\ \A i \in 1..n : p[place + 1 + ExtraBytes(n) + i] = r[f + i]
  /\ l # 0 => LET m == place + 1 + ExtraBytes(n) + n IN
       /\ CodedAt(p, m, Code(l))
       /\ p[m + ExtraBytes(Code(l)) + 1] + p[m + ExtraBytes(Code(l)) + 2] * L!Byte = d

\* The size of a token sequence is a natural number.
LEMMA SpanFacts ==
  ASSUME NEW n \in Nat, NEW l \in Nat, l = 0 \/ l >= MinMatch
  PROVE  /\ Code(l) \in Nat /\ Code(l) <= l /\ ExtraBytes(n) \in Nat /\ ExtraBytes(n) <= n
         /\ ExtraBytes(Code(l)) \in Nat /\ ExtraBytes(Code(l)) <= l
         /\ Span(n, l) \in Nat /\ Span(n, l) >= 1 + ExtraBytes(n) + n
         /\ l # 0 => Span(n, l) = 1 + ExtraBytes(n) + n + ExtraBytes(Code(l)) + 2
         /\ l = 0 => Span(n, l) = 1 + ExtraBytes(n) + n
<1>1. Code(l) \in Nat /\ Code(l) <= l
  BY WidthFacts DEF Code
<1>2. PICK x \in Nat, y \in Nat : x = ExtraBytes(n) /\ y = ExtraBytes(Code(l)) /\ x <= n /\ y <= Code(l)
  BY <1>1, ExtraFacts
<1>3. Span(n, l) = 1 + x + n + IF l = 0 THEN 0 ELSE y + 2
  BY <1>2 DEF Span
<1> QED
  BY <1>1, <1>2, <1>3

\* Where it lies depends on the bytes of its span only.
LEMMA PlacedThere ==
  ASSUME NEW p, NEW q, NEW a \in Nat, NEW b \in Nat, NEW r, NEW f \in Nat, NEW n \in Nat,
         NEW l \in Nat, l = 0 \/ l >= MinMatch, NEW d,
         \A i \in 1..Span(n, l) : q[b + i] = p[a + i],
         Placed(p, a, r, f, n, l, d)
  PROVE  Placed(q, b, r, f, n, l, d)
<1>1. PICK c \in Nat, x \in Nat, y \in Nat, s \in Nat :
        /\ c = Code(l) /\ x = ExtraBytes(n) /\ y = ExtraBytes(c) /\ s = Span(n, l)
        /\ s >= 1 + x + n
        /\ l # 0 => s = 1 + x + n + y + 2
  BY SpanFacts
<1>2. \A i \in 1..s : q[b + i] = p[a + i]
  BY <1>1
<1>3. ASSUME NEW k \in Nat, NEW m \in Nat, k + ExtraBytes(m) <= s, CodedAt(p, a + k, m)
      PROVE  CodedAt(q, b + k, m)
  <2>1. CASE m >= L!Full
    <3>1. PICK u \in Nat : ExtraBytes(m) = u + 1 /\ u = (m - L!Full) \div L!Most
      BY <2>1, ExtraFacts
    <3>2. ASSUME NEW i \in 1..u + 1 PROVE q[b + k + i] = p[a + k + i]
      <4>1. k + i \in 1..s /\ b + k + i = b + (k + i) /\ a + k + i = a + (k + i)
        BY <1>1, <1>3, <3>1
      <4> QED
        BY <1>2, <4>1
    <3> QED
      BY <1>3, <2>1, <3>1, <3>2 DEF CodedAt
  <2>2. CASE ~(m >= L!Full)
    BY <2>2 DEF CodedAt
  <2> QED
    BY <2>1, <2>2
<1>4. q[b + 1] = p[a + 1]
  BY <1>1, <1>2
<1>5. CodedAt(q, b + 1, n)
  BY <1>1, <1>3 DEF Placed
<1>6. ASSUME NEW i \in 1..n PROVE q[b + 1 + x + i] = r[f + i]
  <2>1. 1 + x + i \in 1..s /\ b + 1 + x + i = b + (1 + x + i) /\ a + 1 + x + i = a + (1 + x + i)
    BY <1>1
  <2>2. p[a + 1 + x + i] = r[f + i]
    BY <1>1 DEF Placed
  <2> QED
    BY <1>2, <2>1, <2>2
<1>7. ASSUME l # 0
      PROVE  /\ CodedAt(q, b + 1 + x + n, c)
             /\ q[b + 1 + x + n + y + 1] + q[b + 1 + x + n + y + 2] * L!Byte = d
  <2>1. PICK k \in Nat : k = 1 + x + n
    BY <1>1
  <2>2. CodedAt(p, a + 1 + x + n, c) /\ a + 1 + x + n = a + k /\ b + 1 + x + n = b + k
    BY <1>1, <1>7, <2>1 DEF Placed
  <2>3. CodedAt(q, b + k, c)
    BY <1>1, <1>3, <1>7, <2>1, <2>2
  <2>4. p[a + k + y + 1] + p[a + k + y + 2] * L!Byte = d
    BY <1>1, <1>7, <2>2 DEF Placed
  <2>5. /\ k + y + 1 \in 1..s /\ k + y + 2 \in 1..s
        /\ a + k + y + 1 = a + (k + y + 1) /\ a + k + y + 2 = a + (k + y + 2)
        /\ b + k + y + 1 = b + (k + y + 1) /\ b + k + y + 2 = b + (k + y + 2)
    BY <1>1, <1>7, <2>1
  <2>6. q[b + k + y + 1] = p[a + k + y + 1] /\ q[b + k + y + 2] = p[a + k + y + 2]
    BY <1>2, <2>5
  <2> QED
    BY <2>2, <2>3, <2>4, <2>6
<1> QED
  BY <1>1, <1>4, <1>5, <1>6, <1>7 DEF Placed

\* That is how a token is written.
LEMMA SequenceIs ==
  ASSUME NEW lits \in L!Bytes, NEW l \in Nat, l = 0 \/ l >= MinMatch, NEW d \in Nat, d <= Window
  PROVE  /\ Len(L!TokenSequence(lits, l, d)) = Span(Len(lits), l)
         /\ Placed(L!TokenSequence(lits, l, d), 0, lits, 0, Len(lits), l, d)
<1>1. PICK n \in Nat : n = Len(lits)
  BY ByteFacts
<1>2. PICK c \in Nat, x \in Nat, y \in Nat :
        /\ c = Code(l) /\ x = ExtraBytes(n) /\ y = ExtraBytes(c)
  BY SpanFacts
<1>3. PICK first \in 0..L!Most :
        first = L!Lesser(n, L!Full) * Nibble + L!Lesser(c, L!Full)
  <2>2. L!Lesser(n, L!Full) \in 0..L!Full /\ L!Lesser(c, L!Full) \in 0..L!Full
    BY <1>1, <1>2, WidthFacts DEF L!Lesser
  <2> QED
    BY <2>2, TwoNibbles
<1>4. PICK low \in 0..L!Most, high \in 0..L!Most :
        /\ low = d % L!Byte /\ high = (d \div L!Byte) % L!Byte
        /\ low + high * L!Byte = d
  <2>1. PICK b \in Nat : b = L!Byte /\ b >= 4 /\ L!Most = b - 1
    BY WidthFacts
  <2>2. PICK q \in Nat : q = d \div b
    BY <2>1
  <2>3. d % b \in 0..L!Most /\ q % b \in 0..L!Most
    BY <2>1, <2>2
  <2> QED
    BY <2>1, <2>2, <2>3, DistanceBytes
<1>5. PICK h \in L!Bytes : h = <<first>> /\ Len(h) = 1 /\ h[1] = first
  <2>1. <<first>> \in L!Bytes /\ Len(<<first>>) = 1 /\ <<first>>[1] = first
    BY <1>3 DEF L!Bytes
  <2> QED
    BY ONLY <2>1
<1>6. PICK e \in L!Bytes : e = L!Extended(n) /\ Len(e) = x /\ CodedAt(e, 0, n)
  BY <1>2, ExtensionFacts, ExtendedIs
<1>7. PICK g \in L!Bytes : g = L!Extended(c) /\ Len(g) = y /\ CodedAt(g, 0, c)
  BY <1>2, ExtensionFacts, ExtendedIs
<1>8. PICK w \in L!Bytes : w = <<low, high>> /\ Len(w) = 2 /\ w[1] = low /\ w[2] = high
  <2>1. /\ <<low, high>> \in L!Bytes /\ Len(<<low, high>>) = 2
        /\ <<low, high>>[1] = low /\ <<low, high>>[2] = high
    BY <1>4 DEF L!Bytes
  <2> QED
    BY ONLY <2>1
<1>9. PICK t \in L!Bytes : t = IF l = 0 THEN <<>> ELSE g \o w
  <2>1. g \o w \in L!Bytes /\ <<>> \in L!Bytes
    BY BytesJoin DEF L!Bytes
  <2> QED
    BY <2>1
<1>10. L!TokenSequence(lits, l, d) = ((h \o e) \o lits) \o t
  BY <1>1, <1>2, <1>3, <1>4, <1>5, <1>6, <1>7, <1>8, <1>9 DEF L!TokenSequence, Code
<1>11. PICK he \in L!Bytes : he = h \o e /\ Len(he) = 1 + x
  <2>1. h \o e \in L!Bytes /\ Len(h \o e) = Len(h) + Len(e)
    BY BytesJoin
  <2> QED
    BY <1>5, <1>6, <2>1
<1>12. PICK hel \in L!Bytes : hel = he \o lits /\ Len(hel) = 1 + x + n
  <2>1. he \o lits \in L!Bytes /\ Len(he \o lits) = Len(he) + Len(lits)
    BY BytesJoin
  <2> QED
    BY <1>1, <1>11, <2>1
<1>13. PICK T \in L!Bytes : T = hel \o t /\ Len(T) = 1 + x + n + Len(t)
  <2>1. hel \o t \in L!Bytes /\ Len(hel \o t) = Len(hel) + Len(t)
    BY BytesJoin
  <2> QED
    BY <1>12, <2>1
<1>14. Len(t) = IF l = 0 THEN 0 ELSE y + 2
  <2>1. Len(g \o w) = y + 2
    BY ONLY <1>7, <1>8, BytesJoin
  <2> QED
    BY <1>9, <2>1
<1>15. Len(T) = Span(n, l)
  BY <1>2, <1>13, <1>14 DEF Span
<1>16. /\ h[1] = first
       /\ \A i \in 1..1 : he[i] = h[i]
       /\ \A i \in 1..x : he[1 + i] = e[i]
       /\ \A i \in 1..1 + x : hel[i] = he[i]
       /\ \A i \in 1..n : hel[1 + x + i] = lits[i]
       /\ \A i \in 1..1 + x + n : T[i] = hel[i]
       /\ \A i \in 1..Len(t) : T[1 + x + n + i] = t[i]
  <2>1. /\ \A i \in 1..Len(h) : he[i] = h[i]
        /\ \A i \in 1..Len(e) : he[Len(h) + i] = e[i]
    BY ONLY <1>5, <1>6, <1>11, JoinIs
  <2>2. /\ \A i \in 1..Len(he) : hel[i] = he[i]
        /\ \A i \in 1..Len(lits) : hel[Len(he) + i] = lits[i]
    <3>1. /\ \A i \in 1..Len(he) : (he \o lits)[i] = he[i]
          /\ \A i \in 1..Len(lits) : (he \o lits)[Len(he) + i] = lits[i]
      BY JoinIs
    <3> QED
      BY ONLY <1>12, <3>1
  <2>3. /\ \A i \in 1..Len(hel) : T[i] = hel[i]
        /\ \A i \in 1..Len(t) : T[Len(hel) + i] = t[i]
    <3>1. /\ \A i \in 1..Len(hel) : (hel \o t)[i] = hel[i]
          /\ \A i \in 1..Len(t) : (hel \o t)[Len(hel) + i] = t[i]
      BY JoinIs
    <3> QED
      BY ONLY <1>13, <3>1
  <2>4. Len(h) = 1 /\ Len(e) = x /\ Len(he) = 1 + x /\ Len(lits) = n /\ Len(hel) = 1 + x + n
    BY <1>1, <1>5, <1>6, <1>11, <1>12
  <2> QED
    BY ONLY <1>5, <2>1, <2>2, <2>3, <2>4
<1>17. T[1] = first /\ \A i \in 1..x : T[1 + i] = e[i]
  <2>1. 1 \in 1..1 + x + n /\ 1 \in 1..1 + x /\ 1 \in 1..1
    BY ONLY <1>1, <1>2
  <2>2. \A i \in 1..x : 1 + i \in 1..1 + x + n /\ 1 + i \in 1..1 + x
    BY ONLY <1>1, <1>2
  <2> QED
    BY <1>16, <2>1, <2>2
<1>18. \A i \in 1..n : T[1 + x + i] = lits[i]
  <2>1. \A i \in 1..n : 1 + x + i \in 1..1 + x + n
    BY ONLY <1>1, <1>2
  <2> QED
    BY <1>16, <2>1
<1>19. ASSUME NEW k \in Nat, NEW m \in Nat, NEW v, CodedAt(v, 0, m),
              \A i \in 1..ExtraBytes(m) : T[k + i] = v[i]
       PROVE  CodedAt(T, k, m)
  <2>1. CASE m >= L!Full
    <3>1. PICK u \in Nat : ExtraBytes(m) = u + 1 /\ u = (m - L!Full) \div L!Most
      BY <2>1, ExtraFacts
    <3>2. (\A i \in 1..u : v[0 + i] = L!Most) /\ v[0 + (u + 1)] = (m - L!Full) % L!Most
      BY <1>19, <2>1, <3>1 DEF CodedAt
    <3>3. (\A i \in 1..u : v[i] = L!Most /\ i \in 1..u + 1) /\ v[u + 1] = (m - L!Full) % L!Most
          /\ u + 1 \in 1..u + 1
      <4>1. (\A i \in 1..u : 0 + i = i /\ i \in 1..u + 1) /\ 0 + (u + 1) = u + 1
        OBVIOUS
      <4> QED
        BY <3>2, <4>1
    <3>4. (\A i \in 1..u : T[k + i] = L!Most) /\ T[k + (u + 1)] = (m - L!Full) % L!Most
      BY <1>19, <3>1, <3>3
    <3> QED
      BY <3>1, <3>4 DEF CodedAt
  <2>2. CASE ~(m >= L!Full)
    BY <2>2 DEF CodedAt
  <2> QED
    BY <2>1, <2>2
<1>20. CodedAt(T, 0 + 1, n)
  <2>1. CodedAt(T, 1, n)
    BY <1>2, <1>6, <1>17, <1>19
  <2> QED
    BY <2>1
<1>21. ASSUME l # 0
       PROVE  /\ CodedAt(T, 1 + x + n, c)
              /\ T[1 + x + n + y + 1] + T[1 + x + n + y + 2] * L!Byte = d
  <2>1. t = g \o w /\ Len(t) = y + 2
    BY <1>9, <1>14, <1>21
  <2>2. (\A i \in 1..y : t[i] = g[i]) /\ (\A i \in 1..2 : t[y + i] = w[i])
    <3>1. /\ \A i \in 1..Len(g) : (g \o w)[i] = g[i]
          /\ \A i \in 1..Len(w) : (g \o w)[Len(g) + i] = w[i]
      BY JoinIs
    <3> QED
      BY <1>7, <1>8, <2>1, <3>1
  <2>3. \A i \in 1..y : T[1 + x + n + i] = g[i]
    <3>1. \A i \in 1..y : i \in 1..Len(t)
      BY <1>2, <2>1
    <3> QED
      BY <1>16, <2>2, <3>1
  <2>4. CodedAt(T, 1 + x + n, c)
    <3>1. PICK k \in Nat : k = 1 + x + n
      BY <1>2
    <3>2. \A i \in 1..ExtraBytes(c) : T[k + i] = g[i]
      BY <1>2, <2>3, <3>1
    <3> QED
      BY <1>7, <1>19, <3>1, <3>2
  <2>5. /\ y + 1 \in 1..Len(t) /\ y + 2 \in 1..Len(t)
        /\ 1 + x + n + y + 1 = 1 + x + n + (y + 1) /\ 1 + x + n + y + 2 = 1 + x + n + (y + 2)
    <3>1. Len(t) = y + 2 /\ x \in Nat /\ y \in Nat /\ n \in Nat
      BY <1>1, <1>2, <2>1
    <3> QED
      BY ONLY <3>1
  <2>6. T[1 + x + n + (y + 1)] = t[y + 1] /\ T[1 + x + n + (y + 2)] = t[y + 2]
    BY <1>16, <2>5
  <2>7. t[y + 1] = low /\ t[y + 2] = high
    BY <1>8, <2>2
  <2> QED
    BY <1>4, <2>4, <2>5, <2>6, <2>7
<1>22. Placed(T, 0, lits, 0, n, l, d)
  <2>1. T[0 + 1] = first /\ \A i \in 1..n : T[0 + 1 + x + i] = lits[0 + i]
    BY <1>17, <1>18, <1>2
  <2>2. 0 + 1 + x + n = 1 + x + n
    BY <1>2
  <2> QED
    BY <1>2, <1>3, <1>20, <1>21, <2>1, <2>2 DEF Placed
<1> QED
  BY <1>1, <1>10, <1>11, <1>12, <1>13, <1>15, <1>22

\* Bytes that are those "d" before them.
Repeats(r, k, l, d) == \A i \in k + 1..k + l : r[i] = r[i - d]

\* Sequences that begin with the same bytes.
Agree(s, r, n) == \A i \in 1..n : s[i] = r[i]

\* A token of a block: it stands for the bytes that are there.
Piece(p, r, a, f, n, l, d) ==
  /\ n + l >= 1 /\ f + n + l <= Len(r) /\ a + Span(n, l) <= Len(p)
  /\ l = 0 => f + n = Len(r)
  /\ l # 0 => l >= MinMatch /\ d \in 1..f + n /\ Repeats(r, f + n, l, d)
  /\ Placed(p, a, r, f, n, l, d)

\* The places between the tokens: how much of the payload and of the block lies
\* before each.  The last place is the end of the payload.
Plan(D, p, r, e) ==
  /\ D \subseteq Nat \X Nat /\ <<0, 0>> \in D /\ <<Len(p), e>> \in D
  /\ \A a, f \in Nat : <<a, f>> \in D =>
       \/ a = Len(p) /\ f = e
       \/ \E n, l, d \in Nat : /\ Piece(p, r, a, f, n, l, d)
                               /\ <<a + Span(n, l), f + n + l>> \in D

\* Nothing is planned for an empty payload.
LEMMA NoPlan == ASSUME NEW r PROVE Plan({<<0, 0>>}, <<>>, r, 0)
BY DEF Plan

\* One token more.
LEMMA PlanMore ==
  ASSUME NEW D, NEW p \in L!Bytes, NEW r \in L!Bytes, NEW e \in Nat, Plan(D, p, r, e),
         NEW t \in L!Bytes, NEW n \in Nat, NEW l \in Nat, NEW d \in Nat, Len(t) = Span(n, l),
         Piece(p \o t, r, Len(p), e, n, l, d)
  PROVE  Plan(D \cup {<<Len(p) + Span(n, l), e + n + l>>}, p \o t, r, e + n + l)
<1>1. PICK k \in Nat, s \in Nat : k = Len(p) /\ s = Span(n, l) /\ s = Len(t)
  BY ByteFacts
<1>2. PICK q \in L!Bytes : q = p \o t /\ Len(q) = k + s
  <2>1. p \o t \in L!Bytes /\ Len(p \o t) = Len(p) + Len(t)
    BY BytesJoin
  <2> QED
    BY <1>1, <2>1
<1>3. PICK g \in Nat : g = e + n + l
  OBVIOUS
<1>4. PICK E : E = D \cup {<<k + s, g>>}
  OBVIOUS
<1>5. \A i \in 1..k : q[i] = p[i]
  <2>1. \A i \in 1..Len(p) : (p \o t)[i] = p[i]
    BY JoinIs
  <2> QED
    BY <1>1, <1>2, <2>1
<1>6. ASSUME NEW a \in Nat, NEW f \in Nat, <<a, f>> \in E
      PROVE  \/ a = k + s /\ f = g
             \/ \E x, y, z \in Nat : /\ Piece(q, r, a, f, x, y, z)
                                     /\ <<a + Span(x, y), f + x + y>> \in E
  <2>1. CASE <<a, f>> = <<k + s, g>>
    BY <2>1
  <2>2. CASE <<a, f>> \in D /\ a = k /\ f = e
    BY <1>1, <1>2, <1>3, <1>4, <2>2
  <2>3. CASE <<a, f>> \in D /\ ~(a = k /\ f = e)
    <3>1. PICK x \in Nat, y \in Nat, z \in Nat :
            Piece(p, r, a, f, x, y, z) /\ <<a + Span(x, y), f + x + y>> \in D
      BY <1>1, <2>3 DEF Plan
    <3>2. y = 0 \/ y >= MinMatch
      BY <3>1 DEF Piece
    <3>3. PICK u \in Nat : u = Span(x, y) /\ a + u <= k
      BY <1>1, <3>1, <3>2, SpanFacts DEF Piece
    <3>4. \A i \in 1..u : q[a + i] = p[a + i]
      <4>1. \A i \in 1..u : a + i \in 1..k
        BY <3>3
      <4> QED
        BY <1>5, <4>1
    <3>5. Placed(q, a, r, f, x, y, z)
      <4>1. Placed(p, a, r, f, x, y, z)
        BY <3>1 DEF Piece
      <4> QED
        BY <3>2, <3>3, <3>4, <4>1, PlacedThere
    <3>6. a + u <= Len(q)
      BY <1>2, <3>3
    <3>7. Piece(q, r, a, f, x, y, z)
      BY <3>1, <3>3, <3>5, <3>6 DEF Piece
    <3> QED
      BY <1>4, <3>1, <3>7
  <2> QED
    BY <1>4, <1>6, <2>1, <2>2, <2>3
<1>7. E \subseteq Nat \X Nat /\ <<0, 0>> \in E /\ <<Len(q), g>> \in E
  BY <1>1, <1>2, <1>4 DEF Plan
<1>8. Plan(E, q, r, g)
  BY <1>2, <1>6, <1>7 DEF Plan
<1> QED
  BY <1>1, <1>2, <1>3, <1>4, <1>8

\* At each place there is a next token, until payload and block are at an end.
LEMMA PlanNext ==
  ASSUME NEW D, NEW p \in L!Bytes, NEW r \in L!Bytes, Plan(D, p, r, Len(r)),
         NEW a \in Nat, NEW f \in Nat, <<a, f>> \in D
  PROVE  \/ a = Len(p) /\ f = Len(r)
         \/ /\ a < Len(p) /\ f < Len(r)
            /\ \E n, l, d \in Nat : /\ Piece(p, r, a, f, n, l, d)
                                    /\ <<a + Span(n, l), f + n + l>> \in D
<1>1. CASE a = Len(p) /\ f = Len(r)
  BY <1>1
<1>2. CASE ~(a = Len(p) /\ f = Len(r))
  <2>1. PICK n \in Nat, l \in Nat, d \in Nat :
          Piece(p, r, a, f, n, l, d) /\ <<a + Span(n, l), f + n + l>> \in D
    BY <1>2 DEF Plan
  <2>2. l = 0 \/ l >= MinMatch
    BY <2>1 DEF Piece
  <2>3. PICK s \in Nat, x \in Nat : s = Span(n, l) /\ s >= 1 + x + n
    BY <2>2, SpanFacts
  <2>4. Len(p) \in Nat /\ Len(r) \in Nat
    BY ByteFacts
  <2>5. n + l >= 1 /\ f + n + l <= Len(r) /\ a + s <= Len(p)
    BY <2>1, <2>3 DEF Piece
  <2>6. a < Len(p) /\ f < Len(r)
    BY <2>3, <2>4, <2>5
  <2> QED
    BY <2>1, <2>6
<1> QED
  BY <1>1, <1>2

-----------------------------------------------------------------------------
\* A match agrees with the bytes it is for.
LEMMA MatchAgrees ==
  ASSUME LzInv, NEW c, NEW p \in Nat, p <= L!Size
  PROVE  \A i \in 1..L!MatchLength(c, p) : L!Raw[c + i] = L!Raw[p + i]
<1>1. PICK n \in Nat : n = L!Lesser(L!Size - p, MaxMatch) /\ n <= L!Size - p
  BY RawFacts, WidthFacts DEF L!Lesser
<1> DEFINE S == {m \in 0..n : \A i \in 1..m : L!Raw[c + i] = L!Raw[p + i]}
<1>2. S \in SUBSET (0..n) /\ 0 \in S
  BY <1>1
<1>3. L!MatchLength(c, p) = L!Max(S)
  BY <1>1 DEF L!MatchLength
<1> HIDE DEF S
<1>4. L!Max(S) = H!Max(S)
  BY DEF L!Max, H!Max
<1>5. L!Max(S) \in S
  BY <1>2, <1>4, MaximumFacts
<1> USE DEF S
<1> QED
  BY <1>3, <1>5

\* A match that is found lies in the window before the position.
LEMMA SearchAgrees ==
  ASSUME LzInv, NEW s \in Seq(Nat), NEW p \in Nat, p <= L!Size, L!Search(s, p).length # 0
  PROVE  /\ L!Search(s, p).distance \in 1..p /\ L!Search(s, p).distance <= Window
         /\ L!Search(s, p).length \in Nat /\ L!Search(s, p).length <= L!Size - p
         /\ \A i \in 1..L!Search(s, p).length :
              L!Raw[p + i - L!Search(s, p).distance] = L!Raw[p + i]
<1> DEFINE bucket == {i \in DOMAIN s : L!HashAt(s[i]) = L!HashAt(p)}
           tried == {i \in bucket : /\ L!InWindow(s[i], p)
                                    /\ L!Cardinality({j \in bucket : j <= i}) <= MaxChain}
           length(i) == L!MatchLength(s[i], p)
           best == CHOOSE i \in tried : \A j \in tried :
                     length(j) < length(i) \/ (length(j) = length(i) /\ i <= j)
<1>1. L!Search(s, p) = IF tried = {} THEN [length |-> 0, distance |-> 0]
                       ELSE [length |-> length(best), distance |-> p - s[best]]
  BY DEF L!Search
<1>2. tried \subseteq 1..Len(s) /\ Len(s) \in Nat
  OBVIOUS
<1>3. PICK n \in Nat : n = L!Size - p
  BY RawFacts
<1>4. \A c : L!MatchLength(c, p) \in 0..n
  <2>1. \A c : L!MatchLength(c, p) \in Nat /\ L!MatchLength(c, p) <= L!Size - p
    BY MatchLengthFacts
  <2> QED
    BY <1>3, <2>1
<1>5. tried # {}
  BY <1>1
<1>6. \A i \in tried : L!InWindow(s[i], p)
  OBVIOUS
<1> HIDE DEF bucket, tried
<1>7. \A i \in tried : length(i) \in 0..n
  BY <1>4
<1>8. \A i \in tried : \A j \in 1..length(i) : L!Raw[s[i] + j] = L!Raw[p + j]
  BY MatchAgrees
<1> HIDE DEF length
<1> DEFINE lens == {length(i) : i \in tried}
<1>9. PICK m \in lens : \A h \in lens : m >= h
  <2>1. lens \in SUBSET (0..n) /\ lens # {}
    BY <1>5, <1>7
  <2> HIDE DEF lens
  <2> QED
    BY <2>1, MaximumFacts
<1> DEFINE longest == {i \in tried : length(i) = m}
<1>10. PICK b \in longest : \A h \in longest : b <= h
  <2>1. longest \in SUBSET Nat /\ longest # {}
    BY <1>2, <1>9
  <2> HIDE DEF longest
  <2> QED
    BY <2>1, LeastNatural
<1>11. ASSUME NEW j \in tried PROVE length(j) < length(b) \/ (length(j) = length(b) /\ b <= j)
  <2>1. length(j) \in lens /\ length(b) = m /\ length(j) \in 0..n /\ m \in 0..n
    BY <1>7, <1>9, <1>10
  <2>2. length(j) = m => j \in longest
    OBVIOUS
  <2> QED
    BY <1>9, <1>10, <2>1, <2>2
<1>12. b \in tried
  BY <1>10
<1>13. best \in tried
  BY <1>11, <1>12
<1>14. PICK k \in tried : k = best
  BY <1>13
<1> HIDE DEF best
<1>15. PICK c \in Nat, g \in Nat : c = s[k] /\ g = length(k) /\ g <= n
  BY <1>2, <1>7
<1>16. c < p /\ p - c <= Window
  BY <1>6, <1>15 DEF L!InWindow
<1>17. L!Search(s, p).length = g /\ L!Search(s, p).distance = p - c
  BY <1>1, <1>5, <1>14, <1>15
<1>18. \A i \in 1..g : L!Raw[c + i] = L!Raw[p + i]
  BY <1>8, <1>15
<1>19. \A i \in 1..g : p + i - (p - c) = c + i
  BY <1>15
<1>20. p - c \in 1..p
  BY <1>15, <1>16
<1> QED
  BY <1>3, <1>15, <1>16, <1>17, <1>18, <1>19, <1>20

\* The remainder is the same a divisor earlier.
LEMMA ModuloFacts ==
  ASSUME NEW x \in Nat, NEW d \in Nat \ {0}
  PROVE  /\ x < d => x % d = x
         /\ x >= d => (x - d) % d = x % d
<1>1. x < d => x % d = x
  OBVIOUS
<1>2. ASSUME x >= d PROVE (x - d) % d = x % d
  <2>1. PICK q \in Nat, u \in 0..d - 1 : u = x % d /\ x = d * q + u
    OBVIOUS
  <2>2. PICK y \in Nat : y = x - d
    BY <1>2
  <2>3. PICK w \in Nat, v \in 0..d - 1 : v = y % d /\ y = d * w + v
    <3>1. /\ y \div d \in Nat /\ y % d \in 0..d - 1 /\ y = d * (y \div d) + (y % d)
      BY ONLY d \in Nat \ {0}, y \in Nat
    <3> QED
      BY ONLY <3>1
  <2>4. d * (q - w - 1) = v - u
    <3>1. d * (q - w - 1) = d * q - d * w - d
      BY ONLY d \in Nat \ {0}, q \in Nat, w \in Nat
    <3>2. PICK m \in Int, n \in Int : m = d * q /\ n = d * w
      OBVIOUS
    <3>3. x = m + u /\ y = n + v /\ y = x - d
      BY <2>1, <2>2, <2>3, <3>2
    <3>4. m - n - d = v - u
      BY ONLY <3>2, <3>3, d \in Nat, x \in Nat, u \in 0..d - 1, v \in 0..d - 1
    <3> QED
      BY <3>1, <3>2, <3>4
  <2>5. PICK z \in Int : z = q - w - 1
    OBVIOUS
  <2>6. d * z < d /\ d * z > -d
    BY <2>1, <2>3, <2>4, <2>5
  <2>7. ~(z >= 1)
    <3>1. z >= 1 => d * z >= d
      OBVIOUS
    <3> QED
      BY <2>6, <3>1
  <2>8. ~(z <= -1)
    <3>1. z <= -1 => d * z <= -d
      OBVIOUS
    <3> QED
      BY <2>6, <3>1
  <2>9. z = 0
    BY <2>7, <2>8
  <2>10. d * z = 0
    BY <2>9
  <2> QED
    BY <2>1, <2>2, <2>3, <2>4, <2>5, <2>10
<1> QED
  BY <1>1, <1>2

\* A copy yields what the match was found for, although it may overlap itself.
LEMMA CopiedIs ==
  ASSUME NEW r \in L!Bytes, NEW k \in Nat, NEW l \in Nat, NEW d \in 1..k, k + l <= Len(r),
         out \in L!Bytes, Len(out) = k, Agree(out, r, k),
         Repeats(r, k, l, d)
  PROVE  Agree(L!Copied(l, d), r, k + l)
<1>1. ASSUME NEW i \in k + 1..k + l
      PROVE  r[i] = r[k - d + 1 + ((i - k - 1) % d)]
  <2> DEFINE Bad == {j \in Nat : j \in k + 1..k + l /\ r[j] # r[k - d + 1 + ((j - k - 1) % d)]}
  <2> SUFFICES ASSUME i \in Bad PROVE FALSE
    OBVIOUS
  <2>1. PICK j \in Bad : \A h \in Bad : j <= h
    <3>1. Bad \in SUBSET Nat /\ Bad # {}
      OBVIOUS
    <3> HIDE DEF Bad
    <3> QED
      BY <3>1, LeastNatural
  <2>0. d \in Nat \ {0}
    OBVIOUS
  <2>2. j \in k + 1..k + l /\ r[j] # r[k - d + 1 + ((j - k - 1) % d)] /\ r[j] = r[j - d]
    BY <2>1 DEF Repeats
  <2>3. PICK x \in Nat : x = j - k - 1
    BY <2>2
  <2> HIDE DEF Bad
  <2>4. CASE x < d
    <3>1. x % d = x
      BY <2>0, <2>4, ModuloFacts
    <3>2. k - d + 1 + x = j - d
      BY <2>2, <2>3
    <3> QED
      BY <2>2, <2>3, <3>1, <3>2
  <2>5. CASE x >= d
    <3>1. j - d \in k + 1..k + l /\ j - d < j /\ j - d - k - 1 = x - d /\ j - d \in Nat
      BY <2>2, <2>3, <2>5
    <3>2. j - d \notin Bad
      BY <2>1, <2>2, <3>1
    <3>3. r[j - d] = r[k - d + 1 + ((x - d) % d)]
      BY <3>1, <3>2 DEF Bad
    <3>4. (x - d) % d = x % d
      BY <2>0, <2>5, ModuloFacts
    <3> QED
      BY <2>2, <2>3, <3>3, <3>4
  <2> QED
    BY <2>3, <2>4, <2>5
<1>2. ASSUME NEW i \in k + 1..k + l PROVE k - d + 1 + ((i - k - 1) % d) \in 1..k
  <2>1. PICK x \in Nat : x = i - k - 1
    OBVIOUS
  <2>2. PICK u \in 0..d - 1 : u = x % d
    OBVIOUS
  <2> QED
    BY <2>1, <2>2
<1>3. L!Copied(l, d) = [i \in 1..k + l |-> IF i <= k THEN out[i]
                                          ELSE out[k - d + 1 + ((i - k - 1) % d)]]
  BY DEF L!Copied
<1> SUFFICES ASSUME NEW i \in 1..k + l PROVE L!Copied(l, d)[i] = r[i]
  BY DEF Agree
<1>4. CASE i <= k
  BY <1>3, <1>4 DEF Agree
<1>5. CASE ~(i <= k)
  <2>1. i \in k + 1..k + l
    BY <1>5
  <2>2. L!Copied(l, d)[i] = out[k - d + 1 + ((i - k - 1) % d)]
    BY <1>3, <1>5
  <2> QED
    BY <1>1, <1>2, <2>1, <2>2 DEF Agree
<1> QED
  BY <1>4, <1>5

\* A token that is written after "p".
TokenWritten(p, r, f, n, l, d) ==
  LET t == L!TokenSequence(SubSeq(r, f + 1, f + n), l, d) IN
  /\ t \in L!Bytes /\ Len(t) = Span(n, l) /\ p \o t \in L!Bytes
  /\ Len(p) + Span(n, l) = Len(p \o t)
  /\ Placed(p \o t, Len(p), r, f, n, l, d)

\* What TokenSequence writes, piece by piece.
LEMMA TokenIs ==
  ASSUME NEW p \in L!Bytes, NEW r \in L!Bytes, NEW f \in Nat, NEW n \in Nat, NEW l \in Nat,
         NEW d \in Nat, f + n <= Len(r), l = 0 \/ l >= MinMatch, d <= Window
  PROVE  TokenWritten(p, r, f, n, l, d)
<1> DEFINE t == L!TokenSequence(SubSeq(r, f + 1, f + n), l, d)
<1>0. PICK lits : lits = SubSeq(r, f + 1, f + n)
  OBVIOUS
<1>1. lits \in L!Bytes /\ Len(lits) = n /\ \A i \in 1..n : lits[i] = r[f + i]
  <2>1. /\ SubSeq(r, f + 1, f + n) \in L!Bytes /\ Len(SubSeq(r, f + 1, f + n)) = n
        /\ \A i \in 1..n : SubSeq(r, f + 1, f + n)[i] = r[f + i]
    BY PartIs
  <2> QED
    BY <1>0, <2>1
<1>2. t \in L!Bytes
  <2>1. d \in Int
    OBVIOUS
  <2>2. L!TokenSequence(lits, l, d) \in L!Bytes
    BY <1>1, <2>1, SequenceFacts
  <2> QED
    BY <1>0, <2>2
<1>3. Len(t) = Span(n, l) /\ Placed(t, 0, lits, 0, n, l, d)
  <2>1. /\ Len(L!TokenSequence(lits, l, d)) = Span(Len(lits), l)
        /\ Placed(L!TokenSequence(lits, l, d), 0, lits, 0, Len(lits), l, d)
    BY <1>1, SequenceIs
  <2> QED
    BY <1>0, <1>1, <2>1
<1> HIDE DEF t
<1>4. PICK q \in L!Bytes : q = p \o t /\ Len(q) = Len(p) + Len(t)
  <2>1. p \o t \in L!Bytes /\ Len(p \o t) = Len(p) + Len(t)
    BY <1>2, BytesJoin
  <2> QED
    BY <2>1
<1>5. PICK k \in Nat : k = Len(p)
  BY ByteFacts
<1>6. \A i \in 1..Span(n, l) : q[k + i] = t[0 + i]
  <2>1. \A i \in 1..Len(t) : (p \o t)[Len(p) + i] = t[i]
    BY <1>2, JoinIs
  <2>2. \A i \in 1..Span(n, l) : 0 + i = i
    BY SpanFacts
  <2> QED
    BY <1>3, <1>4, <1>5, <2>1, <2>2
<1>7. Placed(q, k, lits, 0, n, l, d)
  <2>1. 0 \in Nat /\ k \in Nat /\ n \in Nat /\ l \in Nat /\ (l = 0 \/ l >= MinMatch)
    BY <1>5
  <2>2. Placed(t, 0, lits, 0, n, l, d)
    BY <1>3
  <2> QED
    BY ONLY <1>6, <2>1, <2>2, PlacedThere
<1>8. Placed(q, k, r, f, n, l, d)
  <2>1. \A i \in 1..n : lits[0 + i] = r[f + i]
    BY <1>1
  <2> QED
    BY <1>7, <2>1 DEF Placed
<1> QED
  BY <1>2, <1>3, <1>4, <1>5, <1>8 DEF t, TokenWritten

-----------------------------------------------------------------------------
\* A block stands for a part of the input.
BlockIs(b, r) ==
  /\ b.raw = Len(r) /\ b.raw \in 1..BlockSize
  /\ IF b.stored THEN b.payload = r
     ELSE Len(b.payload) < b.raw /\ \E D : Plan(D, b.payload, r, Len(r))

\* The number of blocks before each place, and how much of the input they are.
Part(k, o) == SubSeq(input, o + 1, o + blocks[k].raw)
Places(E) ==
  /\ E \subseteq Nat \X Nat /\ <<1, 0>> \in E /\ <<Len(blocks) + 1, start>> \in E
  /\ \A k, o \in Nat : <<k, o>> \in E =>
       \/ k = Len(blocks) + 1 /\ o = start
       \/ /\ k \in 1..Len(blocks) /\ o + blocks[k].raw <= start
          /\ BlockIs(blocks[k], Part(k, o)) /\ <<k + 1, o + blocks[k].raw>> \in E

\* The decoder is after the literals of a token.
AtMatch(a, f, n, l, d) ==
  /\ l # 0 /\ Piece(L!Payload, Part(current, Len(output)), a, f, n, l, d)
  /\ read = a + 1 + ExtraBytes(n) + n /\ Len(out) = f + n /\ token = L!Payload[a + 1]

\* The decoder is between two tokens, or after the literals of one.
Inside(D) ==
  /\ Plan(D, L!Payload, Part(current, Len(output)), L!Block.raw)
  /\ \A i \in 1..Len(out) : out[i] = Part(current, Len(output))[i]
  /\ Len(output) + L!Block.raw <= Len(input)
  /\ pc = "literals" => <<read, Len(out)>> \in D
  /\ pc = "match" =>
       \E a, f, n, l, d \in Nat :
         AtMatch(a, f, n, l, d) /\ <<a + Span(n, l), f + n + l>> \in D

\* The blocks and the tokens stand for the input before literalStart; what has
\* been decoded is the beginning of the input, and the decoder is at a place
\* that the encoder has planned.
LzExact ==
  written =>
    /\ pc # "failed"
    /\ pc = "encode" => position <= L!Size /\ \E D : Plan(D, tokens, L!Raw, literalStart)
    /\ pc # "encode" => start = Len(input) /\ declared = Len(input)
    /\ \E E : Places(E) /\ <<current, Len(output)>> \in E
    /\ \A i \in 1..Len(output) : output[i] = input[i]
    /\ pc \in {"literals", "match"} => \E D : Inside(D)
    /\ pc = "done" => output = input

\* The LZ77 codec starts with nothing planned.
LEMMA LzExactInit == L!Init => LzExact
<1> SUFFICES ASSUME L!Init, written PROVE LzExact
  BY DEF LzExact
<1>1. /\ start = 0 /\ position = 0 /\ literalStart = 0 /\ tokens = <<>>
      /\ current = 1 /\ output = <<>> /\ pc = "encode" /\ blocks = <<>>
  BY DEF L!Init
<1>2. Plan({<<0, 0>>}, tokens, L!Raw, literalStart)
  BY <1>1, NoPlan
<1>3. Places({<<1, 0>>}) /\ <<current, Len(output)>> \in {<<1, 0>>}
  BY <1>1 DEF Places
<1>4. position <= L!Size
  BY <1>1, LzInit, RawFacts
<1> QED
  BY <1>1, <1>2, <1>3, <1>4 DEF LzExact

\* A position without a match changes nothing that is planned.
LEMMA SkipExact == ASSUME LzInv, LzExact, L!SkipLiteral PROVE LzExact'
<1> SUFFICES ASSUME written PROVE LzExact'
  BY DEF LzExact, L!SkipLiteral
<1>1. /\ pc = "encode" /\ position' = position + 1 /\ position + MinMatch <= L!Size
      /\ UNCHANGED <<input, written, pc, start, literalStart, tokens, blocks, declared,
                     current, read, token, out, output>>
  BY DEF L!SkipLiteral, L!Scanning, L!decoder
<1>2. position' <= L!Size
  BY <1>1, WidthFacts, RawFacts DEF LzInv
<1>3. L!Raw' = L!Raw /\ L!Size' = L!Size
  BY <1>1 DEF L!Raw, L!Size
<1>4. \E D : Plan(D, tokens', L!Raw', literalStart')
  BY <1>1, <1>3 DEF LzExact
<1>5. \E E : Places(E)' /\ <<current', Len(output')>> \in E
  BY <1>1 DEF LzExact, Places, Part
<1> QED
  BY <1>1, <1>2, <1>3, <1>4, <1>5 DEF LzExact

\* A match is written: the plan has one piece more.
LEMMA EmitMatchExact == ASSUME LzInv, LzExact, L!EmitMatch PROVE LzExact'
<1> SUFFICES ASSUME written PROVE LzExact'
  BY DEF LzExact, L!EmitMatch
<1>1. /\ pc = "encode" /\ position + MinMatch <= L!Size /\ L!Found.length >= MinMatch
      /\ tokens' = tokens \o L!TokenSequence(SubSeq(L!Raw, literalStart + 1, position),
                                             L!Found.length, L!Found.distance)
      /\ position' = position + L!Found.length /\ literalStart' = position'
      /\ UNCHANGED <<input, written, pc, start, blocks, declared,
                     current, read, token, out, output>>
  BY DEF L!EmitMatch, L!Scanning, L!MatchHere, L!decoder
<1>2. /\ position \in Nat /\ literalStart \in 0..position /\ tokens \in L!Bytes
      /\ position <= L!Size /\ L!Raw \in L!Bytes /\ Len(L!Raw) = L!Size /\ L!Size \in Nat
  BY <1>1, WidthFacts, RawFacts DEF LzInv, L!TypeOK, LzExact
<1>3. PICK l \in Nat, d \in Nat :
        /\ l = L!Found.length /\ d = L!Found.distance
        /\ l >= MinMatch /\ l # 0 /\ d \in 1..position /\ d <= Window /\ l <= L!Size - position
        /\ \A i \in 1..l : L!Raw[position + i - d] = L!Raw[position + i]
  <2>1. L!Inserted \in Seq(Nat)
    <3>1. position + 1 \in Nat /\ position + 1 > position
      BY <1>2
    <3> QED
      BY <3>1, InsertedFacts
  <2>2. L!Found.length # 0
    <3>1. L!Found.length \in Nat
      BY <1>2, <2>1, SearchFacts DEF L!Found
    <3> QED
      BY <1>1, <3>1, WidthFacts
  <2>3. /\ L!Found.distance \in 1..position /\ L!Found.distance <= Window
        /\ L!Found.length \in Nat /\ L!Found.length <= L!Size - position
        /\ \A i \in 1..L!Found.length :
             L!Raw[position + i - L!Found.distance] = L!Raw[position + i]
    BY <1>2, <2>1, <2>2, SearchAgrees DEF L!Found
  <2>4. L!Found.distance \in Nat
    BY <2>3
  <2> QED
    BY <1>1, <2>2, <2>3, <2>4
<1>4. PICK f \in Nat, n \in Nat : f = literalStart /\ f + n = position
  <2>1. position - literalStart \in Nat /\ literalStart \in Nat
        /\ literalStart + (position - literalStart) = position
    BY <1>2
  <2> QED
    BY <2>1
<1>5. PICK t : t = L!TokenSequence(SubSeq(L!Raw, f + 1, f + n), l, d)
  OBVIOUS
<1>6. tokens' = tokens \o t
  BY <1>1, <1>3, <1>4, <1>5
<1>7. /\ t \in L!Bytes /\ Len(t) = Span(n, l) /\ tokens \o t \in L!Bytes
      /\ Len(tokens) + Span(n, l) = Len(tokens \o t)
      /\ Placed(tokens \o t, Len(tokens), L!Raw, f, n, l, d)
  <2>1. /\ tokens \in L!Bytes /\ L!Raw \in L!Bytes /\ f \in Nat /\ n \in Nat /\ l \in Nat /\ d \in Nat
        /\ f + n <= Len(L!Raw) /\ (l = 0 \/ l >= MinMatch) /\ d <= Window
    BY <1>2, <1>3, <1>4
  <2> QED
    <3>1. TokenWritten(tokens, L!Raw, f, n, l, d)
      BY ONLY <2>1, TokenIs
    <3> QED
      BY ONLY <1>5, <3>1 DEF TokenWritten
<1>8. f + n + l <= L!Size /\ n + l >= 1
  <2>1. l >= 1 /\ l <= L!Size - position
    BY <1>3
  <2> QED
    BY ONLY <1>2, <1>4, <2>1, l \in Nat
<1>9. Repeats(L!Raw, f + n, l, d)
  <2> SUFFICES ASSUME NEW i \in position + 1..position + l PROVE L!Raw[i] = L!Raw[i - d]
    BY <1>4 DEF Repeats
  <2>1. PICK j \in 1..l : j = i - position
    BY <1>2
  <2>2. position + j = i
    BY <1>2, <2>1
  <2>3. L!Raw[position + j - d] = L!Raw[position + j]
    BY <1>3
  <2> QED
    BY ONLY <1>2, <2>2, <2>3, j \in Nat, i \in Nat, d \in Nat
<1>10. Piece(tokens \o t, L!Raw, Len(tokens), f, n, l, d)
  <2>1. Len(tokens) + Span(n, l) <= Len(tokens \o t)
    <3>1. Len(tokens \o t) \in Nat
      BY <1>7, ByteFacts
    <3> QED
      BY <1>7, <3>1
  <2>2. f + n + l <= Len(L!Raw) /\ d \in 1..f + n
    BY <1>2, <1>3, <1>4, <1>8
  <2> QED
    BY <1>3, <1>7, <1>8, <1>9, <2>1, <2>2 DEF Piece
<1>11. PICK D : Plan(D, tokens, L!Raw, f)
  BY <1>1, <1>4 DEF LzExact
<1>12. Plan(D \cup {<<Len(tokens) + Span(n, l), f + n + l>>}, tokens \o t, L!Raw, f + n + l)
  BY <1>2, <1>7, <1>10, <1>11, PlanMore
<1>13. L!Raw' = L!Raw /\ L!Size' = L!Size
  BY <1>1 DEF L!Raw, L!Size
<1>14. f + n + l = literalStart' /\ position' <= L!Size
  BY <1>1, <1>3, <1>4, <1>8
<1>15. \E F : Plan(F, tokens', L!Raw', literalStart')
  BY <1>6, <1>12, <1>13, <1>14
<1>16. \E E : Places(E)' /\ <<current', Len(output')>> \in E
  BY <1>1 DEF LzExact, Places, Part
<1>17. /\ pc' # "failed" /\ pc' = "encode" /\ position' <= L!Size'
       /\ \A i \in 1..Len(output') : output'[i] = input'[i]
  BY <1>1, <1>13, <1>14 DEF LzExact
<1> QED
  BY <1>15, <1>16, <1>17 DEF LzExact

\* A block is complete, and its plan with it.
LEMMA EmitBlockExact == ASSUME LzInv, LzExact, L!EmitBlock PROVE LzExact'
<1> SUFFICES ASSUME written PROVE LzExact'
  BY DEF LzExact, L!EmitBlock
<1> DEFINE rest == IF literalStart < L!Size
                   THEN L!TokenSequence(SubSeq(L!Raw, literalStart + 1, L!Size), 0, 0) ELSE <<>>
           all == tokens \o rest
           block == [stored |-> Len(all) >= L!Size, raw |-> L!Size,
                     payload |-> IF Len(all) >= L!Size THEN L!Raw ELSE all]
<1>1. /\ pc = "encode" /\ blocks' = Append(blocks, block)
      /\ start < Len(input) /\ start' = start + L!Size
      /\ position' = 0 /\ literalStart' = 0 /\ tokens' = <<>>
      /\ UNCHANGED <<input, written, pc, declared, current, read, token, out, output>>
  BY DEF L!EmitBlock, L!decoder
<1>2. /\ position \in Nat /\ literalStart \in 0..position /\ tokens \in L!Bytes
      /\ position <= L!Size /\ L!Raw \in L!Bytes /\ Len(L!Raw) = L!Size /\ L!Size \in Nat
      /\ blocks \in Seq(LzBlock) /\ Len(blocks) \in Nat /\ start \in Nat /\ Len(input) \in Nat
      /\ start + L!Size <= Len(input) /\ input \in L!Bytes
  BY <1>1, RawFacts, ByteFacts DEF LzInv, L!TypeOK, LzExact
<1>3. PICK D : Plan(D, tokens, L!Raw, literalStart)
  BY <1>1 DEF LzExact
<1>4. \E F : Plan(F, all, L!Raw, L!Size)
  <2>1. CASE literalStart < L!Size
    <3>1. PICK f \in Nat, n \in Nat : f = literalStart /\ n = L!Size - f /\ f + n = L!Size /\ n >= 1
      <4>1. literalStart \in Nat /\ L!Size - literalStart \in Nat /\ L!Size - literalStart >= 1
            /\ literalStart + (L!Size - literalStart) = L!Size
        BY <1>2, <2>1
      <4> QED
        BY <4>1
    <3>2. TokenWritten(tokens, L!Raw, f, n, 0, 0)
      <4>1. /\ tokens \in L!Bytes /\ L!Raw \in L!Bytes /\ f \in Nat /\ n \in Nat /\ 0 \in Nat
            /\ f + n <= Len(L!Raw) /\ (0 = 0 \/ 0 >= MinMatch) /\ 0 <= Window
        <5>1. Window \in Nat
          BY Lz77Assumption, WidthFacts DEF L!WidthAssumption
        <5> QED
          BY <1>2, <3>1, <5>1
      <4> QED
        BY ONLY <4>1, TokenIs
    <3>3. PICK t : t = L!TokenSequence(SubSeq(L!Raw, f + 1, f + n), 0, 0)
      OBVIOUS
    <3>4. /\ t \in L!Bytes /\ Len(t) = Span(n, 0) /\ tokens \o t \in L!Bytes
          /\ Len(tokens) + Span(n, 0) = Len(tokens \o t)
          /\ Placed(tokens \o t, Len(tokens), L!Raw, f, n, 0, 0)
      BY ONLY <3>2, <3>3 DEF TokenWritten
    <3>5. all = tokens \o t
      BY <2>1, <3>1, <3>3
    <3>6. Piece(tokens \o t, L!Raw, Len(tokens), f, n, 0, 0)
      <4>1. Len(tokens) + Span(n, 0) <= Len(tokens \o t)
        <5>1. Len(tokens \o t) \in Nat
          BY <3>4, ByteFacts
        <5> QED
          BY <3>4, <5>1
      <4>2. f + n + 0 <= Len(L!Raw) /\ n + 0 >= 1 /\ f + n = Len(L!Raw)
        BY <1>2, <3>1
      <4> QED
        BY <3>4, <4>1, <4>2 DEF Piece
    <3>7. 0 \in Nat /\ Plan(D, tokens, L!Raw, f)
      BY <1>3, <3>1
    <3>8. Plan(D \cup {<<Len(tokens) + Span(n, 0), f + n + 0>>}, tokens \o t, L!Raw, f + n + 0)
      BY ONLY <1>2, <3>1, <3>4, <3>6, <3>7, PlanMore
    <3>9. f + n + 0 = L!Size
      BY <1>2, <3>1
    <3> QED
      BY <3>5, <3>8, <3>9
  <2>2. CASE ~(literalStart < L!Size)
    <3>1. literalStart = L!Size
      BY <1>2, <2>2
    <3>2. all = tokens
      <4>1. tokens \o <<>> = tokens
        BY <1>2 DEF L!Bytes
      <4> QED
        BY <2>2, <4>1
    <3> QED
      BY <1>3, <3>1, <3>2
  <2> QED
    BY <2>1, <2>2
<1> HIDE DEF all
<1>5. L!Size \in 1..BlockSize
  <2>1. PICK e \in Nat : e = L!Lesser(start + BlockSize, Len(input))
    BY <1>2, WidthFacts DEF L!Lesser
  <2>2. start < e /\ e <= start + BlockSize
    BY <1>1, <1>2, <2>1, WidthFacts DEF L!Lesser
  <2>3. start + (e - start) <= Len(input) /\ e - start \in Nat
    BY <1>1, <1>2, <2>1, <2>2, WidthFacts DEF L!Lesser
  <2>4. L!Size = e - start
    <3>1. Len(SubSeq(input, start + 1, start + (e - start))) = e - start
      BY <1>2, <2>3, PartIs
    <3>2. start + (e - start) = e
      BY <1>2
    <3> QED
      BY <2>1, <3>1, <3>2 DEF L!Raw, L!Size
  <2> QED
    BY <1>2, <2>2, <2>4, WidthFacts
<1>6. BlockIs(block, L!Raw)
  <2>1. CASE Len(all) >= L!Size
    BY <1>2, <1>5, <2>1 DEF BlockIs
  <2>2. CASE ~(Len(all) >= L!Size)
    <3>1. all \in L!Bytes
      <4>1. rest \in L!Bytes
        <5>1. literalStart < L!Size => SubSeq(L!Raw, literalStart + 1, L!Size) \in L!Bytes
          <6>1. literalStart \in Nat /\ L!Size <= Len(L!Raw)
            BY <1>2
          <6> QED
            BY ONLY <1>2, <6>1, BytesPart
        <5>2. 0 \in Nat /\ 0 \in Int /\ (0 = 0 \/ 0 >= MinMatch) /\ <<>> \in L!Bytes
          BY DEF L!Bytes
        <5> QED
          BY <5>1, <5>2, SequenceFacts
      <4> HIDE DEF rest
      <4> QED
        BY <1>2, <4>1, BytesJoin DEF all
    <3>2. Len(all) < L!Size
      BY <1>2, <2>2, <3>1, ByteFacts
    <3> QED
      BY <1>2, <1>4, <1>5, <2>2, <3>2 DEF BlockIs
  <2> QED
    BY <2>1, <2>2
<1>7. PICK b : b = block /\ BlockIs(b, L!Raw) /\ b.raw = L!Size
  BY <1>6
<1> HIDE DEF block
<1>8. PICK k \in Nat : k = Len(blocks)
  BY <1>2
<1>9. /\ Len(blocks') = k + 1 /\ blocks'[k + 1] = b
      /\ \A i \in 1..k : blocks'[i] = blocks[i]
  BY <1>1, <1>2, <1>7, <1>8
<1>10. L!Raw = SubSeq(input, start + 1, start + L!Size)
  <2>1. PICK e \in Nat : e = L!Lesser(start + BlockSize, Len(input)) /\ start <= e /\ e <= Len(input)
    BY <1>1, <1>2, WidthFacts DEF L!Lesser
  <2>2. Len(SubSeq(input, start + 1, start + (e - start))) = e - start
    <3>1. e - start \in Nat /\ start + (e - start) <= Len(input)
      BY <1>2, <2>1
    <3> QED
      BY <1>2, <3>1, PartIs
  <2>3. start + (e - start) = e
    BY <1>2
  <2>4. L!Raw = SubSeq(input, start + 1, e)
    BY <2>1 DEF L!Raw
  <2>5. L!Size = e - start
    BY <2>2, <2>3, <2>4 DEF L!Size
  <2>6. start + L!Size = e
    BY <1>2, <2>5
  <2> QED
    BY <2>4, <2>6
<1>11. PICK E : Places(E) /\ <<current, Len(output)>> \in E
  BY DEF LzExact
<1>12. PICK F : F = E \cup {<<k + 2, start + L!Size>>}
  OBVIOUS
<1>13. ASSUME NEW j \in Nat, NEW o \in Nat, <<j, o>> \in F
       PROVE  \/ j = k + 2 /\ o = start + L!Size
              \/ /\ j \in 1..k + 1 /\ o + blocks'[j].raw <= start + L!Size
                 /\ BlockIs(blocks'[j], Part(j, o)') /\ <<j + 1, o + blocks'[j].raw>> \in F
  <2>1. CASE <<j, o>> \in E /\ j = k + 1 /\ o = start
    <3>1. blocks'[j] = b /\ b.raw = L!Size /\ input' = input
      BY <1>1, <1>7, <1>9, <2>1
    <3>2. Part(j, o)' = L!Raw
      BY <1>10, <2>1, <3>1 DEF Part
    <3>3. <<j + 1, o + blocks'[j].raw>> \in F
      <4>1. j + 1 = k + 2 /\ o + blocks'[j].raw = start + L!Size
        BY <2>1, <3>1
      <4> QED
        BY <1>12, <4>1
    <3>4. o + blocks'[j].raw <= start + L!Size /\ j \in 1..k + 1
      BY <1>2, <2>1, <3>1
    <3> QED
      BY <1>7, <3>1, <3>2, <3>3, <3>4
  <2>2. CASE <<j, o>> \in E /\ ~(j = k + 1 /\ o = start)
    <3>1. /\ j \in 1..k /\ o + blocks[j].raw <= start
          /\ BlockIs(blocks[j], Part(j, o)) /\ <<j + 1, o + blocks[j].raw>> \in E
      BY <1>8, <1>11, <2>2 DEF Places
    <3>2. blocks'[j] = blocks[j] /\ input' = input
      BY <1>1, <1>9, <3>1
    <3>3. Part(j, o)' = Part(j, o)
      BY <3>2 DEF Part
    <3>4. blocks[j].raw \in Nat
      BY <3>1 DEF BlockIs
    <3>5. o + blocks'[j].raw <= start + L!Size /\ j \in 1..k + 1
      BY <1>2, <3>1, <3>2, <3>4
    <3> QED
      BY <1>12, <3>1, <3>2, <3>3, <3>5
  <2>3. CASE <<j, o>> = <<k + 2, start + L!Size>>
    BY <2>3
  <2> QED
    BY <1>12, <1>13, <2>1, <2>2, <2>3
<1>14. Places(F)'
  <2>1. F \subseteq Nat \X Nat /\ <<1, 0>> \in F /\ <<k + 2, start + L!Size>> \in F
    BY <1>2, <1>8, <1>11, <1>12 DEF Places
  <2>2. Len(blocks') + 1 = k + 2 /\ Len(blocks') = k + 1 /\ start' = start + L!Size
    BY <1>1, <1>9
  <2> QED
    BY <1>13, <2>1, <2>2 DEF Places
<1>15. <<current', Len(output')>> \in F
  BY <1>1, <1>11, <1>12
<1>16. position' <= L!Size'
  <2>1. L!Size' \in Nat
    <3>1. PICK s \in Nat, e \in Nat : s = start + L!Size /\ e = L!Lesser(s + BlockSize, Len(input))
                                    /\ e <= Len(input)
      <4>1. start + L!Size \in Nat
        BY <1>2
      <4>2. \A s \in Nat : L!Lesser(s + BlockSize, Len(input)) \in Nat
                           /\ L!Lesser(s + BlockSize, Len(input)) <= Len(input)
        BY <1>2, WidthFacts DEF L!Lesser
      <4> QED
        BY <4>1, <4>2
    <3>2. SubSeq(input, s + 1, e) \in L!Bytes
      BY <1>2, <3>1, BytesPart
    <3>3. L!Raw' = SubSeq(input, s + 1, e)
      BY <1>1, <3>1 DEF L!Raw, L!Lesser
    <3> QED
      BY <3>2, <3>3, ByteFacts DEF L!Size
  <2> QED
    BY <1>1, <2>1
<1>17. \E G : Plan(G, tokens', L!Raw', literalStart')
  BY <1>1, NoPlan
<1>18. /\ pc' # "failed" /\ pc' = "encode"
       /\ \A i \in 1..Len(output') : output'[i] = input'[i]
  BY <1>1 DEF LzExact
<1> QED
  BY <1>14, <1>15, <1>16, <1>17, <1>18 DEF LzExact

\* The whole input is encoded: the decoder starts at the first block.
LEMMA EncodeEndExact == ASSUME LzInv, LzExact, L!EncodeEnd PROVE LzExact'
<1> SUFFICES ASSUME written PROVE LzExact'
  BY DEF LzExact, L!EncodeEnd
<1>1. /\ pc = "encode" /\ declared' = Len(input) /\ pc' = "decode" /\ start = Len(input)
      /\ UNCHANGED <<input, written, start, position, literalStart, chain, tokens, blocks,
                     current, read, token, out, output>>
  BY DEF L!EncodeEnd, L!encoder, L!decoder
<1>2. \E E : Places(E)' /\ <<current', Len(output')>> \in E
  BY <1>1 DEF LzExact, Places, Part
<1> QED
  BY <1>1, <1>2 DEF LzExact

\* The block at the place where the decoder is.
LEMMA HereFacts ==
  ASSUME LzInv, LzExact, written, pc # "encode", NEW E, Places(E),
         <<current, Len(output)>> \in E, current <= Len(blocks)
  PROVE  /\ L!Block.raw \in 1..BlockSize /\ Len(output) + L!Block.raw <= Len(input)
         /\ BlockIs(L!Block, Part(current, Len(output)))
         /\ Part(current, Len(output)) \in L!Bytes
         /\ Len(Part(current, Len(output))) = L!Block.raw
         /\ \A i \in 1..L!Block.raw : Part(current, Len(output))[i] = input[Len(output) + i]
         /\ <<current + 1, Len(output) + L!Block.raw>> \in E
<1>1. /\ current \in Nat /\ Len(output) \in Nat /\ current # Len(blocks) + 1
      /\ start = Len(input) /\ Len(input) \in Nat /\ input \in L!Bytes
  <2>1. /\ current \in 1..Len(blocks) + 1 /\ output \in L!Bytes /\ input \in L!Bytes
        /\ blocks \in Seq(LzBlock) /\ Len(blocks) \in Nat
    BY DEF LzInv, L!TypeOK
  <2> QED
    BY <2>1, ByteFacts DEF LzExact
<1>2. PICK k \in Nat, o \in Nat : k = current /\ o = Len(output) /\ L!Block = blocks[k]
  BY <1>1 DEF L!Block
<1>3. /\ o + blocks[k].raw <= Len(input)
      /\ BlockIs(blocks[k], Part(k, o)) /\ <<k + 1, o + blocks[k].raw>> \in E
  BY <1>1, <1>2 DEF Places
<1>4. PICK w \in Nat : w = blocks[k].raw /\ w \in 1..BlockSize
  BY <1>3 DEF BlockIs
<1>5. /\ Part(k, o) \in L!Bytes /\ Len(Part(k, o)) = w
      /\ \A i \in 1..w : Part(k, o)[i] = input[o + i]
  <2>1. /\ SubSeq(input, o + 1, o + w) \in L!Bytes /\ Len(SubSeq(input, o + 1, o + w)) = w
        /\ \A i \in 1..w : SubSeq(input, o + 1, o + w)[i] = input[o + i]
    BY <1>1, <1>3, <1>4, PartIs
  <2> QED
    BY <1>4, <2>1 DEF Part
<1> QED
  BY <1>2, <1>3, <1>4, <1>5

\* The next block of the encoder is read.
LEMMA ReadBlockExact == ASSUME LzInv, LzExact, L!ReadBlock PROVE LzExact'
<1> SUFFICES ASSUME written PROVE LzExact'
  BY DEF LzExact, L!ReadBlock
<1>1. /\ pc = "decode" /\ current <= Len(blocks)
      /\ L!Block.stored \in BOOLEAN
      /\ read' = 0 /\ out' = <<>>
      /\ UNCHANGED <<input, written, start, position, literalStart, chain, tokens, blocks, declared, token>>
  BY DecodedBlock DEF L!ReadBlock, L!BlockComes, L!encoder, LzBlock
<1>2. \/ /\ L!Block.stored /\ output' = output \o L!Payload /\ current' = current + 1 /\ pc' = "decode"
      \/ /\ ~L!Block.stored /\ pc' = "literals" /\ output' = output /\ current' = current
  BY DEF L!ReadBlock, L!Deliver
<1>3. PICK E : Places(E) /\ <<current, Len(output)>> \in E
  BY DEF LzExact
<1>4. PICK r : r = Part(current, Len(output))
  OBVIOUS
<1>5. /\ L!Block.raw \in 1..BlockSize /\ Len(output) + L!Block.raw <= Len(input)
      /\ BlockIs(L!Block, r) /\ r \in L!Bytes /\ Len(r) = L!Block.raw
      /\ \A i \in 1..L!Block.raw : r[i] = input[Len(output) + i]
      /\ <<current + 1, Len(output) + L!Block.raw>> \in E
  BY <1>1, <1>3, <1>4, HereFacts
<1>6. Places(E)'
  BY <1>1, <1>3 DEF Places, Part
<1>7. output \in L!Bytes /\ Len(output) \in Nat /\ \A i \in 1..Len(output) : output[i] = input[i]
  BY ByteFacts DEF LzInv, L!TypeOK, LzExact
<1>8. start = Len(input) /\ declared = Len(input)
  BY <1>1 DEF LzExact
<1>9. CASE L!Block.stored
  <2>1. output' = output \o r /\ current' = current + 1 /\ pc' = "decode"
    BY <1>2, <1>5, <1>9 DEF BlockIs, L!Payload
  <2>2. Len(output') = Len(output) + Len(r)
    BY <1>5, <1>7, <2>1, BytesJoin
  <2>3. \A i \in 1..Len(output') : output'[i] = input[i]
    <3> SUFFICES ASSUME NEW i \in 1..Len(output') PROVE output'[i] = input[i]
      OBVIOUS
    <3>1. /\ \A j \in 1..Len(output) : output'[j] = output[j]
          /\ \A j \in 1..Len(r) : output'[Len(output) + j] = r[j]
      BY <1>5, <1>7, <2>1, JoinIs
    <3>2. CASE i <= Len(output)
      BY <1>7, <3>1, <3>2
    <3>3. CASE ~(i <= Len(output))
      <4>1. PICK j \in 1..Len(r) : Len(output) + j = i
        <5>1. i - Len(output) \in 1..Len(r) /\ Len(output) + (i - Len(output)) = i
          BY <1>5, <1>7, <2>2, <3>3
        <5> QED
          BY <5>1
      <4> QED
        BY <1>5, <3>1, <4>1
    <3> QED
      BY <3>2, <3>3
  <2>4. <<current', Len(output')>> \in E
    BY <1>5, <2>1, <2>2
  <2> QED
    BY <1>1, <1>6, <1>8, <2>1, <2>3, <2>4 DEF LzExact
<1>10. CASE ~L!Block.stored
  <2>1. pc' = "literals" /\ output' = output /\ current' = current
    BY <1>2, <1>10
  <2>2. PICK D : Plan(D, L!Payload, r, Len(r))
    BY <1>5, <1>10 DEF BlockIs, L!Payload
  <2>3. /\ L!Payload' = L!Payload /\ L!Block' = L!Block
        /\ Part(current, Len(output))' = r
    BY <1>1, <1>4, <2>1 DEF L!Payload, L!Block, Part
  <2>4. Inside(D)'
    <3>1. Len(out') = 0 /\ <<read', Len(out')>> \in D
      BY <1>1, <2>2 DEF Plan
    <3>2. L!Payload' = L!Payload /\ L!Block'.raw = Len(r)
      BY <1>5, <2>3
    <3> QED
      BY <1>1, <1>5, <2>1, <2>2, <2>3, <3>1, <3>2 DEF Inside
  <2>5. <<current', Len(output')>> \in E
    BY <1>3, <2>1
  <2> QED
    BY <1>1, <1>6, <1>7, <1>8, <2>1, <2>4, <2>5 DEF LzExact
<1> QED
  BY <1>1, <1>9, <1>10

\* What is left alone while a block is decoded.
LEMMA StaysInside ==
  ASSUME LzInv, LzExact, written, pc \in {"literals", "match"}, pc' \in {"literals", "match"},
         UNCHANGED <<input, written, start, position, literalStart, chain, tokens, blocks, declared,
                     current, output>>,
         NEW D, Inside(D)'
  PROVE  LzExact'
<1>1. PICK E : Places(E) /\ <<current, Len(output)>> \in E
  BY DEF LzExact
<1>2. Places(E)' /\ <<current', Len(output')>> \in E
  BY <1>1 DEF Places, Part
<1> QED
  BY <1>2 DEF LzExact

\* The decoder in a block, and the next token.
LEMMA InsideIs ==
  ASSUME LzInv, LzExact, written, pc \in {"literals", "match"}, NEW D, Inside(D)
  PROVE  /\ Part(current, Len(output)) \in L!Bytes
         /\ Len(Part(current, Len(output))) = L!Block.raw
         /\ Plan(D, L!Payload, Part(current, Len(output)), Len(Part(current, Len(output))))
         /\ L!Payload \in L!Bytes /\ out \in L!Bytes /\ read \in Nat
         /\ L!Block.raw \in 1..BlockSize /\ Len(out) \in Nat /\ Len(L!Payload) \in Nat
         /\ Len(out) <= L!Block.raw
         /\ \A i \in 1..Len(out) : out[i] = Part(current, Len(output))[i]
<1>1. PICK E : Places(E) /\ <<current, Len(output)>> \in E
  BY DEF LzExact
<1>2. /\ current <= Len(blocks) /\ L!Payload \in L!Bytes /\ out \in L!Bytes /\ read \in Nat
      /\ Len(out) \in Nat /\ Len(L!Payload) \in Nat /\ Len(out) <= L!Block.raw
  BY InsideFacts
<1>3. /\ Part(current, Len(output)) \in L!Bytes /\ Len(Part(current, Len(output))) = L!Block.raw
      /\ L!Block.raw \in 1..BlockSize
  BY <1>1, <1>2, HereFacts
<1>4. /\ Plan(D, L!Payload, Part(current, Len(output)), L!Block.raw)
      /\ \A i \in 1..Len(out) : out[i] = Part(current, Len(output))[i]
  BY DEF Inside
<1> QED
  BY <1>2, <1>3, <1>4

\* The token at a place of the plan can be read, and no other.
LEMMA LiteralsAreThere ==
  ASSUME LzInv, LzExact, written, pc = "literals", NEW D, Inside(D),
         NEW n \in Nat, NEW l \in Nat, NEW d \in Nat,
         Piece(L!Payload, Part(current, Len(output)), read, Len(out), n, l, d)
  PROVE  /\ L!LiteralsAre(n, ExtraBytes(n)) /\ n \in L!Lengths /\ ExtraBytes(n) \in L!Extras
         /\ \A v, m \in Nat : L!LiteralsAre(v, m) => v = n /\ m = ExtraBytes(n)
<1>0. PICK r : r = Part(current, Len(output))
  OBVIOUS
<1>1. PICK p \in L!Bytes, k \in Nat, w \in 1..BlockSize :
        /\ p = L!Payload /\ k = Len(out) /\ w = L!Block.raw /\ w = Len(r) /\ r \in L!Bytes
        /\ read \in Nat /\ Len(p) \in Nat /\ k <= w
  BY <1>0, InsideIs
<1>2. /\ n + l >= 1 /\ k + n + l <= w /\ read + Span(n, l) <= Len(p)
      /\ l = 0 \/ l >= MinMatch
      /\ Placed(p, read, r, k, n, l, d)
  BY <1>0, <1>1 DEF Piece
<1>3. PICK x \in Nat, c \in Nat : x = ExtraBytes(n) /\ c = Code(l) /\ x <= n /\ Span(n, l) >= 1 + x + n
                                  /\ Span(n, l) \in Nat
  BY <1>2, SpanFacts
<1>10. /\ k < w /\ Len(p) - read >= 1 /\ read + 1 + x + n <= Len(p) /\ n <= w - k
       /\ n <= w /\ n <= BlockSize /\ x <= BlockSize
  <2>1. PICK z \in Nat, s \in Nat : z = Len(p) /\ s = Span(n, l)
    BY <1>1, <1>3
  <2>2. /\ n + l >= 1 /\ k + n + l <= w /\ read + s <= z /\ x <= n /\ s >= 1 + x + n
        /\ w \in Nat /\ w <= BlockSize /\ BlockSize \in Nat /\ read \in Nat
    BY <1>1, <1>2, <1>3, <2>1, WidthFacts
  <2>3. k < w /\ z - read >= 1 /\ read + 1 + x + n <= z /\ n <= w - k /\ n <= w
        /\ n <= BlockSize /\ x <= BlockSize
    BY ONLY <2>2, z \in Nat, s \in Nat, x \in Nat, n \in Nat, l \in Nat, k \in Nat
  <2> QED
    BY <2>1, <2>3
<1>4. /\ p[read + 1] = L!Lesser(n, L!Full) * Nibble + L!Lesser(c, L!Full)
      /\ CodedAt(p, read + 1, n)
  BY <1>2, <1>3 DEF Placed
<1>5. p[read + 1] \div Nibble = L!Lesser(n, L!Full)
  <2>1. L!Lesser(n, L!Full) \in 0..L!Full /\ L!Lesser(c, L!Full) \in 0..L!Full
    BY <1>3, WidthFacts DEF L!Lesser
  <2> QED
    BY <1>4, <2>1, NibblesOf
<1>6. \A v, m \in Nat : L!ReadLength(L!Lesser(n, L!Full), read + 1, v, m) <=> v = n /\ m = x
  <2>1. /\ read + 1 \in Nat /\ L!Payload \in L!Bytes /\ L!Block.raw \in Nat /\ n <= L!Block.raw
        /\ read + 1 + ExtraBytes(n) <= Len(L!Payload) /\ CodedAt(L!Payload, read + 1, n)
    <3>1. read + 1 \in Nat /\ read + 1 + x <= Len(p)
      <4>1. PICK z \in Nat : z = Len(p) /\ read + 1 + x + n <= z
        BY <1>1, <1>10
      <4>2. read + 1 + x <= z /\ read + 1 \in Nat
        BY ONLY <1>1, <4>1, x \in Nat, n \in Nat, z \in Nat
      <4> QED
        BY <4>1, <4>2
    <3>2. L!Block.raw \in Nat /\ n <= L!Block.raw
      BY <1>1, <1>10
    <3> QED
      BY <1>1, <1>3, <1>4, <3>1, <3>2
  <2>2. \A v, m \in Nat : L!ReadLength(L!Lesser(n, L!Full), read + 1, v, m) <=> v = n /\ m = ExtraBytes(n)
    BY ONLY <2>1, n \in Nat, ReadsOnly
  <2> QED
    BY <1>3, <2>2
<1>7. \A v, m \in Nat : L!LiteralsAre(v, m) => v = n /\ m = x
  BY <1>1, <1>5, <1>6 DEF L!LiteralsAre
<1>8. L!LiteralsAre(n, x)
  <2>1. k < w /\ Len(p) - read >= 1 /\ read + 1 + x + n <= Len(p) /\ n <= w - k
    BY <1>10
  <2>2. L!ReadLength(L!Lesser(n, L!Full), read + 1, n, x)
    BY <1>6
  <2> QED
    BY <1>1, <1>5, <2>1, <2>2 DEF L!LiteralsAre, L!Left, L!Fits
<1>9. n \in 0..BlockSize /\ x \in 0..BlockSize
  BY <1>10, WidthFacts
<1> QED
  BY <1>3, <1>7, <1>8, <1>9 DEF L!Lengths, L!Extras

\* So can the match after the literals.
MatchReads(a, n, l, d) ==
  /\ L!MatchIs(Code(l), ExtraBytes(Code(l))) /\ Code(l) \in L!Lengths
  /\ ExtraBytes(Code(l)) \in L!Extras /\ Code(l) + MinMatch = l
  /\ L!DistanceAt(read + ExtraBytes(Code(l))) = d
  /\ read + ExtraBytes(Code(l)) + 2 = a + Span(n, l)
  /\ \A v, m \in Nat : L!MatchIs(v, m) => v = Code(l) /\ m = ExtraBytes(Code(l))

\* At a match of the plan the decoder reads its distance and its length.
LEMMA MatchIsThere ==
  ASSUME LzInv, LzExact, written, pc = "match", NEW D, Inside(D),
         NEW a \in Nat, NEW f \in Nat, NEW n \in Nat, NEW l \in Nat, NEW d \in Nat,
         AtMatch(a, f, n, l, d)
  PROVE  MatchReads(a, n, l, d)
<1>0. PICK r : r = Part(current, Len(output))
  OBVIOUS
<1>00. /\ l # 0 /\ Piece(L!Payload, r, a, f, n, l, d)
       /\ read = a + 1 + ExtraBytes(n) + n /\ Len(out) = f + n /\ token = L!Payload[a + 1]
  BY <1>0 DEF AtMatch
<1>1. PICK p \in L!Bytes, k \in Nat, w \in 1..BlockSize :
        /\ p = L!Payload /\ k = Len(out) /\ w = L!Block.raw /\ w = Len(r) /\ r \in L!Bytes
        /\ read \in Nat /\ Len(p) \in Nat /\ k <= w
  BY <1>0, InsideIs
<1>2. /\ f + n + l <= w /\ a + Span(n, l) <= Len(p) /\ l >= MinMatch /\ d \in 1..f + n
      /\ Placed(p, a, r, f, n, l, d)
  BY <1>00, <1>1 DEF Piece
<1>3. PICK x \in Nat, c \in Nat, y \in Nat, s \in Nat :
        /\ x = ExtraBytes(n) /\ c = Code(l) /\ y = ExtraBytes(c) /\ c <= l /\ y <= l
        /\ s = Span(n, l) /\ s = 1 + x + n + y + 2
  <2>1. /\ Code(l) \in Nat /\ Code(l) <= l /\ ExtraBytes(n) \in Nat
        /\ ExtraBytes(Code(l)) \in Nat /\ ExtraBytes(Code(l)) <= l
        /\ Span(n, l) \in Nat /\ Span(n, l) = 1 + ExtraBytes(n) + n + ExtraBytes(Code(l)) + 2
    BY <1>00, <1>2, SpanFacts
  <2> QED
    BY ONLY <2>1
<1>4. c + MinMatch = l
  BY <1>00, <1>2, <1>3, WidthFacts DEF Code
<1>5. /\ p[a + 1] = L!Lesser(n, L!Full) * Nibble + L!Lesser(c, L!Full)
      /\ CodedAt(p, read, c) /\ p[read + y + 1] + p[read + y + 2] * L!Byte = d
  BY <1>00, <1>2, <1>3 DEF Placed
<1>6. token % Nibble = L!Lesser(c, L!Full)
  <2>1. L!Lesser(n, L!Full) \in 0..L!Full /\ L!Lesser(c, L!Full) \in 0..L!Full
    BY ONLY <1>3, c \in Nat, n \in Nat, WidthFacts DEF L!Lesser
  <2> QED
    BY <1>00, <1>1, <1>5, <2>1, NibblesOf
<1>7. read + y + 2 = a + s /\ read + y + 2 <= Len(p)
  <2>1. read = a + 1 + x + n
    BY <1>00, <1>3
  <2>2. a + s <= Len(p) /\ s = 1 + x + n + y + 2 /\ Len(p) \in Nat
    BY <1>1, <1>2, <1>3
  <2> QED
    BY ONLY <2>1, <2>2, a \in Nat, n \in Nat, x \in Nat, y \in Nat
<1>8. \A v, m \in Nat : L!ReadLength(L!Lesser(c, L!Full), read, v, m) <=> v = c /\ m = y
  <2>1. /\ read \in Nat /\ L!Payload \in L!Bytes /\ L!Block.raw \in Nat /\ c <= L!Block.raw
        /\ read + ExtraBytes(c) <= Len(L!Payload) /\ CodedAt(L!Payload, read, c)
    <3>1. c <= w /\ read + y <= Len(p)
      <4>1. f + n + l <= w /\ c <= l /\ read + y + 2 <= Len(p) /\ Len(p) \in Nat /\ read \in Nat
            /\ w \in Nat
        BY <1>1, <1>2, <1>3, <1>7, WidthFacts
      <4> QED
        BY ONLY <4>1, c \in Nat, y \in Nat, f \in Nat, n \in Nat, l \in Nat
    <3> QED
      BY <1>1, <1>3, <1>5, <3>1
  <2>2. \A v, m \in Nat : L!ReadLength(L!Lesser(c, L!Full), read, v, m) <=> v = c /\ m = ExtraBytes(c)
    BY ONLY <2>1, c \in Nat, ReadsOnly
  <2> QED
    BY <1>3, <2>2
<1>9. L!DistanceAt(read + y) = d
  BY <1>1, <1>5 DEF L!DistanceAt
<1>10. \A v, m \in Nat : L!MatchIs(v, m) => v = c /\ m = y
  BY <1>6, <1>8 DEF L!MatchIs
<1>11. L!MatchIs(c, y)
  <2>1. c + MinMatch <= w - k
    BY <1>00, <1>1, <1>2, <1>4
  <2>2. L!ReadLength(L!Lesser(c, L!Full), read, c, y)
    BY <1>8
  <2> QED
    <3>1. read + y + 2 <= Len(L!Payload) /\ L!DistanceAt(read + y) \in 1..Len(out)
      BY <1>00, <1>1, <1>2, <1>7, <1>9
    <3> QED
      BY <1>1, <1>6, <2>1, <2>2, <3>1 DEF L!MatchIs, L!Fits
<1>12. c \in 0..BlockSize /\ y \in 0..BlockSize
  <2>1. f + n + l <= w /\ c <= l /\ y <= l /\ w <= BlockSize /\ w \in Nat /\ BlockSize \in Nat
    BY <1>1, <1>2, <1>3, WidthFacts
  <2> QED
    BY ONLY <2>1, c \in Nat, y \in Nat, f \in Nat, n \in Nat, l \in Nat
<1> QED
  BY <1>3, <1>4, <1>7, <1>9, <1>10, <1>11, <1>12
     DEF MatchReads, L!Lengths, L!Extras

\* The literals of a piece are copied.
LEMMA DecodeLiteralsExact == ASSUME LzInv, LzExact, L!DecodeLiterals PROVE LzExact'
<1> SUFFICES ASSUME written PROVE LzExact'
  BY DEF LzExact, L!DecodeLiterals
<1>1. PICK v \in L!Lengths, m \in L!Extras :
        /\ L!LiteralsAre(v, m)
        /\ out' = out \o SubSeq(L!Payload, read + 1 + m + 1, read + 1 + m + v)
        /\ read' = read + 1 + m + v
  BY DEF L!DecodeLiterals
<1>2. /\ token' = L!Payload[read + 1]
      /\ pc' = IF Len(out') = L!Block.raw THEN "literals" ELSE "match"
      /\ UNCHANGED <<input, written, start, position, literalStart, chain, tokens, blocks, declared, current, output>>
  <2>1. L!Block'.raw = L!Block.raw
    BY DEF L!DecodeLiterals, L!Block
  <2> QED
    BY <2>1 DEF L!DecodeLiterals, L!encoder
<1>3. pc = "literals" /\ v \in Nat /\ m \in Nat
  BY <1>1, WidthFacts DEF L!LiteralsAre, L!Lengths, L!Extras
<1>4. PICK D : Inside(D)
  BY <1>3 DEF LzExact
<1>5. PICK r : r = Part(current, Len(output))
  OBVIOUS
<1>6. PICK p \in L!Bytes, k \in Nat, w \in 1..BlockSize :
        /\ p = L!Payload /\ k = Len(out) /\ w = L!Block.raw /\ w = Len(r) /\ r \in L!Bytes
        /\ read \in Nat /\ Len(p) \in Nat /\ k <= w /\ out \in L!Bytes
        /\ Plan(D, p, r, Len(r)) /\ \A i \in 1..k : out[i] = r[i]
  BY <1>3, <1>4, <1>5, InsideIs
<1>7. <<read, k>> \in D /\ k < w
  BY <1>1, <1>3, <1>4, <1>6 DEF Inside, L!LiteralsAre
<1>8. PICK n \in Nat, l \in Nat, d \in Nat :
        Piece(p, r, read, k, n, l, d) /\ <<read + Span(n, l), k + n + l>> \in D
  <2>1. /\ p \in L!Bytes /\ r \in L!Bytes /\ Plan(D, p, r, Len(r)) /\ read \in Nat /\ k \in Nat
        /\ <<read, k>> \in D /\ k # Len(r)
    BY <1>6, <1>7
  <2> QED
    BY ONLY <2>1, PlanNext
<1>9. v = n /\ m = ExtraBytes(n)
  <2>1. Piece(L!Payload, Part(current, Len(output)), read, Len(out), n, l, d)
    BY <1>5, <1>6, <1>8
  <2> QED
    BY <1>1, <1>3, <1>4, <2>1, LiteralsAreThere
<1>10. PICK x \in Nat : x = ExtraBytes(n)
  BY <1>3, <1>9
<1>11. /\ n + l >= 1 /\ k + n + l <= w /\ read + Span(n, l) <= Len(p)
       /\ l = 0 \/ l >= MinMatch
       /\ l = 0 => k + n = w
       /\ \A i \in 1..n : p[read + 1 + x + i] = r[k + i]
  BY <1>6, <1>8, <1>10 DEF Piece, Placed
<1>12. /\ Span(n, l) >= 1 + x + n /\ Span(n, l) \in Nat
       /\ l = 0 => Span(n, l) = 1 + x + n
  BY <1>10, <1>11, SpanFacts
<1>13. PICK from \in Nat : from = read + 1 + x /\ from + n <= Len(p)
  BY <1>6, <1>11, <1>12
<1>14. PICK s : s = SubSeq(p, from + 1, from + n)
  OBVIOUS
<1>15. s \in L!Bytes /\ Len(s) = n /\ \A i \in 1..n : s[i] = p[from + i]
  <2>1. /\ SubSeq(p, from + 1, from + n) \in L!Bytes /\ Len(SubSeq(p, from + 1, from + n)) = n
        /\ \A i \in 1..n : SubSeq(p, from + 1, from + n)[i] = p[from + i]
    BY <1>13, PartIs
  <2> QED
    BY <1>14, <2>1
<1>16. out' = out \o s /\ read' = from + n
  BY <1>1, <1>6, <1>9, <1>10, <1>13, <1>14
<1>17. Len(out') = k + n /\ \A i \in 1..k + n : out'[i] = r[i]
  <2>1. /\ Len(out') = Len(out) + Len(s)
        /\ \A i \in 1..Len(out) : out'[i] = out[i]
        /\ \A i \in 1..Len(s) : out'[Len(out) + i] = s[i]
    <3>1. /\ Len(out \o s) = Len(out) + Len(s)
          /\ \A i \in 1..Len(out) : (out \o s)[i] = out[i]
          /\ \A i \in 1..Len(s) : (out \o s)[Len(out) + i] = s[i]
      BY <1>6, <1>15, BytesJoin, JoinIs
    <3> QED
      BY <1>16, <3>1
  <2>2. \A i \in 1..n : out'[k + i] = r[k + i]
    BY <1>6, <1>11, <1>13, <1>15, <2>1
  <2>3. ASSUME NEW i \in 1..k + n PROVE out'[i] = r[i]
    <3>1. CASE i <= k
      BY <1>6, <2>1, <3>1
    <3>2. CASE ~(i <= k)
      <4>1. PICK j \in 1..n : k + j = i
        <5>1. i - k \in 1..n /\ k + (i - k) = i
          BY <3>2
        <5> QED
          BY <5>1
      <4> QED
        BY <2>2, <4>1
    <3> QED
      BY <3>1, <3>2
  <2> QED
    BY <1>6, <1>15, <2>1, <2>3
<1>18. L!Payload' = p /\ L!Block'.raw = w /\ Part(current, Len(output))' = r
  BY <1>2, <1>5, <1>6 DEF L!Payload, L!Block, Part
<1>19. pc' = "literals" => <<read', Len(out')>> \in D
  <2> SUFFICES ASSUME pc' = "literals" PROVE <<read', Len(out')>> \in D
    OBVIOUS
  <2>1. k + n = w
    BY <1>2, <1>6, <1>17
  <2>2. l = 0
    BY <1>6, <1>11, <2>1
  <2>3. read' = read + Span(n, l) /\ Len(out') = k + n + l
    BY <1>6, <1>12, <1>13, <1>16, <1>17, <2>2
  <2> QED
    BY <1>8, <2>3
<1>20. pc' = "match" => l # 0
  BY <1>2, <1>6, <1>11, <1>17
<1>21. read' = read + 1 + ExtraBytes(n) + n /\ token' = p[read + 1]
  BY <1>2, <1>6, <1>10, <1>13, <1>16
<1>22. Inside(D)'
  <2>1. /\ Plan(D, p, r, w) /\ Len(output) + w <= Len(input)
    BY <1>4, <1>6 DEF Inside
  <2>2. pc' = "match" =>
          /\ l # 0 /\ Piece(L!Payload', Part(current, Len(output))', read, k, n, l, d)
          /\ <<read + Span(n, l), k + n + l>> \in D
          /\ read' = read + 1 + ExtraBytes(n) + n /\ Len(out') = k + n
          /\ token' = L!Payload'[read + 1]
    BY <1>6, <1>8, <1>17, <1>18, <1>20, <1>21
  <2>3. \A i \in 1..Len(out') : out'[i] = r[i]
    BY <1>17
  <2> QED
    BY <1>2, <1>6, <1>18, <1>19, <2>1, <2>2, <2>3 DEF Inside, AtMatch
<1>23. pc' \in {"literals", "match"}
  BY <1>2
<1> QED
  BY <1>2, <1>3, <1>22, <1>23, StaysInside

\* The match of a piece is copied.
LEMMA DecodeMatchExact == ASSUME LzInv, LzExact, L!DecodeMatch PROVE LzExact'
<1> SUFFICES ASSUME written PROVE LzExact'
  BY DEF LzExact, L!DecodeMatch
<1>1. PICK v \in L!Lengths, m \in L!Extras :
        /\ L!MatchIs(v, m)
        /\ out' = L!Copied(v + MinMatch, L!DistanceAt(read + m))
        /\ read' = read + m + 2
  BY DEF L!DecodeMatch
<1>2. /\ pc' = "literals"
      /\ UNCHANGED <<input, written, start, position, literalStart, chain, tokens, blocks, declared,
                     current, token, output>>
  BY DEF L!DecodeMatch, L!encoder
<1>3. pc = "match" /\ v \in Nat /\ m \in Nat
  BY <1>1, WidthFacts DEF L!MatchIs, L!Lengths, L!Extras
<1>4. PICK D : Inside(D)
  BY <1>3 DEF LzExact
<1>5. PICK r : r = Part(current, Len(output))
  OBVIOUS
<1>6. PICK p \in L!Bytes, k \in Nat, w \in 1..BlockSize :
        /\ p = L!Payload /\ k = Len(out) /\ w = L!Block.raw /\ w = Len(r) /\ r \in L!Bytes
        /\ read \in Nat /\ Len(p) \in Nat /\ k <= w /\ out \in L!Bytes
        /\ Plan(D, p, r, Len(r)) /\ \A i \in 1..k : out[i] = r[i]
  BY <1>3, <1>4, <1>5, InsideIs
<1>7. PICK a \in Nat, f \in Nat, n \in Nat, l \in Nat, d \in Nat :
        /\ AtMatch(a, f, n, l, d) /\ <<a + Span(n, l), f + n + l>> \in D
        /\ l # 0 /\ Piece(p, r, a, f, n, l, d)
        /\ read = a + 1 + ExtraBytes(n) + n /\ k = f + n /\ token = p[a + 1]
  <2>1. PICK a \in Nat, f \in Nat, n \in Nat, l \in Nat, d \in Nat :
          AtMatch(a, f, n, l, d) /\ <<a + Span(n, l), f + n + l>> \in D
    BY ONLY <1>3, <1>4 DEF Inside
  <2>2. /\ l # 0 /\ Piece(p, r, a, f, n, l, d) /\ read = a + 1 + ExtraBytes(n) + n
        /\ Len(out) = f + n /\ token = p[a + 1]
    BY ONLY <1>5, <1>6, <2>1, Zenon DEF AtMatch
  <2> QED
    BY ONLY <1>6, <2>1, <2>2, Zenon
<1>8. /\ v = Code(l) /\ m = ExtraBytes(Code(l)) /\ v + MinMatch = l
      /\ L!DistanceAt(read + m) = d /\ read + m + 2 = a + Span(n, l)
  <2> QED
    <3>1. MatchReads(a, n, l, d)
      BY <1>3, <1>4, <1>7, MatchIsThere
    <3>2. v = Code(l) /\ m = ExtraBytes(Code(l))
      BY <1>1, <1>3, <3>1 DEF MatchReads
    <3> QED
      BY <3>1, <3>2 DEF MatchReads
<1>9. out' = L!Copied(l, d) /\ read' = a + Span(n, l)
  BY <1>1, <1>8
<1>10. d \in 1..k /\ k + l <= Len(r) /\ Repeats(r, k, l, d)
  BY <1>6, <1>7 DEF Piece
<1>11. \A i \in 1..k + l : out'[i] = r[i]
  <2>1. \A i \in 1..k + l : L!Copied(l, d)[i] = r[i]
    <3>1. /\ r \in L!Bytes /\ k \in Nat /\ l \in Nat /\ d \in 1..k /\ k + l <= Len(r)
          /\ out \in L!Bytes /\ Len(out) = k /\ Agree(out, r, k)
          /\ Repeats(r, k, l, d)
      BY <1>6, <1>10 DEF Agree
    <3>2. Agree(L!Copied(l, d), r, k + l)
      BY ONLY <3>1, CopiedIs
    <3> QED
      BY <3>2 DEF Agree
  <2> QED
    BY <1>9, <2>1
<1>12. Len(out') = k + l
  <2>1. d \in 1..Len(out)
    BY <1>6, <1>10
  <2>2. Len(L!Copied(l, d)) = Len(out) + l
    BY <1>6, <2>1, CopiedFacts
  <2> QED
    BY <1>6, <1>9, <2>2
<1>13. L!Payload' = p /\ L!Block'.raw = w /\ Part(current, Len(output))' = r
  BY <1>2, <1>5, <1>6 DEF L!Payload, L!Block, Part
<1>14. Inside(D)'
  <2>1. Plan(D, p, r, w) /\ Len(output) + w <= Len(input)
    BY <1>4, <1>6 DEF Inside
  <2>2. <<read', Len(out')>> \in D
    BY <1>7, <1>9, <1>12
  <2> QED
    BY <1>2, <1>11, <1>12, <1>13, <2>1, <2>2 DEF Inside
<1> QED
  BY <1>2, <1>3, <1>14, StaysInside

\* A block is decoded to the part of the input it stands for.
LEMMA FinishBlockExact == ASSUME LzInv, LzExact, L!FinishBlock PROVE LzExact'
<1> SUFFICES ASSUME written PROVE LzExact'
  BY DEF LzExact, L!FinishBlock
<1>1. /\ pc = "literals" /\ Len(out) = L!Block.raw
      /\ output' = output \o out /\ current' = current + 1 /\ pc' = "decode"
      /\ UNCHANGED <<input, written, start, position, literalStart, chain, tokens, blocks, declared,
                     read, token, out>>
  BY DEF L!FinishBlock, L!BlockIsComplete, L!Deliver, L!encoder
<1>2. PICK E : Places(E) /\ <<current, Len(output)>> \in E
  BY DEF LzExact
<1>3. PICK D : Inside(D)
  BY <1>1 DEF LzExact
<1>4. PICK r : r = Part(current, Len(output))
  OBVIOUS
<1>5. out \in L!Bytes /\ \A i \in 1..Len(out) : out[i] = r[i]
  BY <1>1, <1>3, <1>4, InsideIs
<1>6. /\ <<current + 1, Len(output) + Len(out)>> \in E
      /\ \A i \in 1..Len(out) : r[i] = input[Len(output) + i]
  <2>1. current <= Len(blocks)
    BY <1>1, InsideFacts
  <2> QED
    BY <1>1, <1>2, <1>4, <2>1, HereFacts
<1>7. output \in L!Bytes /\ Len(output) \in Nat /\ Len(out) \in Nat
      /\ \A i \in 1..Len(output) : output[i] = input[i]
  BY <1>5, ByteFacts DEF LzInv, L!TypeOK, LzExact
<1>8. Len(output') = Len(output) + Len(out)
  BY <1>1, <1>5, <1>7, BytesJoin
<1>9. \A i \in 1..Len(output') : output'[i] = input[i]
  <2> SUFFICES ASSUME NEW i \in 1..Len(output') PROVE output'[i] = input[i]
    OBVIOUS
  <2>1. /\ \A j \in 1..Len(output) : output'[j] = output[j]
        /\ \A j \in 1..Len(out) : output'[Len(output) + j] = out[j]
    BY <1>1, <1>5, <1>7, JoinIs
  <2>2. CASE i <= Len(output)
    BY <1>7, <2>1, <2>2
  <2>3. CASE ~(i <= Len(output))
    <3>1. PICK j \in 1..Len(out) : Len(output) + j = i
      <4>1. i - Len(output) \in 1..Len(out) /\ Len(output) + (i - Len(output)) = i
        BY <1>7, <1>8, <2>3
      <4> QED
        BY <4>1
    <3> QED
      BY <1>5, <1>6, <2>1, <3>1
  <2> QED
    BY <2>2, <2>3
<1>10. Places(E)' /\ <<current', Len(output')>> \in E
  BY <1>1, <1>2, <1>6, <1>8 DEF Places, Part
<1>11. start = Len(input) /\ declared = Len(input)
  BY <1>1 DEF LzExact
<1> QED
  BY <1>1, <1>9, <1>10, <1>11 DEF LzExact

\* The decoder accepts: the output is the input.
LEMMA DecodeEndExact == ASSUME LzInv, LzExact, L!DecodeEnd PROVE LzExact'
<1> SUFFICES ASSUME written PROVE LzExact'
  BY DEF LzExact, L!DecodeEnd
<1>1. /\ pc = "decode" /\ pc' = "done" /\ Len(output) >= declared
      /\ UNCHANGED <<input, written, start, position, literalStart, chain, tokens, blocks, declared,
                     current, read, token, out, output>>
  BY DEF L!DecodeEnd, L!StreamIsComplete, L!encoder, L!decoder
<1>2. output \in L!Bytes /\ input \in L!Bytes /\ Len(output) <= declared
      /\ declared = Len(input) /\ Len(output) \in Nat /\ declared \in Nat
  BY <1>1, ByteFacts DEF LzInv, L!TypeOK, LzExact
<1>3. Len(output) = Len(input)
  BY <1>1, <1>2
<1>4. output = input
  BY <1>2, <1>3, SameBytes DEF LzExact
<1>5. \E E : Places(E)' /\ <<current', Len(output')>> \in E
  BY <1>1 DEF LzExact, Places, Part
<1> QED
  BY <1>1, <1>4, <1>5 DEF LzExact

\* The decoder refuses nothing that the encoder has written.
LEMMA NothingRefused == ASSUME LzInv, LzExact, written PROVE ~L!DecodeError
<1> SUFFICES ASSUME L!DecodeError PROVE FALSE
  OBVIOUS
<1>1. /\ pc \in {"decode", "literals", "match"}
      /\ ~L!BlockComes /\ ~L!BlockIsComplete /\ ~L!StreamIsComplete
      /\ \A n \in L!Lengths, more \in L!Extras : ~L!LiteralsAre(n, more) /\ ~L!MatchIs(n, more)
  BY DEF L!DecodeError
<1>2. CASE pc = "decode"
  <2>1. PICK E : Places(E) /\ <<current, Len(output)>> \in E
    BY DEF LzExact
  <2>2. /\ start = Len(input) /\ declared = Len(input) /\ current \in 1..Len(blocks) + 1
        /\ Len(output) \in Nat /\ Len(input) \in Nat /\ Len(blocks) \in Nat
    <3>1. output \in L!Bytes /\ input \in L!Bytes /\ blocks \in Seq(LzBlock)
          /\ current \in 1..Len(blocks) + 1
      BY DEF LzInv, L!TypeOK
    <3> QED
      BY <1>2, <3>1, ByteFacts DEF LzExact
  <2>3. CASE current <= Len(blocks)
    <3>1. /\ L!Block.raw \in 1..BlockSize /\ Len(output) + L!Block.raw <= Len(input)
          /\ BlockIs(L!Block, Part(current, Len(output)))
      BY <1>2, <2>1, <2>3, HereFacts
    <3>2. Len(output) < declared /\ L!Block.raw <= declared - Len(output)
      BY <2>2, <3>1, WidthFacts
    <3>3. IF L!Block.stored THEN Len(L!Payload) = L!Block.raw ELSE Len(L!Payload) < L!Block.raw
      BY <3>1 DEF BlockIs, L!Payload
    <3> QED
      BY <1>1, <1>2, <2>3, <3>1, <3>2, <3>3 DEF L!BlockComes, L!Acceptable
  <2>4. CASE ~(current <= Len(blocks))
    <3>1. current = Len(blocks) + 1
      BY <2>2, <2>4
    <3>2. Len(output) = start
      <4>1. current \in Nat
        BY <2>2
      <4>2. current \notin 1..Len(blocks)
        BY <2>4
      <4> QED
        BY <2>1, <2>2, <4>1, <4>2 DEF Places
    <3> QED
      BY <1>1, <1>2, <2>2, <3>1, <3>2 DEF L!StreamIsComplete
  <2> QED
    BY <2>3, <2>4
<1>3. ASSUME pc \in {"literals", "match"} PROVE FALSE
  <2>1. PICK D : Inside(D)
    BY <1>3 DEF LzExact
  <2>2. PICK r : r = Part(current, Len(output))
    OBVIOUS
  <2>3. PICK p \in L!Bytes, k \in Nat, w \in 1..BlockSize :
          /\ p = L!Payload /\ k = Len(out) /\ w = L!Block.raw /\ w = Len(r) /\ r \in L!Bytes
          /\ read \in Nat /\ Len(p) \in Nat /\ k <= w
          /\ Plan(D, p, r, Len(r))
    BY <1>3, <2>1, <2>2, InsideIs
  <2>4. CASE pc = "literals"
    <3>1. <<read, k>> \in D
      BY <2>1, <2>3, <2>4 DEF Inside
    <3>2. CASE read = Len(p) /\ k = Len(r)
      BY <1>1, <2>3, <2>4, <3>2 DEF L!BlockIsComplete, L!Left
    <3>3. CASE ~(read = Len(p) /\ k = Len(r))
      <4>1. PICK n \in Nat, l \in Nat, d \in Nat : Piece(p, r, read, k, n, l, d)
        BY <2>3, <3>1, <3>3, PlanNext
      <4>2. Piece(L!Payload, Part(current, Len(output)), read, Len(out), n, l, d)
        BY <2>2, <2>3, <4>1
      <4>3. L!LiteralsAre(n, ExtraBytes(n)) /\ n \in L!Lengths /\ ExtraBytes(n) \in L!Extras
        BY <2>1, <2>4, <4>2, LiteralsAreThere
      <4> QED
        BY <1>1, <4>3
    <3> QED
      BY <3>2, <3>3
  <2>5. CASE pc = "match"
    <3>1. PICK a \in Nat, f \in Nat, n \in Nat, l \in Nat, d \in Nat :
            AtMatch(a, f, n, l, d)
      BY <2>1, <2>5 DEF Inside
    <3>2. /\ L!MatchIs(Code(l), ExtraBytes(Code(l))) /\ Code(l) \in L!Lengths
          /\ ExtraBytes(Code(l)) \in L!Extras
      <4>1. MatchReads(a, n, l, d)
        BY <2>1, <2>5, <3>1, MatchIsThere
      <4> QED
        BY <4>1 DEF MatchReads
    <3> QED
      BY <1>1, <3>2
  <2> QED
    BY <1>3, <2>4, <2>5
<1> QED
  BY <1>1, <1>2, <1>3

\* Every step of a stream of this encoder is as planned.
LEMMA LzExactStep == LzInv /\ LzExact /\ L!Next => LzExact'
<1> SUFFICES ASSUME LzInv, LzExact, L!Next PROVE LzExact'
  OBVIOUS
<1>1. ASSUME L!DecodeError PROVE LzExact'
  <2>1. ~written /\ written' = written
    BY <1>1, NothingRefused DEF L!DecodeError
  <2> QED
    BY <2>1 DEF LzExact
<1> QED
  BY <1>1, SkipExact, EmitMatchExact, EmitBlockExact, EncodeEndExact, ReadBlockExact,
     DecodeLiteralsExact, DecodeMatchExact, FinishBlockExact, DecodeEndExact DEF L!Next, L!Decode

\* Nor does standing still change that.
LEMMA LzExactStill == LzExact /\ UNCHANGED L!vars => LzExact'
<1> SUFFICES ASSUME LzExact, UNCHANGED L!vars PROVE LzExact'
  OBVIOUS
<1>1. UNCHANGED <<input, written, pc, start, position, literalStart, chain, tokens, blocks, declared,
                  current, read, token, out, output>>
  BY DEF L!vars, L!encoder, L!decoder
<1>2. L!Raw' = L!Raw /\ L!Size' = L!Size /\ L!Payload' = L!Payload /\ L!Block' = L!Block
  BY <1>1 DEF L!Raw, L!Size, L!Payload, L!Block
<1>3. \A E : Places(E) => Places(E)'
  BY <1>1 DEF Places, Part
<1>4. ASSUME NEW D, Inside(D) PROVE Inside(D)'
  <2>1. PICK r : r = Part(current, Len(output))
    OBVIOUS
  <2>2. Part(current, Len(output))' = r /\ L!Block'.raw = L!Block.raw
    BY <1>1, <1>2, <2>1 DEF Part
  <2>3. (pc = "match") => \E a, f, n, l, d \in Nat :
          AtMatch(a, f, n, l, d) /\ <<a + Span(n, l), f + n + l>> \in D
    BY <1>4, <2>1 DEF Inside
  <2>4. /\ Plan(D, L!Payload, r, L!Block.raw)
        /\ \A i \in 1..Len(out) : out[i] = r[i]
        /\ Len(output) + L!Block.raw <= Len(input)
        /\ pc = "literals" => <<read, Len(out)>> \in D
    BY <1>4, <2>1 DEF Inside
  <2>5. \A a, f, n, l, d \in Nat : AtMatch(a, f, n, l, d) => AtMatch(a, f, n, l, d)'
    BY <1>1, <1>2, <2>1, <2>2 DEF AtMatch
  <2> QED
    BY <1>1, <1>2, <2>2, <2>3, <2>4, <2>5 DEF Inside
<1> QED
  BY <1>1, <1>2, <1>3, <1>4 DEF LzExact

\* The decoder accepts, and its output is the input.
LEMMA LzReturns == LzExact => L!RoundTrip
BY DEF LzExact, L!RoundTrip

-----------------------------------------------------------------------------
(* PackFormat.                                                             *)

Names == {"stream", "index", "entry", "central", "end"}
StageCells ==
  [k : {"magic"}, v : Names] \cup [k : {"number"}, v : 0..Word - 1]
  \cup [k : {"entry"}, v : P!Entry] \cup [k : {"data"}, v : Seq(STRING) \X Nat]

\* What is written grows with every entry by no more than its bound.
WriterOK ==
  pc = "pack" =>
    /\ at \in 0..Len(source) /\ Len(stage) <= 2 + at * (MaxSize + 2)
    /\ layout = "index" => offsets \in Seq(Nat) /\ Len(offsets) = at

\* The entries of a stream follow one another, and reach up to where it is read.
StreamOK ==
  /\ at = IF entries = <<>> THEN 2
          ELSE entries[Len(entries)].offset + entries[Len(entries)].size
  /\ \A i \in 1..Len(entries) - 1 :
       entries[i + 1].offset = entries[i].offset + entries[i].size + 2
  /\ \A i \in 3..at : \E n \in DOMAIN entries :
       i \in entries[n].offset - 1..entries[n].offset + entries[n].size
IndexOK ==
  /\ at = central + 2 + Len(entries) /\ central + 2 + count <= Len(stage)
  /\ \A i \in DOMAIN entries : entries[i].type = "Regular" =>
       entries[i].offset + entries[i].size <= central

ReaderOK ==
  /\ pc \in {"pack", "stored", "open"} => entries = <<>> /\ count = 0
  /\ pc \in {"stored", "open"} => at = 0
  /\ pc \in {"read", "validate", "done"} =>
       IF layout = "stream" THEN StreamOK ELSE IndexOK
  /\ pc \in {"validate", "done"} /\ layout = "stream" => at = Len(stage)
  /\ pc = "done" => P!ValidList(entries)

PackInv ==
  /\ P!TypeOK /\ stage \in Seq(StageCells) /\ entries \in Seq(P!Entry)
  /\ WriterOK /\ ReaderOK

\* The entries of a source.
LEMMA SourceFacts ==
  ASSUME NEW s \in Sources
  PROVE  /\ s \in Seq(P!Entry) /\ Len(s) \in 0..MaxEntries
         /\ \A i \in 1..Len(s) : s[i] \in P!Entry /\ s[i].size \in 0..MaxSize
<1>1. s \in Seq(P!Entry) /\ Len(s) <= MaxEntries /\ (\A i \in DOMAIN s : s[i].size <= MaxSize)
      /\ MaxSize \in Nat /\ MaxEntries \in Nat
  BY PackAssumption DEF P!SourcesAssumption, P!WordAssumption, P!Scanned
<1>2. \A i \in 1..Len(s) : s[i] \in P!Entry /\ s[i].size \in Nat
  <2>1. \A e \in P!Entry : e.size \in Nat
    BY DEF P!Entry
  <2> QED
    BY <1>1, <2>1
<1> QED
  BY <1>1, <1>2

\* The bound of the sizes is below the range of the words.
LEMMA WordFacts ==
  ASSUME NEW n \in 0..MaxEntries
  PROVE  /\ n * (MaxSize + 2) \in Nat /\ n * (MaxSize + 2) + 7 < Word /\ n + 2 < Word
         /\ Word \in Nat /\ MaxSize \in Nat /\ MaxEntries \in Nat
         /\ (n + 1) * (MaxSize + 2) = n * (MaxSize + 2) + MaxSize + 2
<1>1. /\ Word \in Nat /\ MaxEntries \in Nat /\ MaxSize \in Nat
      /\ MaxEntries * (MaxSize + 2) + 7 < Word
  BY PackAssumption DEF P!WordAssumption
<1>2. PICK k \in Nat : k = MaxSize + 2 /\ k >= 2
  BY <1>1
<1>3. n \in Nat /\ MaxEntries - n \in Nat
  BY <1>1
<1>4. n * k \in Nat /\ (MaxEntries - n) * k \in Nat /\ MaxEntries * k = n * k + (MaxEntries - n) * k
      /\ (n + 1) * k = n * k + k
  BY <1>1, <1>2, <1>3
<1>5. n <= n * k
  BY <1>2, <1>3
<1> QED
  BY <1>1, <1>2, <1>3, <1>4, <1>5

\* The kinds of cells.
LEMMA CellFacts ==
  ASSUME NEW e \in P!Entry, NEW offset \in Nat
  PROVE  /\ P!Metadata(e, offset) \in StageCells
         /\ P!Content(e) \in Seq(StageCells)
         /\ Len(P!Content(e)) <= e.size
<1>0. e.path \in Seq(STRING) /\ e.size \in Nat
  BY DEF P!Entry
<1>1. [e EXCEPT !.offset = offset] \in P!Entry
  BY DEF P!Entry
<1>2. P!Metadata(e, offset) \in StageCells
  BY <1>1 DEF P!Metadata, StageCells
<1>3. CASE e.type = "Regular"
  <2>1. \A i \in 1..e.size : [k |-> "data", v |-> <<e.path, i>>] \in StageCells
    BY <1>0 DEF StageCells
  <2>2. P!Content(e) = [i \in 1..e.size |-> [k |-> "data", v |-> <<e.path, i>>]]
    BY <1>3 DEF P!Content
  <2>3. PICK n \in Nat : n = e.size
    BY <1>0
  <2>4. P!Content(e) \in [1..n -> StageCells]
    BY <2>1, <2>2, <2>3
  <2> QED
    BY <1>2, <2>3, <2>4
<1>4. CASE e.type # "Regular"
  BY <1>0, <1>2, <1>4 DEF P!Content
<1> QED
  BY <1>3, <1>4

\* The cells of a stage that do not depend on an entry.
LEMMA FixedCells ==
  /\ \A s \in Names : P!Magic(s) \in StageCells
  /\ P!Magic("stream") \in StageCells /\ P!Magic("index") \in StageCells
  /\ P!Magic("entry") \in StageCells /\ P!Magic("central") \in StageCells
  /\ P!Magic("end") \in StageCells
  /\ \A n \in 0..Word - 1 : P!Number(n) \in StageCells
<1>1. \A s \in Names : P!Magic(s) \in StageCells
  BY DEF P!Magic, StageCells
<1>2. {"stream", "index", "entry", "central", "end"} = Names
  BY DEF Names
<1> QED
  BY <1>1, <1>2 DEF P!Number, StageCells

CellsTyped ==
  /\ \A i \in 1..P!Size : stage[i].k \in {"magic", "number", "entry", "data"}
  /\ \A i \in 1..P!Size : P!IsNumber(i) => P!At(i) \in 0..Word - 1

\* What TypeOK says of the cells.
LEMMA CellsAreTyped ==
  ASSUME NEW s \in Seq(StageCells)
  PROVE  \A i \in 1..Len(s) : /\ s[i].k \in {"magic", "number", "entry", "data"}
                              /\ s[i].k = "number" => s[i].v \in 0..Word - 1
                              /\ s[i].k = "entry" => s[i].v \in P!Entry
<1> SUFFICES ASSUME NEW i \in 1..Len(s)
             PROVE  /\ s[i].k \in {"magic", "number", "entry", "data"}
                    /\ s[i].k = "number" => s[i].v \in 0..Word - 1
                    /\ s[i].k = "entry" => s[i].v \in P!Entry
  OBVIOUS
<1>1. PICK c \in StageCells : c = s[i]
  OBVIOUS
<1>2. /\ c.k \in {"magic", "number", "entry", "data"}
      /\ c.k = "number" => c.v \in 0..Word - 1
      /\ c.k = "entry" => c.v \in P!Entry
  BY DEF StageCells
<1> QED
  BY <1>1, <1>2

\* The writers of a stage start in the invariant.
LEMMA PackInit == P!Init => PackInv
<1> SUFFICES ASSUME P!Init PROVE PackInv
  OBVIOUS
<1>1. /\ source \in Sources /\ layout \in {"stream", "index"} /\ pc = "pack" /\ at = 0
      /\ offsets = <<>> /\ central = 0 /\ count = 0 /\ entries = <<>> /\ damages = 0
  BY DEF P!Init
<1>2. Len(source) \in 0..MaxEntries /\ source \in Seq(P!Entry)
  BY <1>1, SourceFacts
<1>3. /\ Word \in Nat /\ Len(source) + 2 < Word /\ MaxSize \in Nat /\ MaxEntries \in Nat
      /\ MaxDamages \in Nat
  BY <1>2, WordFacts, PackAssumption DEF P!SourcesAssumption
<1>4. stage \in Seq(StageCells) /\ Len(stage) <= 2
  <2>1. CASE layout = "stream"
    <3>1. Len(source) \in 0..Word - 1
      BY <1>2, <1>3
    <3>2. PICK a \in StageCells, b \in StageCells : stage = <<a, b>>
      BY <2>1, <3>1, FixedCells DEF P!Init
    <3> QED
      BY <3>2
  <2>2. CASE layout # "stream"
    <3>1. PICK a \in StageCells : stage = <<a>>
      BY <2>2, FixedCells DEF P!Init
    <3> QED
      BY <3>1
  <2> QED
    BY <2>1, <2>2
<1>5. P!TypeOK
  <2>1. CellsTyped
    BY <1>4, CellsAreTyped DEF CellsTyped, P!Size, P!IsNumber, P!At
  <2>2. at \in 0..Len(source) /\ central \in 0..Word - 1 /\ count \in 0..MaxEntries
        /\ Len(entries) = 0 /\ damages \in 0..MaxDamages
    BY <1>1, <1>2, <1>3
  <2> QED
    BY <1>1, <2>1, <2>2 DEF P!TypeOK, P!Size, CellsTyped
<1>6. WriterOK
  <2>1. PICK n \in Nat : n = at * (MaxSize + 2)
    BY <1>1, <1>3, WordFacts
  <2>2. at \in 0..Len(source) /\ Len(stage) <= 2 + n
    <3>1. at \in 0..Len(source)
      BY <1>1, <1>2
    <3>2. Len(stage) <= 2 + n
      <4>1. Len(stage) \in Int
        BY <1>4
      <4>2. n \in Nat
        BY <2>1
      <4> QED
        BY ONLY <1>4, <4>1, <4>2
    <3> QED
      BY <3>1, <3>2
  <2>3. offsets \in Seq(Nat) /\ Len(offsets) = at
    BY <1>1
  <2> QED
    BY <2>1, <2>2, <2>3 DEF WriterOK
<1>7. ReaderOK
  BY <1>1 DEF ReaderOK
<1> QED
  BY <1>1, <1>4, <1>5, <1>6, <1>7 DEF PackInv

\* The types of the stage and the numbers, for a step of the writer.
LEMMA PackEntryKeeps ==
  ASSUME PackInv, P!PackStreamEntry \/ P!PackIndexEntry
  PROVE  PackInv'
<1>1. /\ UNCHANGED <<source, layout, pc, central, count, entries, damages>>
      /\ pc = "pack" /\ at < Len(source) /\ at' = at + 1
      /\ layout = "index" => offsets' = Append(offsets, Len(stage))
  BY DEF P!PackStreamEntry, P!PackIndexEntry, P!writer, P!Size
<1>2. /\ source \in Sources /\ at \in 0..Len(source) /\ stage \in Seq(StageCells)
      /\ Len(stage) \in Nat /\ Len(stage) <= 2 + at * (MaxSize + 2)
      /\ layout = "index" => offsets \in Seq(Nat) /\ Len(offsets) = at
  BY <1>1 DEF PackInv, P!TypeOK, WriterOK
<1>3. Len(source) \in 0..MaxEntries /\ at \in 0..MaxEntries /\ at + 1 \in 1..Len(source)
  BY <1>1, <1>2, SourceFacts, PackAssumption DEF P!WordAssumption
<1>4. PICK e \in P!Entry : e = source[at + 1] /\ e.size \in 0..MaxSize
  BY <1>2, <1>3, SourceFacts
<1>5. PICK head \in Seq(StageCells), c \in Seq(StageCells) :
        /\ stage' = (stage \o head) \o c /\ Len(head) <= 2 /\ Len(c) <= e.size
  <2>1. P!Content(e) \in Seq(StageCells) /\ Len(P!Content(e)) <= e.size
        /\ P!Metadata(e, 0) \in StageCells /\ P!Magic("entry") \in StageCells
    BY CellFacts, FixedCells
  <2>2. CASE P!PackStreamEntry
    <3>1. PICK a \in StageCells, b \in StageCells : a = P!Magic("entry") /\ b = P!Metadata(e, 0)
      BY <2>1
    <3>2. PICK head : head = <<a, b>>
      OBVIOUS
    <3>3. head \in Seq(StageCells) /\ Len(head) = 2
      BY <3>2
    <3>4. stage' = (stage \o head) \o P!Content(e)
      BY <1>4, <2>2, <3>1, <3>2 DEF P!PackStreamEntry
    <3>5. PICK c \in Seq(StageCells) : c = P!Content(e) /\ Len(c) <= e.size
      BY <2>1
    <3>6. stage' = (stage \o head) \o c /\ Len(head) <= 2
      BY <3>3, <3>4, <3>5
    <3> QED
      BY <3>3, <3>5, <3>6, Zenon
  <2>3. CASE P!PackIndexEntry
    <3>1. PICK head : head = <<>>
      OBVIOUS
    <3>2. stage \o head = stage /\ head \in Seq(StageCells) /\ Len(head) <= 2
      BY <1>2, <3>1, ConcatEmptySeq
    <3>3. PICK c \in Seq(StageCells) : c = P!Content(e) /\ Len(c) <= e.size
      BY <2>1
    <3>4. stage' = (stage \o head) \o c
      BY <1>4, <2>3, <3>2, <3>3 DEF P!PackIndexEntry
    <3> QED
      BY <3>2, <3>3, <3>4, Zenon
  <2> QED
    BY <2>2, <2>3
<1>6. stage' \in Seq(StageCells) /\ Len(stage') = Len(stage) + Len(head) + Len(c)
      /\ Len(head) \in Nat /\ Len(c) \in Nat
  <2>1. stage \o head \in Seq(StageCells) /\ Len(stage \o head) = Len(stage) + Len(head)
    BY <1>2, ConcatProperties
  <2> QED
    BY <1>5, <2>1, ConcatProperties
<1>7. Len(stage') <= 2 + at' * (MaxSize + 2)
  <2>1. PICK n \in Nat : n = at * (MaxSize + 2) /\ at' * (MaxSize + 2) = n + MaxSize + 2
    BY <1>1, <1>3, WordFacts
  <2>2. MaxSize \in Nat /\ e.size \in Nat /\ e.size <= MaxSize
    BY <1>4, PackAssumption DEF P!WordAssumption
  <2>3. Len(stage) <= 2 + n
    BY <1>2, <2>1
  <2>4. Len(stage') <= 2 + (n + MaxSize + 2)
    BY ONLY <1>2, <1>5, <1>6, <2>2, <2>3
  <2> QED
    BY <2>1, <2>4
<1>8. layout = "index" => offsets' \in Seq(Nat) /\ Len(offsets') = at'
  <2> SUFFICES ASSUME layout = "index" PROVE offsets' \in Seq(Nat) /\ Len(offsets') = at'
    OBVIOUS
  <2>1. offsets \in Seq(Nat) /\ offsets' = Append(offsets, Len(stage)) /\ Len(stage) \in Nat
    BY <1>1, <1>2
  <2>2. offsets' \in Seq(Nat) /\ Len(offsets') = Len(offsets) + 1
    BY ONLY <2>1, AppendProperties
  <2> QED
    BY <1>1, <1>2, <2>2
<1>9. P!TypeOK'
  <2>1. CellsTyped'
    BY <1>6, CellsAreTyped DEF CellsTyped, P!Size, P!IsNumber, P!At
  <2>2. at' \in 0..Len(source)
    BY <1>1, <1>3
  <2> QED
    BY <1>1, <2>1, <2>2 DEF PackInv, P!TypeOK, P!Size, CellsTyped
<1>10. at' \in 0..Len(source')
  BY <1>1, <1>3
<1>11. ReaderOK'
  BY <1>1 DEF PackInv, ReaderOK
<1> QED
  BY <1>1, <1>6, <1>7, <1>8, <1>9, <1>10, <1>11 DEF PackInv, WriterOK

\* The stage is complete, and is read.
LEMMA PackEndKeeps ==
  ASSUME PackInv, P!PackEnd
  PROVE  PackInv'
<1>1. /\ UNCHANGED <<source, layout, offsets, central, count, entries, damages>>
      /\ pc = "pack" /\ at = Len(source) /\ at' = 0 /\ pc' = "stored"
  BY DEF P!PackEnd, P!writer
<1>2. /\ source \in Sources /\ stage \in Seq(StageCells)
      /\ Len(stage) \in Nat /\ Len(stage) <= 2 + at * (MaxSize + 2)
      /\ layout = "index" => offsets \in Seq(Nat) /\ Len(offsets) = at
  BY <1>1 DEF PackInv, P!TypeOK, WriterOK
<1>3. /\ source \in Seq(P!Entry) /\ Len(source) \in 0..MaxEntries
      /\ \A i \in 1..Len(source) : source[i] \in P!Entry
  BY <1>2, SourceFacts
<1>4. stage' \in Seq(StageCells)
  <2>1. CASE layout = "stream"
    BY <1>2, <2>1 DEF P!PackEnd
  <2>2. CASE layout # "stream"
    <3>1. layout = "index"
      BY <2>2 DEF PackInv, P!TypeOK
    <3>2. PICK n \in Nat : n = Len(source) /\ n + 2 < Word /\ Len(stage) < Word /\ Word \in Nat
      <4>1. PICK n \in 0..MaxEntries : n = Len(source)
        BY <1>3
      <4>2. /\ n * (MaxSize + 2) \in Nat /\ n * (MaxSize + 2) + 7 < Word /\ n + 2 < Word
            /\ Word \in Nat
        BY WordFacts
      <4>3. PICK k \in Nat : k = n * (MaxSize + 2)
        BY <4>2
      <4>4. Len(stage) <= 2 + k
        BY <1>1, <1>2, <4>1, <4>3
      <4>5. Len(stage) < Word
        BY ONLY <1>2, <4>2, <4>3, <4>4
      <4> QED
        BY <4>1, <4>2, <4>5
    <3> DEFINE metadata == [i \in 1..n |-> P!Metadata(source[i], offsets[i])]
               front == <<P!Magic("central"), P!Number(n)>>
    <3>3. metadata \in Seq(StageCells) /\ Len(metadata) = n
      <4>1. \A i \in 1..n : offsets[i] \in Nat
        BY <1>1, <1>2, <3>1, <3>2
      <4>2. \A i \in 1..n : P!Metadata(source[i], offsets[i]) \in StageCells
        BY <1>3, <3>2, <4>1, CellFacts
      <4> QED
        BY <3>2, <4>2
    <3>4. front \in Seq(StageCells) /\ Len(front) = 2
      <4>1. PICK a \in StageCells, b \in StageCells : a = P!Magic("central") /\ b = P!Number(n)
        BY <3>2, FixedCells
      <4>2. <<a, b>> \in Seq(StageCells) /\ Len(<<a, b>>) = 2
        OBVIOUS
      <4> QED
        BY <4>1, <4>2
    <3> DEFINE directory == front \o metadata
    <3>5. directory \in Seq(StageCells) /\ Len(directory) = n + 2
      <4> HIDE DEF front, metadata
      <4>1. front \in Seq(StageCells) /\ metadata \in Seq(StageCells)
        BY <3>3, <3>4
      <4>2. directory \in Seq(StageCells) /\ Len(directory) = Len(front) + Len(metadata)
        BY ONLY <4>1, ConcatProperties
      <4> QED
        BY <3>2, <3>3, <3>4, <4>2
    <3> DEFINE trailer == <<P!Magic("end"), P!Number(Len(stage)), P!Number(Len(directory)),
                            P!Number(n), P!Number(0)>>
    <3>6. trailer \in Seq(StageCells)
      <4> HIDE DEF directory
      <4>1. PICK a \in StageCells, b \in StageCells, c \in StageCells, d \in StageCells,
                 e \in StageCells :
              /\ a = P!Magic("end") /\ b = P!Number(Len(stage)) /\ c = P!Number(Len(directory))
              /\ d = P!Number(n) /\ e = P!Number(0)
        <5>1. Len(stage) \in 0..Word - 1 /\ Len(directory) \in 0..Word - 1 /\ n \in 0..Word - 1
              /\ 0 \in 0..Word - 1
          BY <1>2, <3>2, <3>5
        <5> QED
          BY <5>1, FixedCells
      <4>2. <<a, b, c, d, e>> \in Seq(StageCells)
        OBVIOUS
      <4> QED
        BY <4>1, <4>2
    <3>7. stage' = (stage \o directory) \o trailer
      BY <2>2, <3>2 DEF P!PackEnd, P!Size
    <3> HIDE DEF directory, trailer
    <3>8. stage \o directory \in Seq(StageCells)
      BY <1>2, <3>5, ConcatProperties
    <3> QED
      BY <3>6, <3>7, <3>8, ConcatProperties
  <2> QED
    BY <2>1, <2>2
<1>5. P!TypeOK'
  <2>1. CellsTyped'
    BY <1>4, CellsAreTyped DEF CellsTyped, P!Size, P!IsNumber, P!At
  <2>2. at' \in 0..Len(stage')
    BY <1>1, <1>4
  <2> QED
    BY <1>1, <2>1, <2>2 DEF PackInv, P!TypeOK, P!Size, CellsTyped
<1> QED
  BY <1>1, <1>4, <1>5 DEF PackInv, WriterOK, ReaderOK

\* Damage leaves typed cells.
LEMMA DamagedIsTyped ==
  ASSUME stage \in Seq(StageCells), NEW i \in 1..Len(stage), P!Damaged(i)
  PROVE  stage' \in Seq(StageCells)
<1> DEFINE c == stage[i]
<1>1. c \in StageCells /\ i \in Nat /\ Len(stage) \in Nat
  OBVIOUS
<1>2. ASSUME NEW d \in StageCells PROVE [stage EXCEPT ![i] = d] \in Seq(StageCells)
  BY <1>2, ExceptSeq
<1>3. CASE P!IsNumber(i) /\ \E n \in P!Word0 : stage' = [stage EXCEPT ![i].v = n]
  <2>1. PICK n \in P!Word0 : stage' = [stage EXCEPT ![i].v = n]
    BY <1>3
  <2>2. stage' = [stage EXCEPT ![i] = [c EXCEPT !.v = n]]
    BY <2>1, Zenon
  <2>3. PICK d : d = c
    OBVIOUS
  <2>4. d \in [k : {"number"}, v : 0..Word - 1]
    BY <1>1, <1>3, <2>3 DEF P!IsNumber, StageCells
  <2>5. [d EXCEPT !.v = n] \in StageCells
    BY <2>4 DEF StageCells, P!Word0
  <2> QED
    BY <1>2, <2>2, <2>3, <2>5
<1>4. ASSUME P!IsEntry(i), NEW e \in P!Entry, stage' = [stage EXCEPT ![i] = [c EXCEPT !.v = e]]
      PROVE  stage' \in Seq(StageCells)
  <2>1. PICK d : d = c
    OBVIOUS
  <2>2. d \in [k : {"entry"}, v : P!Entry]
    BY <1>1, <1>4, <2>1 DEF P!IsEntry, StageCells
  <2>3. [d EXCEPT !.v = e] \in StageCells
    BY <2>2 DEF StageCells
  <2> QED
    BY <1>2, <1>4, <2>1, <2>3
<1>5. P!IsEntry(i) => c.v \in P!Entry
  BY <1>1, CellsAreTyped DEF P!IsEntry
<1>6. \A e \in P!Entry :
        /\ \A n \in P!Word0 : [e EXCEPT !.size = n] \in P!Entry /\ [e EXCEPT !.offset = n] \in P!Entry
        /\ \A t \in P!Types : [e EXCEPT !.type = t] \in P!Entry
        /\ \A p \in Paths : [e EXCEPT !.path = p] \in P!Entry /\ [e EXCEPT !.link = p] \in P!Entry
  <2>1. P!Word0 \subseteq Nat /\ Paths \subseteq Seq(STRING)
    BY PackAssumption DEF P!Word0, P!WordAssumption, P!SourcesAssumption
  <2> QED
    BY <2>1 DEF P!Entry
<1>7. CASE P!IsEntry(i) /\ \E n \in P!Word0 : stage' = [stage EXCEPT ![i].v.size = n]
  <2>1. PICK n \in P!Word0 : stage' = [stage EXCEPT ![i].v.size = n]
    BY <1>7
  <2>2. stage' = [stage EXCEPT ![i] = [c EXCEPT !.v = [c.v EXCEPT !.size = n]]]
    BY <2>1, Zenon
  <2> QED
    BY <1>4, <1>5, <1>6, <1>7, <2>2
<1>8. CASE P!IsEntry(i) /\ \E n \in P!Word0 : stage' = [stage EXCEPT ![i].v.offset = n]
  <2>1. PICK n \in P!Word0 : stage' = [stage EXCEPT ![i].v.offset = n]
    BY <1>8
  <2>2. stage' = [stage EXCEPT ![i] = [c EXCEPT !.v = [c.v EXCEPT !.offset = n]]]
    BY <2>1, Zenon
  <2> QED
    BY <1>4, <1>5, <1>6, <1>8, <2>2
<1>9. CASE P!IsEntry(i) /\ \E t \in P!Types : stage' = [stage EXCEPT ![i].v.type = t]
  <2>1. PICK t \in P!Types : stage' = [stage EXCEPT ![i].v.type = t]
    BY <1>9
  <2>2. stage' = [stage EXCEPT ![i] = [c EXCEPT !.v = [c.v EXCEPT !.type = t]]]
    BY <2>1, Zenon
  <2> QED
    BY <1>4, <1>5, <1>6, <1>9, <2>2
<1>10. CASE P!IsEntry(i) /\ \E p \in Paths : stage' = [stage EXCEPT ![i].v.path = p]
  <2>1. PICK p \in Paths : stage' = [stage EXCEPT ![i].v.path = p]
    BY <1>10
  <2>2. stage' = [stage EXCEPT ![i] = [c EXCEPT !.v = [c.v EXCEPT !.path = p]]]
    BY <2>1, Zenon
  <2> QED
    BY <1>4, <1>5, <1>6, <1>10, <2>2
<1>11. CASE P!IsEntry(i) /\ \E p \in Paths : stage' = [stage EXCEPT ![i].v.link = p]
  <2>1. PICK p \in Paths : stage' = [stage EXCEPT ![i].v.link = p]
    BY <1>11
  <2>2. stage' = [stage EXCEPT ![i] = [c EXCEPT !.v = [c.v EXCEPT !.link = p]]]
    BY <2>1, Zenon
  <2> QED
    BY <1>4, <1>5, <1>6, <1>11, <2>2
<1>12. /\ SubSeq(stage, 1, i - 1) \in Seq(StageCells)
       /\ SubSeq(stage, i + 1, Len(stage)) \in Seq(StageCells)
       /\ SubSeq(stage, i, Len(stage)) \in Seq(StageCells)
       /\ SubSeq(stage, 1, i) \in Seq(StageCells)
  <2>1. \A m, n \in Int : (\A j \in m..n : stage[j] \in StageCells) =>
                             SubSeq(stage, m, n) \in Seq(StageCells)
    BY SubSeqProperties
  <2>2. \A j \in 1..Len(stage) : stage[j] \in StageCells
    OBVIOUS
  <2>3. (\A j \in 1..i - 1 : stage[j] \in StageCells) /\ (\A j \in i + 1..Len(stage) : stage[j] \in StageCells)
        /\ (\A j \in 1..i : stage[j] \in StageCells)
        /\ (\A j \in i..Len(stage) : stage[j] \in StageCells)
    BY <1>1, <2>2
  <2> QED
    BY <1>1, <2>1, <2>3
<1>13. SubSeq(stage, 1, i - 1) \o SubSeq(stage, i + 1, Len(stage)) \in Seq(StageCells)
  BY <1>12, ConcatProperties
<1>14. SubSeq(stage, 1, i) \o SubSeq(stage, i, Len(stage)) \in Seq(StageCells)
  BY <1>12, ConcatProperties
<1> QED
  BY <1>3, <1>7, <1>8, <1>9, <1>10, <1>11, <1>12, <1>13, <1>14 DEF P!Damaged, P!Size

\* A cell of the stage is damaged.
LEMMA DamageKeeps ==
  ASSUME PackInv, P!Damage \/ P!Reopen
  PROVE  PackInv'
<1>1. /\ UNCHANGED <<source, layout, offsets, at, central, count, entries>>
      /\ pc = "stored" /\ pc' \in {"stored", "open"} /\ at = 0
      /\ damages' \in 0..MaxDamages
  BY PackAssumption DEF P!Damage, P!Reopen, P!writer, P!reader, PackInv, P!TypeOK, ReaderOK,
     P!SourcesAssumption
<1>2. stage' \in Seq(StageCells)
  BY DamagedIsTyped DEF PackInv, P!Damage, P!Reopen, P!Size
<1>3. P!TypeOK'
  <2>1. CellsTyped'
    BY <1>2, CellsAreTyped DEF CellsTyped, P!Size, P!IsNumber, P!At
  <2>2. at' \in 0..Len(stage')
    BY <1>1, <1>2
  <2> QED
    BY <1>1, <2>1, <2>2 DEF PackInv, P!TypeOK, P!Size, CellsTyped
<1> QED
  BY <1>1, <1>2, <1>3 DEF PackInv, WriterOK, ReaderOK

\* The reader opens a stage, or refuses it.
LEMMA OpenPackKeeps ==
  ASSUME PackInv, P!OpenStream \/ P!OpenIndex
  PROVE  PackInv'
<1>1. /\ UNCHANGED <<source, layout, offsets, stage, damages, entries>>
      /\ pc = "open" /\ pc' \in {"read", "failed"}
      /\ pc' = "failed" => UNCHANGED <<at, central, count>>
  BY DEF P!OpenStream, P!OpenIndex, P!writer, P!reader, P!Fail
<1>2. /\ stage \in Seq(StageCells) /\ Len(stage) \in Nat /\ at = 0 /\ entries = <<>> /\ count = 0
      /\ MaxEntries \in Nat /\ Word \in Nat /\ CellsTyped /\ central \in 0..Word - 1
      /\ at \in 0..Len(stage)
  <2>1. MaxEntries \in Nat /\ Word \in Nat
    BY PackAssumption DEF P!WordAssumption
  <2>2. stage \in Seq(StageCells) /\ Len(stage) \in Nat
    BY DEF PackInv
  <2>3. at = 0 /\ entries = <<>> /\ count = 0
    BY <1>1 DEF PackInv, ReaderOK
  <2>4. CellsTyped /\ central \in 0..Word - 1
    BY <1>1 DEF PackInv, P!TypeOK, CellsTyped
  <2> QED
    BY ONLY <2>1, <2>2, <2>3, <2>4
<1>3. CASE pc' = "failed"
  BY <1>1, <1>3 DEF PackInv, P!TypeOK, P!Size, P!IsNumber, P!At, WriterOK, ReaderOK
<1>4. CASE pc' = "read" /\ layout = "stream"
  <2>1. /\ P!IsNumber(2) /\ P!At(2) \in 1..MaxEntries /\ P!At(2) <= (Len(stage) - 2) \div 2
        /\ count' = P!At(2) /\ at' = 2 /\ central' = central
    BY <1>4 DEF P!OpenStream, P!OpenIndex, P!Fail, P!Size
  <2>2. 2 \in 0..Len(stage)
    BY <1>2, <2>1 DEF P!IsNumber, P!Size
  <2>3. count' \in 0..MaxEntries /\ Len(entries) <= count'
    BY <1>2, <2>1
  <2>4. P!TypeOK'
    BY <1>1, <1>4, <2>1, <2>2, <2>3 DEF PackInv, P!TypeOK, P!Size, P!IsNumber, P!At
  <2>5. StreamOK'
    BY <1>1, <1>2, <2>1 DEF StreamOK
  <2> QED
    BY <1>1, <1>4, <2>4, <2>5 DEF PackInv, WriterOK, ReaderOK
<1>5. CASE pc' = "read" /\ layout = "index"
  <2> DEFINE end == Len(stage) - 5
  <2>1. /\ end >= 1 /\ \A i \in 2..5 : P!IsNumber(end + i)
        /\ P!CentralFits(P!At(end + 2), P!At(end + 3))
        /\ P!At(end + 4) \in 1..MaxEntries
        /\ P!At(end + 3) >= 2 /\ P!At(end + 4) <= P!At(end + 3) - 2
        /\ central' = P!At(end + 2) /\ count' = P!At(end + 4) /\ at' = P!At(end + 2) + 2
    BY <1>5 DEF P!OpenStream, P!OpenIndex, P!Fail, P!Size, P!Trailer
  <2>2. /\ P!IsNumber(end + 2) /\ P!IsNumber(end + 3) /\ P!IsNumber(end + 4)
    BY <2>1
  <2>3. P!At(end + 2) \in 0..Word - 1 /\ P!At(end + 3) \in 0..Word - 1 /\ P!At(end + 4) \in 0..Word - 1
    BY <1>2, <2>2 DEF CellsTyped, P!IsNumber
  <2>4. PICK o, n, c : o = P!At(end + 2) /\ n = P!At(end + 3) /\ c = P!At(end + 4)
    OBVIOUS
  <2>5. /\ o \in 1..end /\ o + n = end /\ n >= 2 /\ c <= n - 2 /\ c \in 1..MaxEntries
        /\ o \in 0..Word - 1 /\ n \in Nat /\ central' = o /\ count' = c /\ at' = o + 2
    BY <1>2, <2>1, <2>3, <2>4 DEF P!CentralFits, P!Size, P!Trailer
  <2>6. at' \in 0..Len(stage) /\ count' \in 0..MaxEntries /\ o + 2 + c <= Len(stage)
    BY <1>2, <2>5
  <2>7. Len(entries') = 0 /\ Len(entries') <= count'
    BY <1>1, <1>2, <2>5
  <2>8. P!TypeOK'
    BY <1>1, <1>5, <2>5, <2>6, <2>7 DEF PackInv, P!TypeOK, P!Size, P!IsNumber, P!At
  <2>9. IndexOK'
    <3>1. at' = central' + 2 + Len(entries') /\ central' + 2 + count' <= Len(stage')
      BY <1>1, <1>2, <2>5, <2>6, <2>7
    <3> QED
      BY <1>1, <1>2, <3>1 DEF IndexOK
  <2> QED
    BY <1>1, <1>5, <2>8, <2>9 DEF PackInv, WriterOK, ReaderOK
<1> QED
  BY <1>1, <1>3, <1>4, <1>5 DEF PackInv, P!TypeOK

\* The reader of the stream layout takes an entry.
LEMMA ReadStreamKeeps ==
  ASSUME PackInv, P!ReadStreamEntry
  PROVE  PackInv'
<1>1. /\ UNCHANGED <<source, layout, offsets, stage, damages, central, count>>
      /\ pc = "read" /\ layout = "stream" /\ Len(entries) < count
  BY DEF P!ReadStreamEntry, P!writer, P!reader, P!Fail
<1>2. /\ stage \in Seq(StageCells) /\ Len(stage) \in Nat /\ entries \in Seq(P!Entry)
      /\ Len(entries) \in Nat /\ count \in Nat /\ StreamOK /\ CellsTyped /\ at \in 0..Len(stage)
  BY <1>1, PackAssumption DEF PackInv, ReaderOK, P!TypeOK, P!WordAssumption, CellsTyped, P!Size
<1>3. CASE pc' = "failed" /\ UNCHANGED <<at, entries>>
  BY <1>1, <1>3 DEF PackInv, P!TypeOK, P!Size, P!IsNumber, P!At, WriterOK, ReaderOK
<1>4. CASE ~(pc' = "failed" /\ UNCHANGED <<at, entries>>)
  <2> DEFINE p == at + 2
  <2>1. PICK e : e = [P!At(p) EXCEPT !.offset = p]
    OBVIOUS
  <2>2. /\ pc' = pc /\ P!IsEntry(p) /\ P!Present(P!At(p).size, p)
        /\ entries' = Append(entries, e) /\ at' = p + P!At(p).size
    BY <1>4, <2>1 DEF P!ReadStreamEntry, P!reader, P!Fail
  <2>3. p \in Nat /\ P!At(p) \in P!Entry
    BY <1>2, <2>2, CellsAreTyped DEF P!IsEntry, P!At, P!Size
  <2>4. e \in P!Entry /\ e.size = P!At(p).size /\ e.offset = p /\ e.size \in Nat
    BY <2>1, <2>3 DEF P!Entry
  <2>5. at' = p + e.size /\ at' \in 0..Len(stage)
    BY <1>2, <2>2, <2>3, <2>4 DEF P!Present, P!Size
  <2>6. PICK n \in Nat : n = Len(entries)
    BY <1>2
  <2>7. /\ entries' \in Seq(P!Entry) /\ Len(entries') = n + 1 /\ entries'[n + 1] = e
        /\ \A i \in 1..n : entries'[i] = entries[i]
    BY ONLY <1>2, <2>2, <2>4, <2>6, AppendProperties
  <2>8. DOMAIN entries = 1..n /\ DOMAIN entries' = 1..n + 1 /\ entries' # <<>> /\ (n = 0 <=> entries = <<>>)
    BY ONLY <1>2, <2>6, <2>7
  <2>9. StreamOK'
    <3>1. at' = entries'[Len(entries')].offset + entries'[Len(entries')].size
      BY <2>4, <2>5, <2>7
    <3>2. ASSUME NEW i \in 1..n
          PROVE  entries'[i + 1].offset = entries'[i].offset + entries'[i].size + 2
      <4>1. CASE i = n
        <5>1. at = entries[n].offset + entries[n].size
          BY <1>2, <2>6, <2>8, <3>2, <4>1 DEF StreamOK
        <5>2. entries[n] \in P!Entry
          BY <1>2, <2>6, <3>2, <4>1
        <5>3. entries[n].offset \in Nat /\ entries[n].size \in Nat
          BY <5>2 DEF P!Entry
        <5> QED
          BY <1>2, <2>4, <2>7, <3>2, <4>1, <5>1, <5>3
      <4>2. CASE i # n
        <5>1. i \in 1..n - 1 /\ i + 1 \in 1..n /\ i \in 1..n
          BY <2>6, <3>2, <4>2
        <5>2. entries[i + 1].offset = entries[i].offset + entries[i].size + 2
          BY <1>2, <2>6, <5>1 DEF StreamOK
        <5> QED
          BY <2>7, <5>1, <5>2
      <4> QED
        BY <4>1, <4>2
    <3>3. ASSUME NEW i \in 3..at'
          PROVE  \E m \in 1..n + 1 : i \in entries'[m].offset - 1..entries'[m].offset + entries'[m].size
      <4>1. CASE i \in 3..at
        <5>1. PICK m \in 1..n : i \in entries[m].offset - 1..entries[m].offset + entries[m].size
          BY <1>2, <2>8, <4>1 DEF StreamOK
        <5>2. entries'[m] = entries[m] /\ m \in 1..n + 1
          BY <2>6, <2>7
        <5> QED
          BY <5>1, <5>2
      <4>2. CASE i \notin 3..at
        <5>1. i \in p - 1..p + e.size
          BY <1>2, <2>3, <2>4, <2>5, <3>3, <4>2
        <5>2. n + 1 \in 1..n + 1
          BY <2>6
        <5> QED
          BY <2>4, <2>7, <5>1, <5>2
      <4> QED
        BY <4>1, <4>2
    <3>4. \A i \in 1..Len(entries') - 1 :
            entries'[i + 1].offset = entries'[i].offset + entries'[i].size + 2
      BY <2>6, <2>7, <3>2
    <3> QED
      BY <2>8, <3>1, <3>3, <3>4 DEF StreamOK
  <2>10. Len(entries') <= count
    BY <1>1, <1>2, <2>6, <2>7
  <2>11. P!TypeOK'
    BY <1>1, <2>2, <2>5, <2>10 DEF PackInv, P!TypeOK, P!Size, P!IsNumber, P!At
  <2> QED
    BY <1>1, <2>2, <2>7, <2>9, <2>11 DEF PackInv, WriterOK, ReaderOK
<1> QED
  BY <1>3, <1>4

\* The reader of the index layout takes an entry.
LEMMA ReadIndexKeeps ==
  ASSUME PackInv, P!ReadIndexEntry
  PROVE  PackInv'
<1>1. /\ UNCHANGED <<source, layout, offsets, stage, damages, central, count>>
      /\ pc = "read" /\ layout = "index" /\ Len(entries) < count
  BY DEF P!ReadIndexEntry, P!writer, P!reader, P!Fail
<1>2. /\ stage \in Seq(StageCells) /\ Len(stage) \in Nat /\ entries \in Seq(P!Entry)
      /\ Len(entries) \in Nat /\ count \in Nat /\ IndexOK /\ at \in 0..Len(stage)
      /\ central \in Nat
  BY <1>1, PackAssumption DEF PackInv, ReaderOK, P!TypeOK, P!WordAssumption, P!Size
<1>3. CASE pc' = "failed" /\ UNCHANGED <<at, entries>>
  BY <1>1, <1>3 DEF PackInv, P!TypeOK, P!Size, P!IsNumber, P!At, WriterOK, ReaderOK
<1>4. CASE ~(pc' = "failed" /\ UNCHANGED <<at, entries>>)
  <2>1. PICK e : e = P!At(at + 1)
    OBVIOUS
  <2>2. /\ pc' = pc /\ P!IsEntry(at + 1) /\ entries' = Append(entries, e) /\ at' = at + 1
        /\ e.type = "Regular" => P!ContentFits(e)
    BY <1>4, <2>1 DEF P!ReadIndexEntry, P!reader, P!Fail
  <2>3. e \in P!Entry
    BY <1>2, <2>1, <2>2, CellsAreTyped DEF P!IsEntry, P!At, P!Size
  <2>4. e.offset \in Nat /\ e.size \in Nat
    BY <2>3 DEF P!Entry
  <2>5. at' \in 0..Len(stage)
    BY <1>2, <2>2 DEF P!IsEntry, P!Size
  <2>6. PICK n \in Nat : n = Len(entries)
    BY <1>2
  <2>7. /\ entries' \in Seq(P!Entry) /\ Len(entries') = n + 1 /\ entries'[n + 1] = e
        /\ \A i \in 1..n : entries'[i] = entries[i]
    BY ONLY <1>2, <2>2, <2>3, <2>6, AppendProperties
  <2>8. DOMAIN entries = 1..n /\ DOMAIN entries' = 1..n + 1
    BY ONLY <1>2, <2>6, <2>7
  <2>9. IndexOK'
    <3>1. at' = central' + 2 + Len(entries') /\ central' + 2 + count' <= Len(stage')
      BY <1>1, <1>2, <2>2, <2>6, <2>7 DEF IndexOK
    <3>2. ASSUME NEW i \in 1..n + 1, entries'[i].type = "Regular"
          PROVE  entries'[i].offset + entries'[i].size <= central
      <4>1. CASE i = n + 1
        BY <1>2, <2>2, <2>4, <2>7, <3>2, <4>1 DEF P!ContentFits
      <4>2. CASE i # n + 1
        <5>1. i \in 1..n
          BY <2>6, <3>2, <4>2
        <5> QED
          BY <1>2, <2>7, <2>8, <3>2, <5>1 DEF IndexOK
      <4> QED
        BY <4>1, <4>2
    <3> QED
      BY <1>1, <2>8, <3>1, <3>2 DEF IndexOK
  <2>10. Len(entries') <= count
    BY <1>1, <1>2, <2>6, <2>7
  <2>11. P!TypeOK'
    BY <1>1, <2>2, <2>5, <2>10 DEF PackInv, P!TypeOK, P!Size, P!IsNumber, P!At
  <2> QED
    BY <1>1, <2>2, <2>7, <2>9, <2>11 DEF PackInv, WriterOK, ReaderOK
<1> QED
  BY <1>3, <1>4

\* The reader accepts.
LEMMA PackFinishKeeps ==
  ASSUME PackInv, P!ReadEnd \/ P!ValidateEntries
  PROVE  PackInv'
<1>1. /\ UNCHANGED <<source, layout, offsets, stage, damages, at, central, count, entries>>
      /\ pc \in {"read", "validate"} /\ pc' \in {"validate", "done", "failed"}
      /\ pc' = "validate" => pc = "read" /\ (layout = "stream" => at = Len(stage))
      /\ pc' = "done" => pc = "validate" /\ P!ValidList(entries)
  BY DEF P!ReadEnd, P!ValidateEntries, P!writer, P!reader, P!Size
<1>2. P!TypeOK'
  BY <1>1 DEF PackInv, P!TypeOK, P!Size, P!IsNumber, P!At
<1>3. StreamOK' = StreamOK /\ IndexOK' = IndexOK
  BY <1>1 DEF StreamOK, IndexOK
<1>4. ReaderOK'
  BY <1>1, <1>3 DEF PackInv, ReaderOK
<1> QED
  BY <1>1, <1>2, <1>4 DEF PackInv, WriterOK

\* Every step of the stage keeps the invariant.
LEMMA PackStep == PackInv /\ P!Next => PackInv'
BY PackEntryKeeps, PackEndKeeps, DamageKeeps, OpenPackKeeps, ReadStreamKeeps, ReadIndexKeeps,
   PackFinishKeeps DEF P!Next

\* Nor does standing still break it.
LEMMA PackStill == PackInv /\ UNCHANGED P!vars => PackInv'
<1> SUFFICES ASSUME PackInv, UNCHANGED P!vars PROVE PackInv'
  OBVIOUS
<1>1. UNCHANGED <<source, layout, offsets, stage, pc, at, central, count, entries, damages>>
  BY DEF P!vars, P!writer, P!reader
<1>2. P!TypeOK'
  BY <1>1 DEF PackInv, P!TypeOK, P!Size, P!IsNumber, P!At
<1>3. StreamOK' = StreamOK /\ IndexOK' = IndexOK
  BY <1>1 DEF StreamOK, IndexOK
<1>4. ReaderOK'
  BY <1>1, <1>3 DEF PackInv, ReaderOK
<1> QED
  BY <1>1, <1>2, <1>4 DEF PackInv, WriterOK

\* What the invariant of the stage says of a list that is accepted.
LEMMA PackCorrect ==
  PackInv => P!ContentIsInside /\ P!NothingIsLeft /\ P!AcceptedIsRestorable
<1> SUFFICES ASSUME PackInv, pc = "done"
             PROVE  P!ContentIsInside /\ P!NothingIsLeft /\ P!AcceptedIsRestorable
  BY DEF P!ContentIsInside, P!NothingIsLeft, P!AcceptedIsRestorable
<1>1. /\ entries \in Seq(P!Entry) /\ Len(entries) \in Nat /\ layout \in {"stream", "index"}
      /\ layout = "stream" => StreamOK /\ at = Len(stage)
      /\ layout = "index" => IndexOK
      /\ \A i \in 1..Len(entries) : P!ValidEntry(entries, i) /\ entries[i] \in P!Entry
      /\ P!ValidHierarchy(entries) /\ DOMAIN entries = 1..Len(entries)
  BY DEF PackInv, ReaderOK, P!TypeOK, P!ValidList
<1>2. P!ContentIsInside
  <2> SUFFICES ASSUME NEW i \in P!Regular
               PROVE  IF layout = "index" THEN entries[i].offset + entries[i].size <= central
                      ELSE entries[i].offset + entries[i].size <=
                             IF i = Len(entries) THEN P!Size ELSE entries[i + 1].offset - 2
    BY Zenon DEF P!ContentIsInside
  <2>1. i \in 1..Len(entries) /\ entries[i].type = "Regular"
    BY <1>1 DEF P!Regular
  <2>2. entries[i].offset \in Nat /\ entries[i].size \in Nat
    <3>1. entries[i] \in P!Entry
      BY <1>1, <2>1
    <3> QED
      BY <3>1 DEF P!Entry
  <2>3. CASE layout = "index"
    BY <1>1, <2>1, <2>3 DEF IndexOK
  <2>4. CASE layout = "stream" /\ i = Len(entries)
    <3>1. entries # <<>>
      BY <1>1, <2>1
    <3> QED
      BY <1>1, <2>2, <2>4, <3>1 DEF StreamOK, P!Size
  <2>5. CASE layout = "stream" /\ i # Len(entries)
    <3>1. i \in 1..Len(entries) - 1
      <4>1. Len(entries) \in Nat
        BY <1>1
      <4> QED
        BY ONLY <2>1, <2>5, <4>1
    <3>2. entries[i + 1].offset = entries[i].offset + entries[i].size + 2
      BY <1>1, <2>5, <3>1 DEF StreamOK
    <3> QED
      BY <2>2, <2>5, <3>2
  <2> QED
    BY <1>1, <2>3, <2>4, <2>5
<1>3. P!NothingIsLeft
  <2> SUFFICES ASSUME layout = "stream", NEW i \in 3..Len(stage)
               PROVE  \E e \in P!Range(entries) : i \in e.offset - 1..e.offset + e.size
    BY DEF P!NothingIsLeft, P!Size
  <2>1. PICK n \in DOMAIN entries : i \in entries[n].offset - 1..entries[n].offset + entries[n].size
    BY <1>1 DEF StreamOK
  <2> QED
    BY <2>1 DEF P!Range
<1>4. P!AcceptedIsRestorable
  <2>1. \A i, j \in DOMAIN entries : P!Path(i) = P!Path(j) => i = j
    BY <1>1 DEF P!ValidEntry, P!Path
  <2>2. ASSUME NEW i \in DOMAIN entries PROVE P!Path(i)[1] = P!Path(1)[1] /\ Up \notin P!Range(P!Path(i))
    BY <1>1, <2>2 DEF P!ValidEntry, P!ValidHierarchy, P!SafeArchivePath, P!Path
  <2>3. ASSUME NEW i \in 2..Len(entries)
        PROVE  \E j \in DOMAIN entries : P!Path(j) = SubSeq(P!Path(i), 1, Len(P!Path(i)) - 1) /\ entries[j].type = "Directory"
    <3>1. i \in DOMAIN entries /\ Len(P!Path(i)) > 1
      BY <1>1 DEF P!ValidHierarchy, P!Path
    <3>2. P!Path(i) \in Seq(STRING)
      <4>1. entries[i] \in P!Entry
        BY <1>1, <3>1
      <4> QED
        BY <4>1 DEF P!Entry, P!Path
    <3>3. Len(P!Path(i)) - 1 \in 1..Len(P!Path(i)) - 1
      BY <3>1, <3>2
    <3> QED
      BY <1>1, <3>1, <3>3 DEF P!ValidHierarchy, P!Path
  <2>4. ASSUME NEW i \in DOMAIN entries, entries[i].type = "Hardlink"
        PROVE  \E j \in P!Regular : /\ j < i /\ P!Path(j) = entries[i].link
                                   /\ entries[j].attr = entries[i].attr
    <3>1. P!EarlierFile(entries, i)
      BY <1>1, <2>4 DEF P!ValidEntry
    <3>2. PICK j \in 1..i - 1 : /\ P!Path(j) = entries[i].link /\ entries[j].type = "Regular"
                                /\ entries[j].attr = entries[i].attr
      BY <3>1 DEF P!EarlierFile, P!Path
    <3>3. j \in DOMAIN entries /\ j < i
      BY <1>1, <2>4
    <3> QED
      BY <3>2, <3>3 DEF P!Regular
  <2> QED
    BY <2>1, <2>2, <2>3, <2>4 DEF P!AcceptedIsRestorable
<1> QED
  BY <1>2, <1>3, <1>4

\* Behind cell p of a stage lie these cells.
Lies(s, p, c) == p + Len(c) <= Len(s) /\ \A j \in 1..Len(c) : s[p + j] = c[j]

\* Where the first k entries of a stream end, if their contents lie behind the
\* cells pos.
EndOf(pos, k) == IF k = 0 THEN 2 ELSE pos[k] + source[k].size

\* The first k entries of the source, as packStream lays them out.
StreamLaid(s, pos, k) ==
  /\ pos \in Seq(Nat) /\ Len(pos) = k /\ Len(s) = EndOf(pos, k) /\ Len(s) >= 2 + 2 * k
  /\ s[1] = P!Magic("stream") /\ s[2] = P!Number(Len(source))
  /\ \A i \in 1..k : /\ pos[i] = EndOf(pos, i - 1) + 2
                     /\ s[pos[i] - 1] = P!Magic("entry")
                     /\ s[pos[i]] = P!Metadata(source[i], 0)
                     /\ Lies(s, pos[i], P!Content(source[i]))

\* The contents of the first k entries, as packIndex lays them out in c cells.
IndexLaid(s, k, c) ==
  /\ c \in 1..Len(s) /\ s[1] = P!Magic("index")
  /\ \A i \in 1..k : /\ offsets[i] \in Nat /\ offsets[i] >= 1
                     /\ offsets[i] + source[i].size <= c
                     /\ Lies(s, offsets[i], P!Content(source[i]))

\* The central directory and the trailer behind cell c.
DirectoryLaid(s, c) ==
  LET n == Len(source)
      end == c + 2 + n IN
  /\ Len(s) = end + 5
  /\ s[c + 1] = P!Magic("central") /\ s[c + 2] = P!Number(n)
  /\ \A i \in 1..n : s[c + 2 + i] = P!Metadata(source[i], offsets[i])
  /\ s[end + 1] = P!Magic("end") /\ s[end + 2] = P!Number(c) /\ s[end + 3] = P!Number(n + 2)
  /\ s[end + 4] = P!Number(n) /\ s[end + 5] = P!Number(0)

\* The entries that have been read are those of the source.
SameEntries(pos) ==
  \A i \in 1..Len(entries) : entries[i] = [source[i] EXCEPT !.offset = pos[i]]

StreamRead ==
  \E pos : /\ StreamLaid(stage, pos, Len(source)) /\ SameEntries(pos)
           /\ at = EndOf(pos, Len(entries))
IndexRead ==
  /\ IndexLaid(stage, Len(source), central) /\ DirectoryLaid(stage, central)
  /\ SameEntries(offsets)

\* An undamaged stage holds the source, and what has been read of it is the
\* beginning of the source.
PackExact ==
  damages = 0 =>
    /\ pc # "failed"
    /\ pc = "pack" => IF layout = "stream" THEN \E pos : StreamLaid(stage, pos, at)
                                           ELSE IndexLaid(stage, at, Len(stage))
    /\ pc \in {"stored", "open"} =>
         IF layout = "stream" THEN \E pos : StreamLaid(stage, pos, Len(source))
         ELSE \E c : IndexLaid(stage, Len(source), c) /\ DirectoryLaid(stage, c)
    /\ pc \in {"read", "validate", "done"} =>
         /\ count = Len(source)
         /\ IF layout = "stream" THEN StreamRead ELSE IndexRead
    /\ pc \in {"validate", "done"} => Len(entries) = Len(source)

\* The entries of a source are as the scan leaves them.
LEMMA ScannedFacts ==
  ASSUME NEW s \in Sources
  PROVE  /\ Len(s) >= 1 /\ P!ValidList(s)
         /\ \A i \in 1..Len(s) : /\ P!WellFormed(s[i]) /\ s[i].offset = 0
                                 /\ Len(P!Content(s[i])) = s[i].size
<1>1. s \in Seq(P!Entry) /\ P!Scanned(s)
  BY PackAssumption DEF P!SourcesAssumption
<1>2. Len(s) >= 1 /\ P!ValidList(s)
  BY <1>1 DEF P!Scanned
<1>3. ASSUME NEW i \in 1..Len(s)
      PROVE  P!WellFormed(s[i]) /\ s[i].offset = 0 /\ Len(P!Content(s[i])) = s[i].size
  <2>1. P!WellFormed(s[i]) /\ s[i].offset = 0 /\ s[i] \in P!Entry
    BY <1>1 DEF P!Scanned
  <2>2. PICK n \in Nat : n = s[i].size
    BY <2>1 DEF P!Entry
  <2>3. CASE s[i].type = "Regular"
    <3>1. PICK c : c = P!Content(s[i])
      OBVIOUS
    <3>2. c = [j \in 1..n |-> [k |-> "data", v |-> <<s[i].path, j>>]]
      BY <2>2, <2>3, <3>1 DEF P!Content
    <3>3. Len(c) = n
      BY <3>2
    <3> QED
      BY <2>1, <2>2, <3>1, <3>3
  <2>4. CASE s[i].type # "Regular"
    <3>1. P!Content(s[i]) = <<>> /\ s[i].size = 0
      BY <2>1, <2>4 DEF P!Content, P!WellFormed
    <3> QED
      BY <2>1, <3>1
  <2> QED
    BY <2>3, <2>4
<1> QED
  BY <1>2, <1>3

\* The cells of two sequences in one.
LEMMA CellsJoin ==
  ASSUME NEW s \in Seq(StageCells), NEW c \in Seq(StageCells)
  PROVE  /\ s \o c \in Seq(StageCells) /\ Len(s \o c) = Len(s) + Len(c)
         /\ \A i \in 1..Len(s) : (s \o c)[i] = s[i]
         /\ \A j \in 1..Len(c) : (s \o c)[Len(s) + j] = c[j]
<1>1. s \o c \in Seq(StageCells) /\ Len(s \o c) = Len(s) + Len(c)
  BY ConcatProperties
<1>2. \A i \in 1..Len(s) + Len(c) : (s \o c)[i] = IF i <= Len(s) THEN s[i] ELSE c[i - Len(s)]
  BY ConcatProperties
<1>3. Len(s) \in Nat /\ Len(c) \in Nat
  OBVIOUS
<1>4. ASSUME NEW i \in 1..Len(s) PROVE (s \o c)[i] = s[i]
  BY <1>2, <1>3
<1>5. ASSUME NEW j \in 1..Len(c) PROVE (s \o c)[Len(s) + j] = c[j]
  <2>1. Len(s) + j \in 1..Len(s) + Len(c) /\ ~(Len(s) + j <= Len(s)) /\ (Len(s) + j) - Len(s) = j
    BY <1>3
  <2> QED
    BY <1>2, <2>1
<1> QED
  BY <1>1, <1>4, <1>5

\* What lies in a stage stays where it is when the stage goes on.
LEMMA LiesOn ==
  ASSUME NEW s \in Seq(StageCells), NEW t \in Seq(StageCells), NEW c \in Seq(StageCells),
         NEW p \in Nat, Len(s) <= Len(t), \A i \in 1..Len(s) : t[i] = s[i], Lies(s, p, c)
  PROVE  Lies(t, p, c)
<1>1. Len(s) \in Nat /\ Len(t) \in Nat /\ Len(c) \in Nat
  OBVIOUS
<1>2. p + Len(c) <= Len(t)
  BY <1>1 DEF Lies
<1>3. ASSUME NEW j \in 1..Len(c) PROVE t[p + j] = c[j]
  <2>1. p + j \in 1..Len(s)
    BY <1>1 DEF Lies
  <2> QED
    BY <2>1 DEF Lies
<1> QED
  BY <1>2, <1>3 DEF Lies

\* What the writers begin with is exact.
LEMMA ExactInit == P!Init => PackExact
<1> SUFFICES ASSUME P!Init PROVE PackExact
  OBVIOUS
<1>1. pc = "pack" /\ at = 0 /\ layout \in {"stream", "index"}
  BY DEF P!Init
<1>2. CASE layout = "stream"
  <2>1. stage = <<P!Magic("stream"), P!Number(Len(source))>>
    BY <1>2 DEF P!Init
  <2>2. PICK pos : pos = <<>>
    OBVIOUS
  <2>3. pos \in Seq(Nat) /\ Len(pos) = 0 /\ 1..0 = {}
    BY <2>2
  <2>4. Len(stage) = 2 /\ stage[1] = P!Magic("stream") /\ stage[2] = P!Number(Len(source))
    BY <2>1
  <2>5. StreamLaid(stage, pos, 0)
    BY <2>3, <2>4 DEF StreamLaid, EndOf
  <2> QED
    BY <1>1, <1>2, <2>5 DEF PackExact
<1>3. CASE layout = "index"
  <2>1. stage = <<P!Magic("index")>>
    BY <1>3 DEF P!Init
  <2>2. Len(stage) = 1 /\ stage[1] = P!Magic("index") /\ 1..0 = {}
    BY <2>1
  <2>3. IndexLaid(stage, 0, Len(stage))
    BY <2>2 DEF IndexLaid
  <2> QED
    BY <1>1, <1>3, <2>3 DEF PackExact
<1> QED
  BY <1>1, <1>2, <1>3

\* packStream writes the next entry.
LEMMA StreamEntryExact ==
  ASSUME PackInv, PackExact, P!PackStreamEntry
  PROVE  PackExact'
<1> SUFFICES ASSUME damages = 0 PROVE PackExact'
  BY DEF PackExact, P!PackStreamEntry
<1>1. /\ pc = "pack" /\ layout = "stream" /\ at < Len(source) /\ at' = at + 1
      /\ UNCHANGED <<source, layout, offsets, pc, central, count, entries, damages>>
  BY DEF P!PackStreamEntry, P!writer
<1>2. /\ source \in Sources /\ at \in 0..Len(source) /\ stage \in Seq(StageCells)
      /\ Len(stage) \in Nat /\ source \in Seq(P!Entry)
  BY <1>1, SourceFacts DEF PackInv, P!TypeOK, WriterOK
<1>3. PICK pos : StreamLaid(stage, pos, at)
  BY <1>1 DEF PackExact
<1>4. PICK k \in Nat : k = at /\ k + 1 \in 1..Len(source)
  BY <1>1, <1>2
<1>5. PICK e \in P!Entry : e = source[k + 1] /\ Len(P!Content(e)) = e.size /\ e.size \in Nat
                          /\ P!Content(e) \in Seq(StageCells)
  <2>1. source[k + 1] \in P!Entry /\ source[k + 1].size \in Nat
    BY <1>2, <1>4, SourceFacts
  <2> QED
    BY <1>2, <1>4, <2>1, ScannedFacts, CellFacts
<1>6. PICK h \in Seq(StageCells) : h = <<P!Magic("entry"), P!Metadata(e, 0)>> /\ Len(h) = 2
                                  /\ h[1] = P!Magic("entry") /\ h[2] = P!Metadata(e, 0)
  <2>1. PICK a \in StageCells, b \in StageCells : a = P!Magic("entry") /\ b = P!Metadata(e, 0)
    BY CellFacts, FixedCells
  <2>2. <<a, b>> \in Seq(StageCells) /\ Len(<<a, b>>) = 2 /\ <<a, b>>[1] = a /\ <<a, b>>[2] = b
    OBVIOUS
  <2> QED
    BY <2>1, <2>2
<1>7. PICK c \in Seq(StageCells) : c = P!Content(e) /\ Len(c) = e.size
  BY <1>5
<1>8. stage' = (stage \o h) \o c
  BY <1>4, <1>5, <1>6, <1>7 DEF P!PackStreamEntry
<1>9. PICK s \in Seq(StageCells) : s = stage \o h /\ Len(s) = Len(stage) + 2
        /\ (\A i \in 1..Len(stage) : s[i] = stage[i])
        /\ s[Len(stage) + 1] = P!Magic("entry") /\ s[Len(stage) + 2] = P!Metadata(e, 0)
  <2>1. 1 \in 1..Len(h) /\ 2 \in 1..Len(h)
    BY <1>6
  <2>2. stage \in Seq(StageCells) /\ h \in Seq(StageCells)
    BY <1>2
  <2>3. /\ stage \o h \in Seq(StageCells) /\ Len(stage \o h) = Len(stage) + Len(h)
        /\ \A i \in 1..Len(stage) : (stage \o h)[i] = stage[i]
        /\ \A j \in 1..Len(h) : (stage \o h)[Len(stage) + j] = h[j]
    BY ONLY <2>2, CellsJoin
  <2>4. PICK s \in Seq(StageCells) : s = stage \o h
    BY <2>3
  <2> QED
    BY <1>6, <2>1, <2>3, <2>4
<1>10. PICK t \in Seq(StageCells) : t = stage' /\ Len(t) = Len(s) + Len(c)
        /\ (\A i \in 1..Len(s) : t[i] = s[i]) /\ (\A j \in 1..Len(c) : t[Len(s) + j] = c[j])
  BY <1>8, <1>9, CellsJoin
<1>11. PICK l \in Nat : l = Len(stage) /\ l >= 2 + 2 * k /\ Len(s) = l + 2 /\ Len(t) = l + 2 + e.size
  BY <1>2, <1>3, <1>4, <1>7, <1>9, <1>10 DEF StreamLaid
<1>12. /\ \A i \in 1..l : t[i] = stage[i]
       /\ t[l + 1] = P!Magic("entry") /\ t[l + 2] = P!Metadata(e, 0)
       /\ \A j \in 1..Len(c) : t[(l + 2) + j] = c[j]
  <2>1. \A i \in 1..l : i \in 1..Len(s)
    BY <1>11
  <2>2. l + 1 \in 1..Len(s) /\ l + 2 \in 1..Len(s)
    BY <1>11
  <2> QED
    BY <1>9, <1>10, <1>11, <2>1, <2>2
<1>13. PICK p : p = Append(pos, l + 2)
  OBVIOUS
<1>14. /\ p \in Seq(Nat) /\ Len(p) = k + 1 /\ p[k + 1] = l + 2
       /\ \A i \in 1..k : p[i] = pos[i]
  <2>1. pos \in Seq(Nat) /\ Len(pos) = k /\ l + 2 \in Nat
    BY <1>3, <1>4 DEF StreamLaid
  <2> QED
    BY ONLY <1>13, <2>1, AppendProperties
<1>15. ASSUME NEW i \in 0..k PROVE EndOf(p, i) = EndOf(pos, i)
  <2>1. i = 0 \/ i \in 1..k
    OBVIOUS
  <2> QED
    BY <1>14, <2>1 DEF EndOf
<1>16. EndOf(p, k) = l
  <2>1. k \in 0..k
    OBVIOUS
  <2> QED
    BY <1>3, <1>4, <1>11, <1>15, <2>1 DEF StreamLaid
<1>17. ASSUME NEW i \in 1..k + 1
       PROVE  /\ p[i] = EndOf(p, i - 1) + 2 /\ t[p[i] - 1] = P!Magic("entry")
              /\ t[p[i]] = P!Metadata(source[i], 0) /\ Lies(t, p[i], P!Content(source[i]))
  <2>1. CASE i = k + 1
    <3>1. i - 1 = k /\ p[i] - 1 = l + 1 /\ p[i] = l + 2
      BY <1>14, <2>1
    <3>2. Lies(t, l + 2, c)
      BY <1>7, <1>11, <1>12 DEF Lies
    <3> QED
      BY <1>5, <1>7, <1>12, <1>16, <2>1, <3>1, <3>2
  <2>2. CASE i # k + 1
    <3>1. i \in 1..k /\ i - 1 \in 0..k /\ i \in 1..Len(source)
      BY <1>4, <2>2
    <3>2. /\ pos[i] = EndOf(pos, i - 1) + 2 /\ stage[pos[i] - 1] = P!Magic("entry")
          /\ stage[pos[i]] = P!Metadata(source[i], 0)
          /\ Lies(stage, pos[i], P!Content(source[i])) /\ pos[i] \in Nat
      <4>1. /\ pos \in Seq(Nat) /\ Len(pos) = k
            /\ \A j \in 1..k : /\ pos[j] = EndOf(pos, j - 1) + 2
                               /\ stage[pos[j] - 1] = P!Magic("entry")
                               /\ stage[pos[j]] = P!Metadata(source[j], 0)
                               /\ Lies(stage, pos[j], P!Content(source[j]))
        BY <1>3, <1>4 DEF StreamLaid
      <4>2. pos[i] \in Nat
        BY ONLY <4>1, <3>1
      <4> QED
        BY ONLY <4>1, <4>2, <3>1
    <3>3. EndOf(pos, i - 1) \in Nat
      <4>1. i - 1 = 0 \/ (i - 1 \in 1..k /\ i - 1 \in 1..Len(source))
        BY <3>1
      <4>2. i - 1 \in 1..k => pos[i - 1] \in Nat
        BY <1>3, <1>4 DEF StreamLaid
      <4>3. i - 1 \in 1..Len(source) => source[i - 1].size \in Nat
        BY <1>2, SourceFacts
      <4> QED
        BY <4>1, <4>2, <4>3 DEF EndOf
    <3>4. P!Content(source[i]) \in Seq(StageCells)
      BY <1>2, <3>1, SourceFacts, CellFacts
    <3>5. PICK q \in Nat : q = pos[i] /\ q >= 2
      BY <3>2, <3>3
    <3>6. Len(P!Content(source[i])) \in Nat /\ q <= l
      BY <1>11, <3>2, <3>4, <3>5 DEF Lies
    <3>7. q - 1 \in 1..l /\ q \in 1..l
      BY <3>5, <3>6
    <3>8. t[q - 1] = P!Magic("entry") /\ t[q] = P!Metadata(source[i], 0)
      BY <1>12, <3>2, <3>5, <3>7
    <3>9. Lies(t, q, P!Content(source[i]))
      <4>1. Len(stage) <= Len(t) /\ \A j \in 1..Len(stage) : t[j] = stage[j]
        BY <1>5, <1>11, <1>12
      <4> QED
        BY <1>2, <3>2, <3>4, <3>5, <4>1, LiesOn
    <3> QED
      BY <1>14, <1>15, <3>1, <3>2, <3>5, <3>8, <3>9
  <2> QED
    BY <2>1, <2>2
<1>18. StreamLaid(t, p, k + 1)
  <2>1. EndOf(p, k + 1) = l + 2 + e.size
    BY <1>4, <1>5, <1>14 DEF EndOf
  <2>2. 1 \in 1..l /\ 2 \in 1..l
    BY <1>4, <1>11
  <2>3. stage[1] = P!Magic("stream") /\ stage[2] = P!Number(Len(source))
    BY <1>3 DEF StreamLaid
  <2>4. Len(t) >= 2 + 2 * (k + 1)
    <3>1. k \in Nat /\ e.size \in Nat
      BY <1>4, <1>5
    <3>2. l \in Nat /\ l >= 2 + 2 * k /\ Len(t) = l + 2 + e.size
      BY <1>11
    <3> QED
      BY ONLY <3>1, <3>2
  <2> QED
    BY <1>11, <1>12, <1>14, <1>17, <2>1, <2>2, <2>3, <2>4 DEF StreamLaid
<1>19. \E q : StreamLaid(stage, q, at)'
  <2>1. StreamLaid(stage, p, at)' <=> StreamLaid(t, p, k + 1)
    BY <1>1, <1>4, <1>10 DEF StreamLaid, EndOf
  <2> QED
    BY <1>18, <2>1
<1> QED
  BY <1>1, <1>19 DEF PackExact

\* packIndex writes the content of the next entry.
LEMMA IndexEntryExact ==
  ASSUME PackInv, PackExact, P!PackIndexEntry
  PROVE  PackExact'
<1> SUFFICES ASSUME damages = 0 PROVE PackExact'
  BY DEF PackExact, P!PackIndexEntry
<1>1. /\ pc = "pack" /\ layout = "index" /\ at < Len(source) /\ at' = at + 1
      /\ offsets' = Append(offsets, Len(stage))
      /\ UNCHANGED <<source, layout, pc, central, count, entries, damages>>
  BY DEF P!PackIndexEntry, P!Size
<1>2. /\ source \in Sources /\ at \in 0..Len(source) /\ stage \in Seq(StageCells)
      /\ Len(stage) \in Nat /\ source \in Seq(P!Entry) /\ offsets \in Seq(Nat)
      /\ Len(offsets) = at
  BY <1>1, SourceFacts DEF PackInv, P!TypeOK, WriterOK
<1>3. IndexLaid(stage, at, Len(stage))
  BY <1>1 DEF PackExact
<1>4. PICK k \in Nat : k = at /\ k + 1 \in 1..Len(source)
  BY <1>1, <1>2
<1>5. PICK e \in P!Entry : e = source[k + 1] /\ Len(P!Content(e)) = e.size /\ e.size \in Nat
                          /\ P!Content(e) \in Seq(StageCells)
  <2>1. source[k + 1] \in P!Entry /\ source[k + 1].size \in Nat
    BY <1>2, <1>4, SourceFacts
  <2> QED
    BY <1>2, <1>4, <2>1, ScannedFacts, CellFacts
<1>7. PICK c \in Seq(StageCells) : c = P!Content(e) /\ Len(c) = e.size
  BY <1>5
<1>8. stage' = stage \o c
  BY <1>4, <1>5, <1>7 DEF P!PackIndexEntry
<1>9. PICK t \in Seq(StageCells), l \in Nat : t = stage' /\ l = Len(stage) /\ Len(t) = l + e.size
        /\ (\A i \in 1..l : t[i] = stage[i]) /\ (\A j \in 1..Len(c) : t[l + j] = c[j])
  <2>1. stage \in Seq(StageCells) /\ c \in Seq(StageCells)
    BY <1>2
  <2>2. /\ stage \o c \in Seq(StageCells) /\ Len(stage \o c) = Len(stage) + Len(c)
        /\ \A i \in 1..Len(stage) : (stage \o c)[i] = stage[i]
        /\ \A j \in 1..Len(c) : (stage \o c)[Len(stage) + j] = c[j]
    BY ONLY <2>1, CellsJoin
  <2>3. PICK t \in Seq(StageCells), l \in Nat : t = stage \o c /\ l = Len(stage)
    BY <1>2, <2>2
  <2>4. t = stage' /\ Len(t) = l + e.size
    BY <1>7, <1>8, <2>2, <2>3
  <2>5. (\A i \in 1..l : t[i] = stage[i]) /\ (\A j \in 1..Len(c) : t[l + j] = c[j])
    BY <2>2, <2>3
  <2> QED
    BY <2>3, <2>4, <2>5
<1>10. /\ Len(offsets') = k + 1 /\ offsets'[k + 1] = l
       /\ \A i \in 1..k : offsets'[i] = offsets[i]
  BY ONLY <1>1, <1>2, <1>4, <1>9, AppendProperties
<1>11. l >= 1 /\ stage[1] = P!Magic("index")
  BY <1>3, <1>9 DEF IndexLaid
<1>12. ASSUME NEW i \in 1..k + 1
       PROVE  /\ offsets'[i] \in Nat /\ offsets'[i] >= 1
              /\ offsets'[i] + source[i].size <= Len(t)
              /\ Lies(t, offsets'[i], P!Content(source[i]))
  <2>1. CASE i = k + 1
    <3>1. Lies(t, l, c)
      <4>1. l + Len(c) <= Len(t)
        BY <1>5, <1>7, <1>9
      <4> QED
        BY <1>9, <4>1 DEF Lies
    <3> QED
      BY <1>5, <1>7, <1>9, <1>10, <1>11, <2>1, <3>1
  <2>2. CASE i # k + 1
    <3>1. i \in 1..k /\ i \in 1..Len(source)
      BY <1>4, <2>2
    <3>2. /\ offsets[i] \in Nat /\ offsets[i] >= 1 /\ offsets[i] + source[i].size <= l
          /\ Lies(stage, offsets[i], P!Content(source[i]))
      BY <1>3, <1>4, <1>9, <3>1 DEF IndexLaid
    <3>3. P!Content(source[i]) \in Seq(StageCells) /\ source[i].size \in Nat
      BY <1>2, <3>1, SourceFacts, CellFacts
    <3>4. Lies(t, offsets[i], P!Content(source[i]))
      <4>1. Len(stage) <= Len(t) /\ \A j \in 1..Len(stage) : t[j] = stage[j]
        BY <1>5, <1>9
      <4> QED
        BY <1>2, <3>2, <3>3, <4>1, LiesOn
    <3>5. offsets[i] + source[i].size <= l + e.size
      BY <1>5, <3>2, <3>3
    <3> QED
      BY <1>9, <1>10, <3>1, <3>2, <3>4, <3>5
  <2> QED
    BY <2>1, <2>2
<1>13. IndexLaid(stage, at, Len(stage))'
  <2>1. t[1] = P!Magic("index") /\ Len(t) \in 1..Len(t)
    <3>1. 1 \in 1..l
      BY <1>11
    <3> QED
      BY <1>5, <1>9, <1>11, <3>1
  <2> QED
    BY <1>1, <1>4, <1>9, <1>12, <2>1 DEF IndexLaid
<1> QED
  BY <1>1, <1>13 DEF PackExact

\* packIndex writes the central directory and the trailer.
LEMMA PackEndExact ==
  ASSUME PackInv, PackExact, P!PackEnd
  PROVE  PackExact'
<1> SUFFICES ASSUME damages = 0 PROVE PackExact'
  BY DEF PackExact, P!PackEnd
<1>1. /\ UNCHANGED <<source, layout, offsets, central, count, entries, damages>>
      /\ pc = "pack" /\ at = Len(source) /\ pc' = "stored" /\ layout \in {"stream", "index"}
  BY DEF P!PackEnd, P!writer, PackInv, P!TypeOK
<1>2. CASE layout = "stream"
  <2>1. stage' = stage
    BY <1>2 DEF P!PackEnd
  <2>2. PICK pos : StreamLaid(stage, pos, Len(source))
    BY <1>1, <1>2 DEF PackExact
  <2>3. StreamLaid(stage, pos, Len(source))'
    BY <1>1, <2>1, <2>2 DEF StreamLaid, EndOf
  <2> QED
    BY <1>1, <1>2, <2>3 DEF PackExact
<1>3. CASE layout = "index"
  <2>1. IndexLaid(stage, Len(source), Len(stage))
    BY <1>1, <1>3 DEF PackExact
  <2>2. /\ source \in Sources /\ stage \in Seq(StageCells) /\ offsets \in Seq(Nat)
        /\ Len(offsets) = Len(source)
    BY <1>1, <1>3 DEF PackInv, P!TypeOK, WriterOK
  <2>3. PICK n \in Nat : n = Len(source)
    BY <2>2, SourceFacts
  <2>4. PICK l \in Nat : l = Len(stage)
    BY <2>2
  <2>5. n \in 0..Word - 1 /\ l \in 0..Word - 1 /\ n + 2 \in 0..Word - 1 /\ 0 \in 0..Word - 1
    <3>1. PICK m \in 0..MaxEntries : m = n
      BY <2>2, <2>3, SourceFacts
    <3>2. /\ m * (MaxSize + 2) \in Nat /\ m * (MaxSize + 2) + 7 < Word /\ m + 2 < Word
          /\ Word \in Nat
      BY WordFacts
    <3>3. PICK k \in Nat : k = m * (MaxSize + 2)
      BY <3>2
    <3>4. l <= 2 + k
      BY <1>1, <2>3, <2>4, <3>1, <3>3 DEF PackInv, WriterOK
    <3> QED
      BY <2>3, <2>4, <3>1, <3>2, <3>3, <3>4
  <2>6. PICK f \in Seq(StageCells) :
          f = <<P!Magic("central"), P!Number(n)>> /\ Len(f) = 2
          /\ f[1] = P!Magic("central") /\ f[2] = P!Number(n)
    <3>1. PICK a \in StageCells, b \in StageCells : a = P!Magic("central") /\ b = P!Number(n)
      BY <2>5, FixedCells
    <3>2. <<a, b>> \in Seq(StageCells) /\ Len(<<a, b>>) = 2 /\ <<a, b>>[1] = a /\ <<a, b>>[2] = b
      OBVIOUS
    <3> QED
      BY <3>1, <3>2
  <2>7. PICK g \in Seq(StageCells) :
          /\ g = [i \in 1..n |-> P!Metadata(source[i], offsets[i])] /\ Len(g) = n
          /\ \A i \in 1..n : g[i] = P!Metadata(source[i], offsets[i])
    <3>1. \A i \in 1..n : P!Metadata(source[i], offsets[i]) \in StageCells
      <4> TAKE i \in 1..n
      <4>1. offsets[i] \in Nat /\ source[i] \in P!Entry
        BY <2>2, <2>3, SourceFacts
      <4> QED
        BY <4>1, CellFacts
    <3>2. PICK h : h = [i \in 1..n |-> P!Metadata(source[i], offsets[i])]
      OBVIOUS
    <3>3. h \in [1..n -> StageCells]
      BY <3>1, <3>2
    <3> QED
      BY <3>2, <3>3
  <2>8. PICK d \in Seq(StageCells) : d = f \o g /\ Len(d) = n + 2
          /\ d[1] = P!Magic("central") /\ d[2] = P!Number(n)
          /\ \A i \in 1..n : d[2 + i] = P!Metadata(source[i], offsets[i])
    <3>1. 1 \in 1..Len(f) /\ 2 \in 1..Len(f)
      BY <2>6
    <3>2. f \in Seq(StageCells) /\ g \in Seq(StageCells)
      OBVIOUS
    <3>3. /\ f \o g \in Seq(StageCells) /\ Len(f \o g) = Len(f) + Len(g)
          /\ \A i \in 1..Len(f) : (f \o g)[i] = f[i]
          /\ \A j \in 1..Len(g) : (f \o g)[Len(f) + j] = g[j]
      BY ONLY <3>2, CellsJoin
    <3>4. PICK d \in Seq(StageCells) : d = f \o g
      BY <3>3
    <3>5. Len(d) = n + 2 /\ \A j \in 1..n : d[2 + j] = g[j]
      BY <2>6, <2>7, <3>3, <3>4
    <3> QED
      BY <2>6, <2>7, <3>1, <3>3, <3>4, <3>5
  <2>9. PICK r \in Seq(StageCells) :
          /\ r = <<P!Magic("end"), P!Number(l), P!Number(Len(d)), P!Number(n), P!Number(0)>>
          /\ Len(r) = 5 /\ r[1] = P!Magic("end") /\ r[2] = P!Number(l)
          /\ r[3] = P!Number(n + 2) /\ r[4] = P!Number(n) /\ r[5] = P!Number(0)
    <3>1. PICK a \in StageCells, b \in StageCells, c \in StageCells, x \in StageCells,
               y \in StageCells :
            a = P!Magic("end") /\ b = P!Number(l) /\ c = P!Number(n + 2) /\ x = P!Number(n)
            /\ y = P!Number(0)
      BY <2>5, FixedCells
    <3>2. PICK z : z = <<a, b, c, x, y>>
      OBVIOUS
    <3>3. z \in Seq(StageCells) /\ Len(z) = 5 /\ z[1] = a /\ z[2] = b /\ z[3] = c /\ z[4] = x
          /\ z[5] = y
      BY <3>2
    <3> QED
      BY <2>8, <3>1, <3>2, <3>3
  <2>10. stage' = (stage \o d) \o r
    BY <1>3, <2>3, <2>4, <2>6, <2>7, <2>8, <2>9 DEF P!PackEnd, P!Size
  <2>11. PICK s \in Seq(StageCells) : s = stage \o d /\ Len(s) = l + (n + 2)
           /\ (\A i \in 1..l : s[i] = stage[i]) /\ (\A i \in 1..n + 2 : s[l + i] = d[i])
    <3>1. stage \in Seq(StageCells) /\ d \in Seq(StageCells)
      BY <2>2
    <3>2. /\ stage \o d \in Seq(StageCells) /\ Len(stage \o d) = Len(stage) + Len(d)
          /\ \A i \in 1..Len(stage) : (stage \o d)[i] = stage[i]
          /\ \A j \in 1..Len(d) : (stage \o d)[Len(stage) + j] = d[j]
      BY ONLY <3>1, CellsJoin
    <3>3. PICK s \in Seq(StageCells) : s = stage \o d
      BY <3>2
    <3> QED
      BY <2>4, <2>8, <3>2, <3>3
  <2>12. PICK t \in Seq(StageCells), m \in Nat : t = stage' /\ m = l + (n + 2) /\ Len(t) = m + 5
           /\ (\A i \in 1..m : t[i] = s[i]) /\ (\A i \in 1..5 : t[m + i] = r[i])
    <3>1. s \in Seq(StageCells) /\ r \in Seq(StageCells)
      OBVIOUS
    <3>2. /\ s \o r \in Seq(StageCells) /\ Len(s \o r) = Len(s) + Len(r)
          /\ \A i \in 1..Len(s) : (s \o r)[i] = s[i]
          /\ \A j \in 1..Len(r) : (s \o r)[Len(s) + j] = r[j]
      BY ONLY <3>1, CellsJoin
    <3>3. l + (n + 2) \in Nat
      OBVIOUS
    <3>4. PICK t \in Seq(StageCells) : t = s \o r
      BY <3>2
    <3>5. PICK m \in Nat : m = l + (n + 2) /\ m = Len(s)
      BY <2>11, <3>3
    <3>6. t = stage' /\ Len(t) = m + 5
      BY <2>9, <2>10, <2>11, <3>2, <3>4, <3>5
    <3>7. (\A i \in 1..m : t[i] = s[i]) /\ (\A i \in 1..5 : t[m + i] = r[i])
      BY <2>9, <3>2, <3>4, <3>5
    <3> QED
      BY <3>4, <3>5, <3>6, <3>7
  <2>13. /\ \A i \in 1..l : t[i] = stage[i]
         /\ \A i \in 1..n + 2 : t[l + i] = d[i]
    <3>0. m \in Nat /\ l \in Nat /\ n \in Nat /\ m = l + (n + 2)
      BY <2>12
    <3>1. (\A i \in 1..l : i \in 1..m) /\ (\A i \in 1..n + 2 : l + i \in 1..m)
      BY ONLY <3>0
    <3> QED
      BY <2>11, <2>12, <3>1
  <2>14. DirectoryLaid(t, l)
    <3>1. l + 2 + n = m
      BY <2>12
    <3>2. t[l + 1] = P!Magic("central") /\ t[l + 2] = P!Number(n)
      <4>1. 1 \in 1..n + 2 /\ 2 \in 1..n + 2
        OBVIOUS
      <4>2. t[l + 1] = d[1] /\ t[l + 2] = d[2]
        BY ONLY <2>13, <4>1
      <4> QED
        BY <2>8, <4>2
    <3>3. ASSUME NEW i \in 1..n PROVE t[l + 2 + i] = P!Metadata(source[i], offsets[i])
      <4>1. 2 + i \in 1..n + 2 /\ l + (2 + i) = l + 2 + i
        OBVIOUS
      <4>2. t[l + (2 + i)] = d[2 + i]
        BY <2>13, <4>1
      <4> QED
        BY <2>8, <4>1, <4>2
    <3>4. t[m + 1] = P!Magic("end") /\ t[m + 2] = P!Number(l) /\ t[m + 3] = P!Number(n + 2)
          /\ t[m + 4] = P!Number(n) /\ t[m + 5] = P!Number(0)
      BY <2>9, <2>12
    <3> QED
      BY <2>3, <2>12, <3>1, <3>2, <3>3, <3>4 DEF DirectoryLaid
  <2>15. IndexLaid(t, n, l)
    <3>1. l >= 1 /\ l \in 1..Len(t) /\ t[1] = P!Magic("index")
      <4>1. l >= 1 /\ stage[1] = P!Magic("index")
        BY <2>1, <2>4 DEF IndexLaid
      <4>2. l \in Nat /\ m \in Nat /\ n \in Nat /\ m = l + (n + 2) /\ Len(t) = m + 5
        BY <2>12
      <4>3. l \in 1..Len(t) /\ 1 \in 1..l
        BY ONLY <4>1, <4>2
      <4>4. t[1] = stage[1]
        BY ONLY <2>13, <4>3
      <4> QED
        BY ONLY <4>1, <4>3, <4>4
    <3>2. ASSUME NEW i \in 1..n
          PROVE  /\ offsets[i] \in Nat /\ offsets[i] >= 1 /\ offsets[i] + source[i].size <= l
                 /\ Lies(t, offsets[i], P!Content(source[i]))
      <4>1. /\ offsets[i] \in Nat /\ offsets[i] >= 1 /\ offsets[i] + source[i].size <= l
            /\ Lies(stage, offsets[i], P!Content(source[i]))
        BY <2>1, <2>3, <2>4 DEF IndexLaid
      <4>2. P!Content(source[i]) \in Seq(StageCells)
        BY <2>2, <2>3, SourceFacts, CellFacts
      <4>3. Len(stage) <= Len(t) /\ \A j \in 1..Len(stage) : t[j] = stage[j]
        <5>1. Len(stage) = l /\ Len(t) = m + 5 /\ m = l + (n + 2) /\ m \in Nat /\ l \in Nat
              /\ n \in Nat
          BY <2>4, <2>12
        <5>2. Len(stage) <= Len(t)
          BY ONLY <5>1
        <5> QED
          BY <2>13, <5>1, <5>2
      <4> QED
        BY <2>2, <4>1, <4>2, <4>3, LiesOn
    <3> QED
      BY <3>1, <3>2 DEF IndexLaid
  <2>16. \E c : (IndexLaid(stage, Len(source), c) /\ DirectoryLaid(stage, c))'
    <3>1. (IndexLaid(stage, Len(source), l) /\ DirectoryLaid(stage, l))'
          <=> IndexLaid(t, n, l) /\ DirectoryLaid(t, l)
      BY <1>1, <2>3, <2>12 DEF IndexLaid, DirectoryLaid
    <3> QED
      BY <2>14, <2>15, <3>1
  <2> QED
    BY <1>1, <1>3, <2>16 DEF PackExact
<1> QED
  BY <1>1, <1>2, <1>3

\* What the tests of the reader say of the cells the writer has made.
LEMMA CellsRead ==
  /\ \A i \in 1..Len(stage), name \in Names : stage[i] = P!Magic(name) => P!IsMagic(i, name)
  /\ \A i \in 1..Len(stage), n \in Nat :
       stage[i] = P!Number(n) => P!IsNumber(i) /\ P!At(i) = n
  /\ \A i \in 1..Len(stage), e \in P!Entry, p \in Nat :
       stage[i] = P!Metadata(e, p) => /\ P!IsEntry(i) /\ P!At(i) = [e EXCEPT !.offset = p]
                                      /\ P!At(i).size = e.size /\ P!At(i).type = e.type
                                      /\ P!At(i).offset = p
                                      /\ P!WellFormed(e) => P!WellFormed(P!At(i))
                                      /\ \A q \in Nat : [P!At(i) EXCEPT !.offset = q]
                                                          = [e EXCEPT !.offset = q]
<1>1. \A i \in 1..Len(stage), name \in Names : stage[i] = P!Magic(name) => P!IsMagic(i, name)
  BY DEF P!Magic, P!IsMagic, P!Size
<1>2. \A i \in 1..Len(stage), n \in Nat :
        stage[i] = P!Number(n) => P!IsNumber(i) /\ P!At(i) = n
  BY DEF P!Number, P!IsNumber, P!At, P!Size
<1>3. ASSUME NEW i \in 1..Len(stage), NEW e \in P!Entry, NEW p \in Nat,
             stage[i] = P!Metadata(e, p)
      PROVE  /\ P!IsEntry(i) /\ P!At(i) = [e EXCEPT !.offset = p]
             /\ P!At(i).size = e.size /\ P!At(i).type = e.type /\ P!At(i).offset = p
             /\ P!WellFormed(e) => P!WellFormed(P!At(i))
             /\ \A q \in Nat : [P!At(i) EXCEPT !.offset = q] = [e EXCEPT !.offset = q]
  <2>1. P!IsEntry(i) /\ P!At(i) = [e EXCEPT !.offset = p]
    BY <1>3 DEF P!Metadata, P!IsEntry, P!At, P!Size
  <2>2. PICK d : d = [e EXCEPT !.offset = p]
    OBVIOUS
  <2>3. /\ d.size = e.size /\ d.type = e.type /\ d.offset = p /\ d.link = e.link
        /\ \A q \in Nat : [d EXCEPT !.offset = q] = [e EXCEPT !.offset = q]
    BY <2>2 DEF P!Entry
  <2> QED
    BY <2>1, <2>2, <2>3 DEF P!WellFormed
<1> QED
  BY <1>1, <1>2, <1>3

\* A damaged stage is no longer undamaged; to open one changes nothing.
LEMMA DamageExact ==
  ASSUME PackInv, PackExact, P!Damage \/ P!Reopen
  PROVE  PackExact'
<1>1. CASE P!Damage
  <2>1. damages \in Nat
    <3>1. damages \in 0..MaxDamages
      BY DEF PackInv, P!TypeOK
    <3> QED
      BY <3>1
  <2>2. damages' # 0
    BY <1>1, <2>1 DEF P!Damage
  <2> QED
    BY <2>2 DEF PackExact
<1>2. CASE P!Reopen
  <2>1. /\ UNCHANGED <<source, layout, offsets, stage, at, central, count, entries, damages>>
        /\ pc = "stored" /\ pc' = "open"
    BY <1>2 DEF P!Reopen, P!writer, P!reader
  <2>2. /\ \A pos : StreamLaid(stage, pos, Len(source))' <=> StreamLaid(stage, pos, Len(source))
        /\ \A c : (IndexLaid(stage, Len(source), c) /\ DirectoryLaid(stage, c))'
                  <=> (IndexLaid(stage, Len(source), c) /\ DirectoryLaid(stage, c))
    BY <2>1 DEF StreamLaid, EndOf, IndexLaid, DirectoryLaid
  <2> QED
    BY <2>1, <2>2 DEF PackExact
<1> QED
  BY <1>1, <1>2

\* The reader accepts the head of an undamaged stage.
LEMMA OpenStreamExact ==
  ASSUME PackInv, PackExact, P!OpenStream
  PROVE  PackExact'
<1> SUFFICES ASSUME damages = 0 PROVE PackExact'
  BY DEF PackExact, P!OpenStream
<1>1. /\ UNCHANGED <<source, layout, offsets, stage, damages>> /\ pc = "open" /\ layout = "stream"
  BY DEF P!OpenStream, P!writer
<1>2. /\ source \in Sources /\ stage \in Seq(StageCells) /\ entries = <<>>
  BY <1>1 DEF PackInv, P!TypeOK, ReaderOK
<1>3. PICK n \in Nat : n = Len(source) /\ n \in 1..MaxEntries
  <2>1. MaxEntries \in Nat
    BY PackAssumption DEF P!WordAssumption
  <2> QED
    BY <1>2, <2>1, SourceFacts, ScannedFacts
<1>4. PICK pos : StreamLaid(stage, pos, n)
  BY <1>1, <1>3 DEF PackExact
<1>5. PICK l \in Nat : l = Len(stage) /\ l >= 2 + 2 * n
  BY <1>2, <1>4 DEF StreamLaid
<1>6. P!IsMagic(1, "stream") /\ P!IsNumber(2) /\ P!At(2) = n
  <2>1. 1 \in 1..Len(stage) /\ 2 \in 1..Len(stage) /\ "stream" \in Names
    BY <1>5 DEF Names
  <2> QED
    BY <1>3, <1>4, <2>1, CellsRead DEF StreamLaid
<1>7. n <= (l - 2) \div 2
  BY <1>5
<1>8. count' = n /\ at' = 2 /\ pc' = "read" /\ entries' = entries
  BY <1>3, <1>5, <1>6, <1>7 DEF P!OpenStream, P!Size
<1>9. StreamRead'
  <2>1. Len(entries) = 0
    BY <1>2
  <2>2. StreamLaid(stage, pos, Len(source))' <=> StreamLaid(stage, pos, n)
    BY <1>1, <1>3 DEF StreamLaid, EndOf
  <2>3. SameEntries(pos)'
    BY <1>8, <2>1 DEF SameEntries
  <2>4. (at = EndOf(pos, Len(entries)))'
    BY <1>8, <2>1 DEF EndOf
  <2> QED
    BY <1>4, <2>2, <2>3, <2>4 DEF StreamRead
<1> QED
  BY <1>1, <1>3, <1>8, <1>9 DEF PackExact

\* So does the reader of the index layout, which begins at the trailer.
LEMMA OpenIndexExact ==
  ASSUME PackInv, PackExact, P!OpenIndex
  PROVE  PackExact'
<1> SUFFICES ASSUME damages = 0 PROVE PackExact'
  BY DEF PackExact, P!OpenIndex
<1>1. /\ UNCHANGED <<source, layout, offsets, stage, damages>> /\ pc = "open" /\ layout = "index"
  BY DEF P!OpenIndex, P!writer
<1>2. /\ source \in Sources /\ stage \in Seq(StageCells) /\ entries = <<>>
  BY <1>1 DEF PackInv, P!TypeOK, ReaderOK
<1>3. PICK n \in Nat : n = Len(source) /\ n \in 1..MaxEntries
  <2>1. MaxEntries \in Nat
    BY PackAssumption DEF P!WordAssumption
  <2> QED
    BY <1>2, <2>1, SourceFacts, ScannedFacts
<1>4. PICK c : IndexLaid(stage, n, c) /\ DirectoryLaid(stage, c)
  BY <1>1, <1>3 DEF PackExact
<1>5. PICK l \in Nat : l = Len(stage)
  BY <1>2
<1>6. PICK end \in Nat : /\ end = c + 2 + n /\ l = end + 5 /\ c \in Nat /\ c >= 1
  BY <1>3, <1>4, <1>5 DEF DirectoryLaid, IndexLaid
<1>7. P!Size - P!Trailer = end
  BY <1>5, <1>6 DEF P!Size, P!Trailer
<1>8. P!IsMagic(1, "index") /\ P!IsMagic(end + 1, "end") /\ P!IsMagic(c + 1, "central")
  <2>1. 1 \in 1..Len(stage) /\ end + 1 \in 1..Len(stage) /\ c + 1 \in 1..Len(stage)
    BY <1>3, <1>5, <1>6
  <2>2. stage[1] = P!Magic("index") /\ stage[end + 1] = P!Magic("end")
        /\ stage[c + 1] = P!Magic("central")
    BY <1>3, <1>4, <1>6 DEF DirectoryLaid, IndexLaid
  <2>3. "index" \in Names /\ "end" \in Names /\ "central" \in Names
    BY DEF Names
  <2> QED
    BY ONLY <2>1, <2>2, <2>3, CellsRead
<1>9. /\ P!IsNumber(c + 2) /\ P!At(c + 2) = n
      /\ P!IsNumber(end + 2) /\ P!At(end + 2) = c
      /\ P!IsNumber(end + 3) /\ P!At(end + 3) = n + 2
      /\ P!IsNumber(end + 4) /\ P!At(end + 4) = n
      /\ P!IsNumber(end + 5) /\ P!At(end + 5) = 0
  <2>1. /\ c + 2 \in 1..Len(stage) /\ end + 2 \in 1..Len(stage) /\ end + 3 \in 1..Len(stage)
        /\ end + 4 \in 1..Len(stage) /\ end + 5 \in 1..Len(stage)
    BY <1>3, <1>5, <1>6
  <2>2. /\ stage[c + 2] = P!Number(n) /\ stage[end + 2] = P!Number(c)
        /\ stage[end + 3] = P!Number(n + 2) /\ stage[end + 4] = P!Number(n)
        /\ stage[end + 5] = P!Number(0)
    BY <1>3, <1>4, <1>6 DEF DirectoryLaid
  <2>3. n \in Nat /\ c \in Nat /\ n + 2 \in Nat /\ 0 \in Nat
    BY <1>6
  <2> QED
    BY ONLY <2>1, <2>2, <2>3, CellsRead
<1>10. \A i \in 2..5 : P!IsNumber(end + i)
  <2>1. \A i \in 2..5 : i = 2 \/ i = 3 \/ i = 4 \/ i = 5
    OBVIOUS
  <2> QED
    BY <1>9, <2>1
<1>11. P!CentralFits(c, n + 2)
  BY <1>6, <1>7 DEF P!CentralFits
<1>12. end >= 1 /\ n + 2 >= 2 /\ n <= (n + 2) - 2
  BY <1>6
<1>13. central' = c /\ count' = n /\ pc' = "read" /\ entries' = entries
  BY <1>3, <1>7, <1>8, <1>9, <1>10, <1>11, <1>12 DEF P!OpenIndex
<1>14. IndexRead'
  <2>1. Len(entries) = 0
    BY <1>2
  <2>2. SameEntries(offsets)'
    BY <1>13, <2>1 DEF SameEntries
  <2>3. (IndexLaid(stage, Len(source), central) /\ DirectoryLaid(stage, central))'
        <=> IndexLaid(stage, n, c) /\ DirectoryLaid(stage, c)
    BY <1>1, <1>3, <1>13 DEF IndexLaid, DirectoryLaid
  <2> QED
    BY <1>4, <2>2, <2>3 DEF IndexRead
<1> QED
  BY <1>1, <1>3, <1>13, <1>14 DEF PackExact

\* The list of what has been read goes on with the next entry.
LEMMA SameMore ==
  ASSUME NEW list \in Seq(P!Entry), NEW pos, Len(list) + 1 \in 1..Len(source),
         \A i \in 1..Len(list) : list[i] = [source[i] EXCEPT !.offset = pos[i]],
         NEW e \in P!Entry, e = [source[Len(list) + 1] EXCEPT !.offset = pos[Len(list) + 1]]
  PROVE  /\ Len(Append(list, e)) = Len(list) + 1
         /\ \A i \in 1..Len(list) + 1 :
              Append(list, e)[i] = [source[i] EXCEPT !.offset = pos[i]]
<1>1. /\ Len(Append(list, e)) = Len(list) + 1 /\ Append(list, e)[Len(list) + 1] = e
      /\ \A i \in 1..Len(list) : Append(list, e)[i] = list[i]
  BY AppendProperties
<1>2. \A i \in 1..Len(list) + 1 : i \in 1..Len(list) \/ i = Len(list) + 1
  OBVIOUS
<1> QED
  BY <1>1, <1>2

\* The reader of the stream layout finds the next entry of the source.
LEMMA ReadStreamExact ==
  ASSUME PackInv, PackExact, P!ReadStreamEntry
  PROVE  PackExact'
<1> SUFFICES ASSUME damages = 0 PROVE PackExact'
  BY DEF PackExact, P!ReadStreamEntry
<1>1. /\ UNCHANGED <<source, layout, offsets, stage, damages>>
      /\ pc = "read" /\ layout = "stream" /\ Len(entries) < count
  BY DEF P!ReadStreamEntry, P!writer
<1>2. /\ source \in Sources /\ stage \in Seq(StageCells) /\ entries \in Seq(P!Entry)
      /\ Len(stage) \in Nat
  BY <1>1 DEF PackInv, P!TypeOK
<1>3. PICK n \in Nat : n = Len(source) /\ count = n
  BY <1>1, <1>2, SourceFacts DEF PackExact
<1>4. PICK pos : StreamLaid(stage, pos, n) /\ SameEntries(pos) /\ at = EndOf(pos, Len(entries))
  BY <1>1, <1>3 DEF PackExact, StreamRead
<1>5. PICK k \in Nat : k = Len(entries) /\ k + 1 \in 1..n /\ k + 1 \in 1..Len(source)
  BY <1>1, <1>2, <1>3
<1>6. PICK e \in P!Entry : e = source[k + 1] /\ e.size \in Nat /\ P!WellFormed(e)
                          /\ Len(P!Content(e)) = e.size
  BY <1>2, <1>5, SourceFacts, ScannedFacts
<1>7. PICK p \in Nat : /\ p = pos[k + 1] /\ p = at + 2 /\ stage[p - 1] = P!Magic("entry")
                       /\ stage[p] = P!Metadata(e, 0) /\ Lies(stage, p, P!Content(e))
  <2>1. pos[k + 1] \in Nat
    BY <1>4, <1>5 DEF StreamLaid
  <2>2. EndOf(pos, (k + 1) - 1) = at
    BY <1>4, <1>5
  <2> QED
    BY <1>4, <1>5, <1>6, <2>1, <2>2 DEF StreamLaid
<1>8. at \in Nat /\ p - 1 = at + 1 /\ at + 1 \in 1..Len(stage) /\ p \in 1..Len(stage)
      /\ p + e.size <= Len(stage)
  <2>1. at \in Nat
    BY <1>1 DEF PackInv, P!TypeOK
  <2>2. p + e.size <= Len(stage)
    BY <1>6, <1>7 DEF Lies
  <2> QED
    BY <1>2, <1>6, <1>7, <2>1, <2>2
<1>9. P!IsMagic(at + 1, "entry") /\ P!IsEntry(at + 2) /\ P!WellFormed(P!At(at + 2))
      /\ P!At(at + 2).size = e.size
      /\ [P!At(at + 2) EXCEPT !.offset = at + 2] = [e EXCEPT !.offset = p]
  <2>1. "entry" \in Names /\ 0 \in Nat
    BY DEF Names
  <2>2. P!IsMagic(p - 1, "entry")
    BY <1>7, <1>8, <2>1, CellsRead
  <2>3. P!IsEntry(p) /\ P!WellFormed(P!At(p)) /\ P!At(p).size = e.size
        /\ [P!At(p) EXCEPT !.offset = p] = [e EXCEPT !.offset = p]
    <3>1. p \in 1..Len(stage) /\ e \in P!Entry /\ 0 \in Nat /\ stage[p] = P!Metadata(e, 0)
          /\ p \in Nat /\ P!WellFormed(e)
      BY <1>6, <1>7, <1>8
    <3> QED
      BY ONLY <3>1, CellsRead
  <2> QED
    BY <1>7, <1>8, <2>2, <2>3
<1>10. P!Present(P!At(at + 2).size, at + 2)
  BY <1>2, <1>6, <1>7, <1>8, <1>9 DEF P!Present, P!Size
<1>11. PICK d \in P!Entry : d = [e EXCEPT !.offset = p]
  BY DEF P!Entry
<1>12. /\ entries' = Append(entries, d) /\ at' = at + 2 + e.size
       /\ UNCHANGED <<pc, central, count>>
  BY <1>9, <1>10, <1>11 DEF P!ReadStreamEntry
<1>13. /\ Len(entries') = k + 1
       /\ \A i \in 1..k + 1 : entries'[i] = [source[i] EXCEPT !.offset = pos[i]]
  <2>1. \A i \in 1..Len(entries) : entries[i] = [source[i] EXCEPT !.offset = pos[i]]
    BY <1>4 DEF SameEntries
  <2>2. d = [source[Len(entries) + 1] EXCEPT !.offset = pos[Len(entries) + 1]]
    BY <1>5, <1>6, <1>7, <1>11
  <2> QED
    <3>1. entries \in Seq(P!Entry) /\ Len(entries) + 1 \in 1..Len(source) /\ d \in P!Entry
      BY <1>2, <1>5
    <3>2. /\ Len(Append(entries, d)) = Len(entries) + 1
          /\ \A i \in 1..Len(entries) + 1 :
               Append(entries, d)[i] = [source[i] EXCEPT !.offset = pos[i]]
      BY ONLY <2>1, <2>2, <3>1, SameMore
    <3> QED
      BY <1>5, <1>12, <3>2
<1>14. StreamRead'
  <2>1. StreamLaid(stage, pos, Len(source))' <=> StreamLaid(stage, pos, n)
    BY <1>1, <1>3 DEF StreamLaid, EndOf
  <2>2. SameEntries(pos)'
    BY <1>1, <1>13 DEF SameEntries
  <2>3. (at = EndOf(pos, Len(entries)))'
    <3>1. at' = p + e.size
      BY <1>7, <1>12
    <3>2. EndOf(pos, k + 1) = pos[k + 1] + source[k + 1].size
      BY DEF EndOf
    <3> QED
      BY <1>1, <1>6, <1>7, <1>13, <3>1, <3>2 DEF EndOf
  <2> QED
    BY <1>4, <2>1, <2>2, <2>3 DEF StreamRead
<1> QED
  BY <1>1, <1>3, <1>12, <1>14 DEF PackExact

\* The reader of the index layout finds the next entry of the source.
LEMMA ReadIndexExact ==
  ASSUME PackInv, PackExact, P!ReadIndexEntry
  PROVE  PackExact'
<1> SUFFICES ASSUME damages = 0 PROVE PackExact'
  BY DEF PackExact, P!ReadIndexEntry
<1>1. /\ UNCHANGED <<source, layout, offsets, stage, damages>>
      /\ pc = "read" /\ layout = "index" /\ Len(entries) < count
  BY DEF P!ReadIndexEntry, P!writer
<1>2. /\ source \in Sources /\ stage \in Seq(StageCells) /\ entries \in Seq(P!Entry)
      /\ Len(stage) \in Nat
  BY <1>1 DEF PackInv, P!TypeOK
<1>3. PICK n \in Nat : n = Len(source) /\ count = n
  BY <1>1, <1>2, SourceFacts DEF PackExact
<1>4. IndexLaid(stage, n, central) /\ DirectoryLaid(stage, central) /\ SameEntries(offsets)
  BY <1>1, <1>3 DEF PackExact, IndexRead
<1>5. PICK k \in Nat : k = Len(entries) /\ k + 1 \in 1..n /\ k + 1 \in 1..Len(source)
  BY <1>1, <1>2, <1>3
<1>6. PICK e \in P!Entry : e = source[k + 1] /\ e.size \in Nat /\ P!WellFormed(e)
  BY <1>2, <1>5, SourceFacts, ScannedFacts
<1>7. PICK p \in Nat : p = offsets[k + 1] /\ p >= 1 /\ p + e.size <= central /\ central \in Nat
  BY <1>4, <1>5, <1>6 DEF IndexLaid
<1>8. at = central + 2 + k /\ Len(stage) = central + 2 + n + 5
      /\ stage[central + 2 + (k + 1)] = P!Metadata(e, p)
  <2>1. at = central + 2 + Len(entries)
    BY <1>1 DEF PackInv, ReaderOK, IndexOK
  <2> QED
    BY <1>3, <1>4, <1>5, <1>6, <1>7, <2>1 DEF DirectoryLaid
<1>9. at + 1 = central + 2 + (k + 1) /\ at + 1 \in 1..Len(stage)
  BY <1>5, <1>7, <1>8
<1>10. /\ P!IsEntry(at + 1) /\ P!WellFormed(P!At(at + 1)) /\ P!At(at + 1).size = e.size
       /\ P!At(at + 1).offset = p /\ P!At(at + 1) = [e EXCEPT !.offset = p]
  BY <1>6, <1>8, <1>9, CellsRead
<1>11. P!ContentFits(P!At(at + 1))
  BY <1>6, <1>7, <1>10 DEF P!ContentFits
<1>12. PICK d \in P!Entry : d = [e EXCEPT !.offset = p]
  BY DEF P!Entry
<1>13. entries' = Append(entries, d) /\ UNCHANGED <<pc, central, count>>
  BY <1>10, <1>11, <1>12 DEF P!ReadIndexEntry
<1>14. /\ Len(entries') = k + 1
       /\ \A i \in 1..k + 1 : entries'[i] = [source[i] EXCEPT !.offset = offsets[i]]
  <2>1. \A i \in 1..Len(entries) : entries[i] = [source[i] EXCEPT !.offset = offsets[i]]
    BY <1>4 DEF SameEntries
  <2>2. d = [source[Len(entries) + 1] EXCEPT !.offset = offsets[Len(entries) + 1]]
    BY <1>5, <1>6, <1>7, <1>12
  <2> QED
    <3>1. entries \in Seq(P!Entry) /\ Len(entries) + 1 \in 1..Len(source) /\ d \in P!Entry
      BY <1>2, <1>5
    <3>2. /\ Len(Append(entries, d)) = Len(entries) + 1
          /\ \A i \in 1..Len(entries) + 1 :
               Append(entries, d)[i] = [source[i] EXCEPT !.offset = offsets[i]]
      BY ONLY <2>1, <2>2, <3>1, SameMore
    <3> QED
      BY <1>5, <1>13, <3>2
<1>15. IndexRead'
  <2>1. (IndexLaid(stage, Len(source), central) /\ DirectoryLaid(stage, central))'
        <=> IndexLaid(stage, n, central) /\ DirectoryLaid(stage, central)
    BY <1>1, <1>3, <1>13 DEF IndexLaid, DirectoryLaid
  <2>2. SameEntries(offsets)'
    BY <1>1, <1>14 DEF SameEntries
  <2> QED
    BY <1>4, <2>1, <2>2 DEF IndexRead
<1> QED
  BY <1>1, <1>3, <1>13, <1>15 DEF PackExact

\* An undamaged stage has nothing after its last entry.
LEMMA ReadEndExact ==
  ASSUME PackInv, PackExact, P!ReadEnd
  PROVE  PackExact'
<1> SUFFICES ASSUME damages = 0 PROVE PackExact'
  BY DEF PackExact, P!ReadEnd
<1>1. /\ UNCHANGED <<source, layout, offsets, stage, damages, at, central, count, entries>>
      /\ pc = "read" /\ Len(entries) = count
  BY DEF P!ReadEnd, P!writer, P!reader
<1>2. source \in Sources /\ stage \in Seq(StageCells) /\ layout \in {"stream", "index"}
  BY <1>1 DEF PackInv, P!TypeOK
<1>3. PICK n \in Nat : n = Len(source) /\ count = n /\ Len(entries) = n
  BY <1>1, <1>2, SourceFacts DEF PackExact
<1>4. /\ StreamRead' <=> StreamRead
      /\ IndexRead' <=> IndexRead
  BY <1>1 DEF StreamRead, IndexRead, StreamLaid, EndOf, SameEntries, IndexLaid, DirectoryLaid
<1>5. CASE layout = "stream"
  <2>1. StreamRead
    BY <1>1, <1>5 DEF PackExact
  <2>2. at = Len(stage)
    BY <1>3, <2>1 DEF StreamRead, StreamLaid
  <2>3. pc' = "validate"
    BY <1>1, <1>5, <2>2 DEF P!ReadEnd, P!Size
  <2> QED
    BY <1>1, <1>3, <1>4, <1>5, <2>1, <2>3 DEF PackExact
<1>6. CASE layout = "index"
  <2>1. IndexRead /\ IndexOK
    BY <1>1, <1>6 DEF PackExact, PackInv, ReaderOK
  <2>2. PICK c, l : c = central /\ l = Len(stage) /\ c \in Nat /\ l = c + 2 + n + 5
    BY <1>3, <2>1 DEF IndexRead, IndexLaid, DirectoryLaid
  <2>3. at = c + 2 + n
    BY <1>3, <2>1, <2>2 DEF IndexOK
  <2>4. at = P!Size - P!Trailer
    BY <2>2, <2>3 DEF P!Size, P!Trailer
  <2>5. pc' = "validate"
    BY <1>1, <1>6, <2>4 DEF P!ReadEnd
  <2> QED
    BY <1>1, <1>3, <1>4, <1>6, <2>1, <2>5 DEF PackExact
<1> QED
  BY <1>2, <1>5, <1>6

\* Where the reader finds the contents.
Found(i) ==
  /\ entries[i].offset \in Nat /\ Lies(stage, entries[i].offset, P!Content(source[i]))
  /\ entries[i] = [source[i] EXCEPT !.offset = entries[i].offset]

\* When all entries are read, each is one of the source with a place in the stage.
LEMMA AllFound ==
  ASSUME PackInv, PackExact, damages = 0, pc \in {"validate", "done"}
  PROVE  /\ Len(entries) = Len(source) /\ source \in Sources /\ Len(source) \in Nat
         /\ \A i \in 1..Len(source) : Found(i)
<1>1. /\ source \in Sources /\ layout \in {"stream", "index"} /\ Len(entries) = Len(source)
  BY DEF PackInv, P!TypeOK, PackExact
<1>2. PICK n \in Nat : n = Len(source)
  BY <1>1, SourceFacts
<1>3. PICK pos : \A i \in 1..n : /\ pos[i] \in Nat /\ Lies(stage, pos[i], P!Content(source[i]))
                                /\ entries[i] = [source[i] EXCEPT !.offset = pos[i]]
  <2>1. CASE layout = "stream"
    <3>1. PICK pos : StreamLaid(stage, pos, n) /\ SameEntries(pos)
      BY <1>2, <2>1 DEF PackExact, StreamRead
    <3>2. pos \in Seq(Nat) /\ Len(pos) = n
          /\ \A i \in 1..n : Lies(stage, pos[i], P!Content(source[i]))
      BY <3>1 DEF StreamLaid
    <3>3. \A i \in 1..n : entries[i] = [source[i] EXCEPT !.offset = pos[i]]
      BY <1>1, <1>2, <3>1 DEF SameEntries
    <3>4. \A i \in 1..n : pos[i] \in Nat
      BY <3>2
    <3> QED
      BY <3>2, <3>3, <3>4
  <2>2. CASE layout = "index"
    <3>1. IndexLaid(stage, n, central) /\ SameEntries(offsets)
      BY <1>2, <2>2 DEF PackExact, IndexRead
    <3> QED
      BY <1>1, <1>2, <3>1 DEF IndexLaid, SameEntries
  <2> QED
    BY <1>1, <2>1, <2>2
<1>4. ASSUME NEW i \in 1..n PROVE Found(i)
  <2>1. PICK e \in P!Entry : e = source[i]
    BY <1>1, <1>2, SourceFacts
  <2>2. PICK p \in Nat : p = pos[i] /\ Lies(stage, p, P!Content(e)) /\ entries[i] = [e EXCEPT !.offset = p]
    BY <1>3, <2>1
  <2>3. entries[i].offset = p
    BY <2>2 DEF P!Entry
  <2> QED
    BY <2>1, <2>2, <2>3 DEF Found
<1> QED
  BY <1>1, <1>2, <1>4

\* The fields that are validated are those of the source.
LEMMA FoundFacts ==
  ASSUME NEW i \in 1..Len(source), source \in Sources, Found(i)
  PROVE  /\ entries[i].path = source[i].path /\ entries[i].type = source[i].type
         /\ entries[i].link = source[i].link /\ entries[i].attr = source[i].attr
         /\ entries[i].size = source[i].size
         /\ [entries[i] EXCEPT !.offset = 0] = source[i]
<1>1. PICK e \in P!Entry : e = source[i] /\ e.offset = 0
  BY SourceFacts, ScannedFacts
<1>2. PICK p : entries[i] = [e EXCEPT !.offset = p]
  BY <1>1 DEF Found
<1>3. PICK d : d = [e EXCEPT !.offset = p]
  OBVIOUS
<1>4. /\ d.path = e.path /\ d.type = e.type /\ d.link = e.link /\ d.attr = e.attr
      /\ d.size = e.size /\ [d EXCEPT !.offset = 0] = e
  BY <1>1, <1>3 DEF P!Entry
<1> QED
  BY <1>1, <1>2, <1>3, <1>4

\* What the scan has made is valid when it is read.
LEMMA SourceIsValid ==
  ASSUME source \in Sources, entries \in Seq(P!Entry), Len(entries) = Len(source),
         \A i \in 1..Len(source) :
           /\ entries[i].path = source[i].path /\ entries[i].type = source[i].type
           /\ entries[i].link = source[i].link /\ entries[i].attr = source[i].attr
  PROVE  P!ValidList(entries)
<1>1. P!ValidList(source) /\ Len(source) >= 1 /\ source \in Seq(P!Entry) /\ Len(source) \in Nat
  BY ScannedFacts, SourceFacts
<1>2. DOMAIN entries = 1..Len(source) /\ DOMAIN source = 1..Len(source)
  BY <1>1
<1>3. ASSUME NEW i \in 1..Len(source) PROVE P!ValidEntry(entries, i)
  <2>1. P!ValidEntry(source, i)
    BY <1>1, <1>2 DEF P!ValidList
  <2>2. \A j \in 1..i - 1 : j \in 1..Len(source)
    BY <1>1
  <2>3. P!EarlierFile(source, i) => P!EarlierFile(entries, i)
    BY <2>2 DEF P!EarlierFile
  <2> QED
    BY <2>1, <2>2, <2>3 DEF P!ValidEntry
<1>4. P!ValidHierarchy(entries)
  <2>1. P!ValidHierarchy(source)
    BY <1>1 DEF P!ValidList
  <2>2. 1 \in 1..Len(source) /\ \A i \in 2..Len(source) : i \in 1..Len(source)
    BY <1>1
  <2>3. Len(entries[1].path) = 1 /\ entries[1].type = "Directory"
    BY <2>1, <2>2 DEF P!ValidHierarchy
  <2>4. \A i \in 2..Len(entries) :
          Len(entries[i].path) > 1 /\ entries[i].path[1] = entries[1].path[1]
    BY <2>1, <2>2 DEF P!ValidHierarchy
  <2>5. ASSUME NEW i \in DOMAIN entries, NEW m \in 1..Len(entries[i].path) - 1
        PROVE  \E j \in DOMAIN entries : /\ entries[j].path = SubSeq(entries[i].path, 1, m)
                                         /\ entries[j].type = "Directory"
    <3>1. i \in DOMAIN source /\ m \in 1..Len(source[i].path) - 1
      BY <1>2
    <3>2. PICK j \in DOMAIN source : /\ source[j].path = SubSeq(source[i].path, 1, m)
                                     /\ source[j].type = "Directory"
      BY <2>1, <3>1 DEF P!ValidHierarchy
    <3> QED
      BY <1>2, <3>2
  <2> QED
    BY <2>3, <2>4, <2>5 DEF P!ValidHierarchy
<1> QED
  BY <1>2, <1>3, <1>4 DEF P!ValidList

\* The list that has been read is accepted.
LEMMA ValidateExact ==
  ASSUME PackInv, PackExact, P!ValidateEntries
  PROVE  PackExact'
<1> SUFFICES ASSUME damages = 0 PROVE PackExact'
  BY DEF PackExact, P!ValidateEntries
<1>1. /\ UNCHANGED <<source, layout, offsets, stage, damages, at, central, count, entries>>
      /\ pc = "validate"
  BY DEF P!ValidateEntries, P!writer, P!reader
<1>2. /\ Len(entries) = Len(source) /\ source \in Sources /\ entries \in Seq(P!Entry)
      /\ \A i \in 1..Len(source) : Found(i)
  BY <1>1, AllFound DEF PackInv
<1>3. P!ValidList(entries)
  BY <1>2, FoundFacts, SourceIsValid
<1>4. ASSUME NEW i \in DOMAIN entries PROVE P!InStage(entries[i])
  <2>1. i \in 1..Len(source)
    BY <1>2
  <2>2. PICK p \in Nat, n \in Nat : /\ p = entries[i].offset /\ n = entries[i].size
                                   /\ Lies(stage, p, P!Content(source[i]))
                                   /\ Len(P!Content(source[i])) = n
    <3>1. entries[i].size = source[i].size
      BY <1>2, <2>1, FoundFacts
    <3>2. source[i].size \in Nat /\ Len(P!Content(source[i])) = source[i].size
      BY <1>2, <2>1, SourceFacts, ScannedFacts
    <3> QED
      BY <1>2, <2>1, <3>1, <3>2 DEF Found
  <2>3. Len(stage) \in Nat /\ p + n <= Len(stage)
    BY <2>2 DEF PackInv, Lies
  <2> QED
    BY <2>2, <2>3 DEF P!InStage, P!Size
<1>5. pc' = "done"
  BY <1>1, <1>3, <1>4 DEF P!ValidateEntries
<1>6. /\ StreamRead' <=> StreamRead
      /\ IndexRead' <=> IndexRead
  BY <1>1 DEF StreamRead, IndexRead, StreamLaid, EndOf, SameEntries, IndexLaid, DirectoryLaid
<1> QED
  BY <1>1, <1>5, <1>6 DEF PackExact

\* Every step of an undamaged stage is exact.
LEMMA ExactStep == PackInv /\ PackExact /\ P!Next => PackExact'
BY StreamEntryExact, IndexEntryExact, PackEndExact, DamageExact, OpenStreamExact, OpenIndexExact,
   ReadStreamExact, ReadIndexExact, ReadEndExact, ValidateExact DEF P!Next

\* Nor does standing still change that.
LEMMA ExactStill == PackExact /\ UNCHANGED P!vars => PackExact'
<1> SUFFICES ASSUME PackExact, UNCHANGED P!vars PROVE PackExact'
  OBVIOUS
<1>1. UNCHANGED <<source, layout, offsets, stage, pc, at, central, count, entries, damages>>
  BY DEF P!vars, P!writer, P!reader
<1>2. /\ StreamRead' <=> StreamRead
      /\ IndexRead' <=> IndexRead
      /\ \A pos, k : StreamLaid(stage, pos, k)' <=> StreamLaid(stage, pos, k)
      /\ (\E pos : StreamLaid(stage, pos, at))' <=> \E pos : StreamLaid(stage, pos, at)
      /\ (\E pos : StreamLaid(stage, pos, Len(source)))'
           <=> \E pos : StreamLaid(stage, pos, Len(source))
      /\ IndexLaid(stage, at, Len(stage))' <=> IndexLaid(stage, at, Len(stage))
      /\ (\E c : IndexLaid(stage, Len(source), c) /\ DirectoryLaid(stage, c))'
           <=> \E c : IndexLaid(stage, Len(source), c) /\ DirectoryLaid(stage, c)
  BY <1>1 DEF StreamRead, IndexRead, StreamLaid, EndOf, SameEntries, IndexLaid, DirectoryLaid
<1> QED
  BY <1>1, <1>2 DEF PackExact

\* What was packed is read back.
LEMMA PackReturns == PackInv /\ PackExact => P!RoundTrip
<1> SUFFICES ASSUME PackInv, PackExact, pc \in {"done", "failed"}, damages = 0
             PROVE  /\ pc = "done" /\ Len(entries) = Len(source)
                    /\ \A i \in DOMAIN source : [entries[i] EXCEPT !.offset = 0] = source[i]
                    /\ \A i \in P!Regular : P!ContentRead(i) = P!Content(source[i])
  BY DEF P!RoundTrip
<1>1. pc = "done"
  BY DEF PackExact
<1>2. /\ Len(entries) = Len(source) /\ source \in Sources /\ Len(source) \in Nat
      /\ \A i \in 1..Len(source) : Found(i)
  BY <1>1, AllFound
<1>3. DOMAIN source = 1..Len(source) /\ DOMAIN entries = 1..Len(source)
  BY <1>2, SourceFacts DEF PackInv
<1>4. \A i \in DOMAIN source : [entries[i] EXCEPT !.offset = 0] = source[i]
  BY <1>2, <1>3, FoundFacts
<1>5. ASSUME NEW i \in P!Regular PROVE P!ContentRead(i) = P!Content(source[i])
  <2>1. i \in 1..Len(source)
    BY <1>3 DEF P!Regular
  <2>2. PICK c \in Seq(StageCells), n \in Nat :
          c = P!Content(source[i]) /\ Len(c) = n /\ n = source[i].size
    <3>1. P!Content(source[i]) \in Seq(StageCells) /\ source[i].size \in Nat
      BY <1>2, <2>1, SourceFacts, CellFacts
    <3> QED
      BY <1>2, <2>1, <3>1, ScannedFacts
  <2>3. PICK p \in Nat : p = entries[i].offset /\ Lies(stage, p, c)
    BY <1>2, <2>1, <2>2 DEF Found
  <2>4. entries[i].size = n
    BY <1>2, <2>1, <2>2, FoundFacts
  <2>5. P!ContentRead(i) = SubSeq(stage, p + 1, p + n)
    BY <2>3, <2>4 DEF P!ContentRead
  <2>6. SubSeq(stage, p + 1, p + n) = [j \in 1..n |-> stage[p + j]]
    <3>1. SubSeq(stage, p + 1, p + n) = [j \in 1..(p + n) - (p + 1) + 1 |-> stage[j + (p + 1) - 1]]
      OBVIOUS
    <3>2. (p + n) - (p + 1) + 1 = n /\ \A j \in 1..n : j + (p + 1) - 1 = p + j
      OBVIOUS
    <3>3. SubSeq(stage, p + 1, p + n) = [j \in 1..n |-> stage[j + (p + 1) - 1]]
      BY ONLY <3>1, <3>2
    <3> QED
      BY ONLY <3>2, <3>3
  <2>7. \A j \in 1..n : stage[p + j] = c[j]
    BY <2>2, <2>3 DEF Lies
  <2>8. c = [j \in 1..n |-> c[j]]
    BY <2>2
  <2> QED
    BY ONLY <2>2, <2>5, <2>6, <2>7, <2>8
<1> QED
  BY <1>1, <1>2, <1>4, <1>5

-----------------------------------------------------------------------------
(* ArchiveFile.                                                            *)

\* The values of a sequence.
Elements(s) == {s[i] : i \in DOMAIN s}

\* The values of a sequence with one more.
LEMMA AppendedFacts ==
  ASSUME NEW S, NEW s \in Seq(S), NEW x, NEW t, t = Append(s, x)
  PROVE  /\ t \in Seq(S \cup {x}) /\ Len(t) = Len(s) + 1 /\ DOMAIN t = 1..Len(s) + 1
         /\ t[Len(s) + 1] = x
         /\ \A i \in 1..Len(s) : i \in DOMAIN s /\ t[i] = s[i]
<1>1. s \in Seq(S \cup {x})
  OBVIOUS
<1> QED
  BY <1>1

\* Every header is that of an archive with some fields altered, and every cell
\* is damaged or comes from an archive.
Cells == {A!Damaged} \cup UNION {Elements(f.body) : f \in A!Archives}
Headers ==
  [version : 1..5, flags : SUBSET {"present", "compressed", "encrypted"}, reserved : 0..1,
   pack : A!Packs, compression : A!Compressions, encryption : A!Encryptions,
   packedSize : 0..3, encodedSize : {2}, salt : FewSalts,
   packedDigest : {f.header.packedDigest : f \in A!Archives} \cup {<<A!Damaged>>},
   encodedDigest : {f.header.encodedDigest : f \in A!Archives} \cup {<<A!Damaged>>}]
Files == [header : Headers, body : Seq(Cells)]

\* The header is one that was written with the reader's password.
Authentic ==
  header.version = A!Authenticated =>
    \E f \in A!Created(password) : f.header = header

Copied == {"encoded", "decrypt", "decompress", "packed", "entries", "done"}
StageOK ==
  /\ pc = "copy" => stage \in Seq(Cells) /\ Len(stage) <= A!Wanted /\ opened \in 1..Len(files)
  /\ pc = "authenticate" => stage \in Seq(Cells) /\ Len(stage) = A!Wanted
  /\ pc \in Copied /\ op = "decode" => Authentic
  /\ pc \in Copied \cup {"copy", "authenticate"} /\ op = "decode" =>
       (A!Encrypted(header) => A!OptIn)
  /\ pc \in {"decompress", "packed"} /\ ~A!Encrypted(header) /\ header.compression = "none" =>
       stage = header.encodedDigest
  /\ pc = "decrypt" => stage = header.encodedDigest
  /\ pc = "entries" \/ A!Decoded => stage = header.packedDigest
  /\ A!Decoded => stage # <<>> /\ \A i \in DOMAIN stage : stage[i].layer = header.pack

ArchiveInv ==
  /\ A!TypeOK
  /\ files \in Seq(Files) /\ files # <<>> /\ header \in Headers /\ stage \in Seq(Elements(stage))
  /\ pc \in {"header", "size", "inspect", "open", "copy", "authenticate", "stopped", "failed"}
            \cup Copied
  /\ pc \in {"header", "size", "inspect", "open"} => stage = <<>>
  /\ pc = "inspect" => op = "inspect"
  /\ StageOK

\* What create, or an older program, writes.
LEMMA ArchiveIs ==
  ASSUME NEW f \in A!Archives
  PROVE  \E v \in 1..4, c \in Contents, s \in FewSalts,
            o \in [pack : A!Packs, compression : A!Compressions, encryption : A!Encryptions,
                   password : Passwords] :
           /\ v = 4 => f \in A!Created(o.password)
           /\ v = 4 => A!Encrypted(o)
           /\ f = A!Archive(v, c, o, s)
<1>1. CASE f \in A!Old
  <2>1. PICK c \in Contents, o \in OldOptions, s \in FewSalts : f = A!Archive(o.version, c, o, s)
    BY <1>1 DEF A!Old
  <2> DEFINE q == [pack |-> o.pack, compression |-> o.compression, encryption |-> o.encryption,
                   password |-> o.password]
  <2>2. /\ o.version \in 1..3
        /\ q \in [pack : A!Packs, compression : A!Compressions, encryption : A!Encryptions,
                   password : Passwords]
    BY ArchiveAssumption DEF A!OptionsAssumption
  <2>3. A!Archive(o.version, c, o, s) = A!Archive(o.version, c, q, s)
    BY DEF A!Archive, A!Header, A!Flags, A!Tag
  <2> QED
    BY <2>1, <2>2, <2>3
<1>2. ASSUME NEW w \in Passwords, f \in A!Created(w) PROVE
         \E v \in 1..4, c \in Contents, s \in FewSalts,
            o \in [pack : A!Packs, compression : A!Compressions, encryption : A!Encryptions,
                   password : Passwords] :
           /\ v = 4 => f \in A!Created(o.password)
           /\ v = 4 => A!Encrypted(o)
           /\ f = A!Archive(v, c, o, s)
  <2>1. PICK c \in Contents, o \in {p \in FewOptions : p.password = w}, s \in FewSalts :
          f = A!Archive(A!ArchiveVersionFor(o), c, o, s)
    BY <1>2 DEF A!Created
  <2>2. /\ o \in [pack : A!Packs, compression : A!Compressions, encryption : A!Encryptions,
                   password : Passwords] /\ o.password = w
    BY ArchiveAssumption DEF A!OptionsAssumption
  <2>3. A!ArchiveVersionFor(o) \in 1..4 /\ (A!ArchiveVersionFor(o) = 4 => A!Encrypted(o))
    BY DEF A!ArchiveVersionFor, A!Authenticated, A!Encrypted
  <2> QED
    BY <1>2, <2>1, <2>2, <2>3
<1> QED
  BY <1>1, <1>2 DEF A!Archives

\* The parts of an archive of this program.
LEMMA ArchiveShape ==
  ASSUME NEW v \in 1..4, NEW c \in Contents, NEW s \in FewSalts,
         NEW o \in [pack : A!Packs, compression : A!Compressions, encryption : A!Encryptions,
                    password : Passwords]
  PROVE  LET packed == A!Packed(c, o.pack)
             encoded == A!Encrypt(A!Compress(packed, o.compression), o.encryption,
                                  <<o.password, s>>)
             f == A!Archive(v, c, o, s)
         IN /\ f.header = A!Header(v, o, packed, encoded, s)
            /\ packed \in Seq(Elements(packed)) /\ Len(packed) = 2
            /\ encoded \in Seq(Elements(encoded)) /\ Len(encoded) = 2
            /\ \A i \in DOMAIN encoded : encoded[i].layer # "mac"
            /\ v # 4 => f.body = encoded
            /\ v = 4 => f.body = Append(encoded, A!Tag(f.header, encoded, o.password))
<1> DEFINE packed == A!Packed(c, o.pack)
           pressed == A!Compress(packed, o.compression)
           encoded == A!Encrypt(pressed, o.encryption, <<o.password, s>>)
<1>1. /\ packed = [i \in 1..2 |-> packed[i]] /\ \A i \in 1..2 : packed[i].layer = o.pack
  BY DEF A!Packed
<1>2. /\ pressed = [i \in 1..2 |-> pressed[i]] /\ \A i \in 1..2 : pressed[i].layer # "mac"
  <2>1. CASE o.compression = "none"
    BY <1>1, <2>1 DEF A!Compress, A!Packs
  <2>2. CASE o.compression # "none"
    <3>1. pressed = [i \in 1..2 |-> [layer |-> o.compression, of |-> packed[i]]]
      BY <1>1, <2>2 DEF A!Compress
    <3> QED
      BY <3>1 DEF A!Compressions
  <2> QED
    BY <2>1, <2>2
<1>3. /\ encoded = [i \in 1..2 |-> encoded[i]] /\ \A i \in 1..2 : encoded[i].layer # "mac"
  <2>1. CASE o.encryption = "none"
    BY <1>2, <2>1 DEF A!Encrypt
  <2>2. CASE o.encryption # "none"
    <3> HIDE DEF pressed
    <3>1. encoded = [i \in 1..2 |-> [layer |-> o.encryption, key |-> <<o.password, s>>,
                                     of |-> pressed[i], part |-> i]]
      BY <1>2, <2>2 DEF A!Encrypt
    <3> QED
      BY <3>1 DEF A!Encryptions
  <2> QED
    BY <2>1, <2>2
<1> HIDE DEF packed, encoded
<1>4. packed \in Seq(Elements(packed)) /\ Len(packed) = 2
  BY <1>1 DEF Elements
<1>5. encoded \in Seq(Elements(encoded)) /\ Len(encoded) = 2
  BY <1>3 DEF Elements
<1>6. /\ A!Archive(v, c, o, s).header = A!Header(v, o, packed, encoded, s)
      /\ v # 4 => A!Archive(v, c, o, s).body = encoded
      /\ v = 4 => A!Archive(v, c, o, s).body =
                    Append(encoded, A!Tag(A!Header(v, o, packed, encoded, s), encoded, o.password))
  BY DEF A!Archive, A!Authenticated, packed, encoded, pressed
<1> QED
  BY <1>3, <1>4, <1>5, <1>6 DEF packed, encoded, pressed

\* An archive is a file as the readers may find it.
LEMMA ArchiveIsFile ==
  ASSUME NEW f \in A!Archives
  PROVE  /\ f \in Files /\ f = [header |-> f.header, body |-> f.body]
         /\ f.header.version # 5
         /\ \A i \in DOMAIN f.body : f.body[i].layer = "mac" =>
              \E g \in A!Archives : /\ f.body[i] = A!Tag(g.header, f.body[i].of, f.body[i].key[1])
                                    /\ g \in A!Created(f.body[i].key[1])
<1>1. PICK v \in 1..4, c \in Contents, s \in FewSalts,
           o \in [pack : A!Packs, compression : A!Compressions, encryption : A!Encryptions,
                  password : Passwords] :
        /\ v = 4 => f \in A!Created(o.password)
        /\ f = A!Archive(v, c, o, s)
  BY ArchiveIs
<1> DEFINE packed == A!Packed(c, o.pack)
           encoded == A!Encrypt(A!Compress(packed, o.compression), o.encryption,
                                <<o.password, s>>)
           tag == A!Tag(f.header, encoded, o.password)
<1>2. /\ f.header = A!Header(v, o, packed, encoded, s)
      /\ packed \in Seq(Elements(packed)) /\ Len(packed) = 2
      /\ encoded \in Seq(Elements(encoded)) /\ Len(encoded) = 2
      /\ \A i \in DOMAIN encoded : encoded[i].layer # "mac"
      /\ v # 4 => f.body = encoded
      /\ v = 4 => f.body = Append(encoded, tag)
  BY <1>1, ArchiveShape, ZenonT(60)
<1>3. f = [header |-> f.header, body |-> f.body]
  BY <1>1 DEF A!Archive
<1> HIDE DEF packed, encoded
<1>4. f.header \in Headers /\ f.header.version = v
  <2>1. f.header.packedDigest = packed /\ f.header.encodedDigest = encoded
    BY <1>2 DEF A!Header
  <2>2. A!Flags(o.compression, o.encryption) \in SUBSET {"present", "compressed", "encrypted"}
    BY DEF A!Flags
  <2>3. /\ f.header.packedDigest \in {g.header.packedDigest : g \in A!Archives}
        /\ f.header.encodedDigest \in {g.header.encodedDigest : g \in A!Archives}
    OBVIOUS
  <2> QED
    BY <1>2, <2>1, <2>2, <2>3 DEF A!Header, Headers
<1>5. f.body \in Seq(Elements(f.body))
  <2>1. CASE v # 4
    BY <1>2, <2>1
  <2>2. CASE v = 4
    <3>1. PICK b, S, x : b = f.body /\ S = Elements(encoded) \cup {x} /\ x = tag
      OBVIOUS
    <3>2. b \in Seq(S)
      BY <1>2, <2>2, <3>1, AppendedFacts
    <3>3. b \in Seq(Elements(b))
      <4>1. Len(b) \in Nat /\ DOMAIN b = 1..Len(b) /\ b = [i \in 1..Len(b) |-> b[i]]
        BY ONLY <3>2
      <4> QED
        BY ONLY <4>1 DEF Elements
    <3> QED
      BY <3>1, <3>3
  <2> QED
    BY <2>1, <2>2
<1>6. f.body \in Seq(Cells)
  BY <1>5 DEF Cells, Elements
<1>7. ASSUME NEW i \in DOMAIN f.body, f.body[i].layer = "mac"
      PROVE  v = 4 /\ f.body[i] = tag
  <2>1. CASE v # 4
    BY <1>2, <1>7, <2>1
  <2>2. CASE v = 4
    <3>1. f.body = Append(encoded, tag)
      BY <1>2, <2>2
    <3>2. PICK e, x, b : e = encoded /\ x = tag /\ b = f.body
      OBVIOUS
    <3>3. e \in Seq(Elements(e)) /\ b = Append(e, x)
      BY <1>2, <3>1, <3>2
    <3>4. /\ DOMAIN b = 1..Len(e) + 1 /\ b[Len(e) + 1] = x
          /\ \A n \in 1..Len(e) : n \in DOMAIN e /\ b[n] = e[n]
      BY ONLY <3>3, AppendedFacts
    <3>5. \A n \in DOMAIN b : b[n] = x \/ (n \in DOMAIN e /\ b[n] = e[n])
      <4>1. Len(e) \in Nat
        BY ONLY <3>3
      <4> QED
        BY ONLY <3>4, <4>1
    <3> QED
      BY <1>2, <1>7, <2>2, <3>2, <3>5
  <2> QED
    BY <2>1, <2>2
<1>8. ASSUME NEW i \in DOMAIN f.body, f.body[i].layer = "mac"
      PROVE  \E g \in A!Archives : /\ f.body[i] = A!Tag(g.header, f.body[i].of, f.body[i].key[1])
                                   /\ g \in A!Created(f.body[i].key[1])
  <2>1. f.body[i].of = encoded /\ f.body[i].key[1] = o.password
    BY <1>7, <1>8 DEF A!Tag
  <2> QED
    BY <1>1, <1>7, <1>8, <2>1
<1> QED
  BY <1>3, <1>4, <1>6, <1>8 DEF Files

\* The archives start in the invariant.
LEMMA ArchiveInit == A!Init => ArchiveInv
<1> SUFFICES ASSUME A!Init PROVE ArchiveInv
  OBVIOUS
<1>1. PICK f \in A!Archives : files = <<f>>
  BY DEF A!Init
<1>2. f \in Files
  BY ArchiveIsFile
<1>3. files \in Seq(Files) /\ files # <<>> /\ Len(files) = 1 /\ files[1] = f
  BY <1>1, <1>2
<1>4. header \in Headers
  BY <1>2, <1>3 DEF A!Init, Files
<1>5. stage \in Seq(Elements(stage))
  BY DEF A!Init
<1>6. A!TypeOK
  BY <1>3, ArchiveAssumption DEF A!Init, A!TypeOK, A!OptionsAssumption, A!Ended
<1> QED
  BY <1>3, <1>4, <1>5, <1>6 DEF A!Init, ArchiveInv, StageOK, Copied, A!Decoded

\* One file of several is altered.
LEMMA OneAltered ==
  ASSUME files \in Seq(Files), NEW i \in DOMAIN files, NEW g \in Files,
         files' = [files EXCEPT ![i] = g]
  PROVE  files' \in Seq(Files) /\ Len(files') = Len(files)
  OBVIOUS

\* A header is altered in one of its fields.
LEMMA HeaderAltered ==
  ASSUME NEW f \in Files, NEW h \in Headers
  PROVE  [f EXCEPT !.header = h] \in Files
  BY DEF Files

\* A body is altered in one of its cells.
LEMMA BodyAltered ==
  ASSUME NEW f \in Files, NEW b \in Seq(Cells)
  PROVE  [f EXCEPT !.body = b] \in Files
  BY DEF Files

\* An altered file differs from an archive in one place.
LEMMA AlterKeepsFiles ==
  ASSUME files \in Seq(Files), NEW i \in DOMAIN files, A!Alter(i)
  PROVE  files' \in Seq(Files) /\ Len(files') = Len(files)
<1> DEFINE f == files[i]
           h == f.header
           body == f.body
<1>f. f \in Files /\ h \in Headers /\ body \in Seq(Cells)
  <2>1. f \in Files
    OBVIOUS
  <2> QED
    BY <2>1 DEF Files
<1>d. A!Damaged \in Cells
  BY DEF Cells
<1>1. ASSUME NEW c \in DOMAIN body, NEW x \in Cells, files' = [files EXCEPT ![i].body[c] = x]
      PROVE  files' \in Seq(Files) /\ Len(files') = Len(files)
  <2>1. [body EXCEPT ![c] = x] \in Seq(Cells)
    BY <1>f
  <2>2. files' = [files EXCEPT ![i] = [f EXCEPT !.body = [body EXCEPT ![c] = x]]]
    BY <1>1, Zenon
  <2> QED
    BY <1>f, <2>1, <2>2, BodyAltered, OneAltered
<1>2. ASSUME NEW b \in Seq(Cells), files' = [files EXCEPT ![i].body = b]
      PROVE  files' \in Seq(Files) /\ Len(files') = Len(files)
  <2>1. files' = [files EXCEPT ![i] = [f EXCEPT !.body = b]]
    BY <1>2, Zenon
  <2> QED
    BY <1>f, <2>1, BodyAltered, OneAltered
<1>3. ASSUME NEW g \in Headers, files' = [files EXCEPT ![i] = [f EXCEPT !.header = g]]
      PROVE  files' \in Seq(Files) /\ Len(files') = Len(files)
  BY <1>f, <1>3, HeaderAltered, OneAltered
<1>4. ASSUME NEW c \in DOMAIN body, NEW g \in A!Archives, c \in DOMAIN g.body
      PROVE  g.body[c] \in Cells
  BY <1>4, ArchiveIsFile DEF Files
<1>5. body # <<>> => SubSeq(body, 1, Len(body) - 1) \in Seq(Cells)
  BY <1>f
<1>6. Append(body, A!Damaged) \in Seq(Cells)
  BY <1>f, <1>d
<1>7. /\ \A v \in 1..5 : [h EXCEPT !.version = v] \in Headers
      /\ \A c \in A!Compressions : [h EXCEPT !.compression = c] \in Headers
      /\ \A p \in A!Packs : [h EXCEPT !.pack = p] \in Headers
      /\ \A n \in 0..3 : [h EXCEPT !.packedSize = n] \in Headers
      /\ [h EXCEPT !.reserved = 1] \in Headers
      /\ [h EXCEPT !.encodedDigest = <<A!Damaged>>] \in Headers
      /\ [h EXCEPT !.packedDigest = <<A!Damaged>>] \in Headers
      /\ [h EXCEPT !.flags = @ \ {"compressed"}] \in Headers
      /\ [h EXCEPT !.encryption = "none", !.flags = @ \ {"encrypted"}] \in Headers
  <2>1. PICK g : g = h
    OBVIOUS
  <2>2. g \in Headers
    BY <1>f, <2>1
  <2>3. \A v \in 1..5 : [g EXCEPT !.version = v] \in Headers
    BY <2>2 DEF Headers
  <2>4. \A c \in A!Compressions : [g EXCEPT !.compression = c] \in Headers
    BY <2>2 DEF Headers
  <2>5. \A p \in A!Packs : [g EXCEPT !.pack = p] \in Headers
    BY <2>2 DEF Headers
  <2>6. \A n \in 0..3 : [g EXCEPT !.packedSize = n] \in Headers
    BY <2>2 DEF Headers
  <2>7. [g EXCEPT !.reserved = 1] \in Headers
    BY <2>2 DEF Headers
  <2>8. /\ [g EXCEPT !.encodedDigest = <<A!Damaged>>] \in Headers
        /\ [g EXCEPT !.packedDigest = <<A!Damaged>>] \in Headers
    BY <2>2 DEF Headers
  <2>9. [g EXCEPT !.flags = @ \ {"compressed"}] \in Headers
    BY <2>2 DEF Headers
  <2>10. [g EXCEPT !.encryption = "none", !.flags = @ \ {"encrypted"}] \in Headers
    BY <2>2 DEF Headers, A!Encryptions
  <2> QED
    BY <2>1, <2>3, <2>4, <2>5, <2>6, <2>7, <2>8, <2>9, <2>10
<1>8. CASE \E v \in 1..5 : files' = [files EXCEPT ![i].header.version = v]
  <2>1. PICK v \in 1..5 : files' = [files EXCEPT ![i].header.version = v]
    BY <1>8
  <2>2. files' = [files EXCEPT ![i] = [f EXCEPT !.header = [h EXCEPT !.version = v]]]
    BY <2>1, Zenon
  <2> QED
    BY <1>3, <1>7, <2>2
<1>9. CASE \E c \in A!Compressions : files' = [files EXCEPT ![i].header.compression = c]
  <2>1. PICK c \in A!Compressions : files' = [files EXCEPT ![i].header.compression = c]
    BY <1>9
  <2>2. files' = [files EXCEPT ![i] = [f EXCEPT !.header = [h EXCEPT !.compression = c]]]
    BY <2>1, Zenon
  <2> QED
    BY <1>3, <1>7, <2>2
<1>10. CASE \E p \in A!Packs : files' = [files EXCEPT ![i].header.pack = p]
  <2>1. PICK p \in A!Packs : files' = [files EXCEPT ![i].header.pack = p]
    BY <1>10
  <2>2. files' = [files EXCEPT ![i] = [f EXCEPT !.header = [h EXCEPT !.pack = p]]]
    BY <2>1, Zenon
  <2> QED
    BY <1>3, <1>7, <2>2
<1>11. CASE files' = [files EXCEPT ![i].header.encryption = "none",
                                   ![i].header.flags = @ \ {"encrypted"}]
  <2>1. files' = [files EXCEPT ![i] =
                    [f EXCEPT !.header = [h EXCEPT !.encryption = "none",
                                                   !.flags = @ \ {"encrypted"}]]]
    BY <1>f, <1>11 DEF Files, Headers
  <2> QED
    BY <1>3, <1>7, <2>1
<1>12. CASE files' = [files EXCEPT ![i].header.flags = @ \ {"compressed"}]
  <2>1. files' = [files EXCEPT ![i] = [f EXCEPT !.header = [h EXCEPT !.flags = @ \ {"compressed"}]]]
    BY <1>12
  <2> QED
    BY <1>3, <1>7, <2>1
<1>13. CASE files' = [files EXCEPT ![i].header.reserved = 1]
  <2>1. files' = [files EXCEPT ![i] = [f EXCEPT !.header = [h EXCEPT !.reserved = 1]]]
    BY <1>13
  <2> QED
    BY <1>3, <1>7, <2>1
<1>14. CASE \E n \in 0..3 : files' = [files EXCEPT ![i].header.packedSize = n]
  <2>1. PICK n \in 0..3 : files' = [files EXCEPT ![i].header.packedSize = n]
    BY <1>14
  <2>2. files' = [files EXCEPT ![i] = [f EXCEPT !.header = [h EXCEPT !.packedSize = n]]]
    BY <2>1, Zenon
  <2> QED
    BY <1>3, <1>7, <2>2
<1>15. CASE files' = [files EXCEPT ![i].header.encodedDigest = <<A!Damaged>>]
  <2>1. files' = [files EXCEPT ![i] =
                    [f EXCEPT !.header = [h EXCEPT !.encodedDigest = <<A!Damaged>>]]]
    BY <1>15
  <2> QED
    BY <1>3, <1>7, <2>1
<1>16. CASE files' = [files EXCEPT ![i].header.packedDigest = <<A!Damaged>>]
  <2>1. files' = [files EXCEPT ![i] =
                    [f EXCEPT !.header = [h EXCEPT !.packedDigest = <<A!Damaged>>]]]
    BY <1>16
  <2> QED
    BY <1>3, <1>7, <2>1
<1> HIDE DEF f, h, body
<1>17. CASE \E c \in DOMAIN body :
              \/ files' = [files EXCEPT ![i].body[c] = A!Damaged]
              \/ \E g \in A!Archives :
                   c \in DOMAIN g.body /\ files' = [files EXCEPT ![i].body[c] = g.body[c]]
  BY <1>1, <1>4, <1>17, <1>d
<1>18. CASE \/ body # <<>> /\ files' = [files EXCEPT ![i].body = SubSeq(body, 1, Len(body) - 1)]
            \/ files' = [files EXCEPT ![i].body = Append(body, A!Damaged)]
  BY <1>2, <1>5, <1>6, <1>18
<1> QED
  BY <1>8, <1>9, <1>10, <1>11, <1>12, <1>13, <1>14, <1>15, <1>16, <1>17, <1>18
     DEF A!Alter, f, h, body

\* The reader's own state, while others work on the files.
LEMMA OthersKeep ==
  ASSUME ArchiveInv, A!Others
  PROVE  ArchiveInv'
<1>1. files' \in Seq(Files) /\ Len(files') >= Len(files)
  <2>1. ASSUME NEW f \in A!Archives, files' = Append(files, f)
        PROVE  files' \in Seq(Files) /\ Len(files') >= Len(files)
    <3>1. f \in Files
      BY ArchiveIsFile
    <3> QED
      BY <2>1, <3>1 DEF ArchiveInv
  <2>2. ASSUME NEW i \in DOMAIN files, A!Alter(i)
        PROVE  files' \in Seq(Files) /\ Len(files') >= Len(files)
    BY <2>2, AlterKeepsFiles DEF ArchiveInv
  <2> QED
    BY <2>1, <2>2 DEF A!Others
<1>2. /\ UNCHANGED <<password, allowLegacy, op, opened, pc, header, stage>>
      /\ others < MaxOthers /\ others' = others + 1 /\ pc \notin A!Ended
  BY DEF A!Others, A!request
<1>3. Len(files) \in Nat /\ Len(files) > 0 /\ Len(files') \in Nat
  BY <1>1 DEF ArchiveInv
<1>4. files' # <<>>
  BY <1>1, <1>3
<1>5. A!TypeOK'
  <2>1. opened' \in 0..Len(files') /\ others' \in 0..MaxOthers
    BY <1>1, <1>2, <1>3, ArchiveAssumption DEF ArchiveInv, A!TypeOK, A!OptionsAssumption
  <2> QED
    BY <1>2, <2>1 DEF ArchiveInv, A!TypeOK, A!ValidHeader, A!Ended, A!Encrypted, A!TagCells
<1>6. StageOK'
  <2>1. pc = "copy" => opened' \in 1..Len(files')
    BY <1>1, <1>2, <1>3 DEF ArchiveInv, StageOK
  <2>2. Authentic' = Authentic /\ A!Decoded' = A!Decoded /\ A!Wanted' = A!Wanted
    BY <1>2 DEF Authentic, A!Decoded, A!Wanted, A!TagCells, A!Created, A!Authenticated
  <2> QED
    BY <1>2, <2>1, <2>2 DEF ArchiveInv, StageOK, A!OptIn, A!Encrypted
<1> QED
  BY <1>1, <1>2, <1>4, <1>5, <1>6 DEF ArchiveInv

\* The reader up to the copy.
LEMMA OpenKeeps ==
  ASSUME ArchiveInv, A!ReadHeader \/ A!CheckSize \/ A!Inspect \/ A!OpenSnapshot \/ A!Stop
  PROVE  ArchiveInv'
<1>1. /\ files' = files /\ stage' = stage /\ UNCHANGED <<password, allowLegacy, op, others>>
      /\ pc' \in {"size", "failed", "inspect", "open", "done", "copy", "stopped"}
      /\ pc' = "done" => op = "inspect"
      /\ pc' = "inspect" => op = "inspect"
  BY DEF A!ReadHeader, A!CheckSize, A!Inspect, A!OpenSnapshot, A!Stop, A!Goto, A!request,
         ArchiveInv
<1>2. Len(files) \in Nat /\ Len(files) > 0 /\ A!Current \in Files
  BY DEF ArchiveInv, A!Current
<1>3. header' \in Headers /\ (pc' \notin A!Ended \cup {"header"} => A!ValidHeader(header'))
  BY <1>2 DEF ArchiveInv, A!TypeOK, A!ReadHeader, A!CheckSize, A!Inspect, A!OpenSnapshot, A!Stop,
              A!Goto, A!Ended, Files
<1>4. opened' \in 0..Len(files)
  BY <1>2 DEF ArchiveInv, A!TypeOK, A!ReadHeader, A!CheckSize, A!Inspect, A!OpenSnapshot, A!Stop,
              A!Goto
<1>5. pc' = "copy" => /\ stage = <<>> /\ opened' = Len(files) /\ header' = header
                      /\ (A!Encrypted(header) => A!OptIn)
  <2>1. pc' = "copy" => A!OpenSnapshot
    BY DEF A!ReadHeader, A!CheckSize, A!Inspect, A!OpenSnapshot, A!Stop, A!Goto
  <2>2. pc = "open" => stage = <<>>
    BY DEF ArchiveInv
  <2> QED
    BY <2>1, <2>2 DEF A!OpenSnapshot
<1>6. A!TypeOK'
  <2>1. pc' = "copy" => Len(stage') <= header'.encodedSize + A!TagCells(header')
    BY <1>1, <1>3, <1>5 DEF Headers, A!TagCells
  <2> QED
    BY <1>1, <1>3, <1>4, <2>1 DEF ArchiveInv, A!TypeOK
<1>7. StageOK'
  <2>1. pc' = "copy" => stage' \in Seq(Cells) /\ Len(stage') <= A!Wanted' /\ opened' \in 1..Len(files')
    BY <1>1, <1>2, <1>3, <1>5 DEF Headers, A!TagCells, A!Wanted
  <2>2. pc' = "copy" => (A!Encrypted(header') => A!OptIn')
    BY <1>1, <1>5 DEF A!OptIn, A!Encrypted
  <2>3. ~A!Decoded' /\ (pc' \in Copied => op # "decode") /\ op' = op
    BY <1>1 DEF A!Decoded, Copied
  <2> QED
    BY <1>1, <2>1, <2>2, <2>3 DEF StageOK, Copied, A!Decoded
<1>8. pc' \in {"header", "size", "inspect", "open"} => stage' = <<>>
  BY <1>1 DEF ArchiveInv, A!ReadHeader, A!CheckSize, A!Inspect, A!OpenSnapshot, A!Stop, A!Goto
<1>9. files' # <<>> /\ stage' \in Seq(Elements(stage'))
  BY <1>1 DEF ArchiveInv
<1> QED
  BY <1>1, <1>3, <1>6, <1>7, <1>8, <1>9 DEF ArchiveInv, Copied

\* The reader's copy of a file.
LEMMA CopyKeeps ==
  ASSUME ArchiveInv, A!CopySnapshot \/ A!CopyEnd
  PROVE  ArchiveInv'
<1>1. /\ UNCHANGED <<password, allowLegacy, op, files, opened, header, others>>
      /\ pc = "copy" /\ pc' \in {"copy", "failed", "authenticate"}
  BY DEF A!CopySnapshot, A!CopyEnd, A!Goto, A!request
<1>2. /\ stage \in Seq(Cells) /\ Len(stage) <= A!Wanted /\ opened \in 1..Len(files)
      /\ A!Encrypted(header) => A!OptIn \/ op # "decode"
      /\ A!ValidHeader(header)
  BY <1>1 DEF ArchiveInv, StageOK, A!TypeOK, A!Ended
<1>3. A!Wanted \in Nat /\ A!Wanted' = A!Wanted
  BY <1>1 DEF ArchiveInv, Headers, A!Wanted, A!TagCells
<1>4. CASE A!CopySnapshot /\ Len(stage) < Len(files[opened].body)
  <2>1. files[opened].body \in Seq(Cells)
    <3>1. files[opened] \in Files
      BY <1>2 DEF ArchiveInv
    <3> QED
      BY <3>1 DEF Files
  <2>2. PICK x : x = files[opened].body[Len(stage) + 1]
    OBVIOUS
  <2>3. x \in Cells
    BY <1>2, <1>4, <2>1, <2>2
  <2>4. stage' = Append(stage, x) /\ pc' = "copy" /\ Len(stage) < A!Wanted
    BY <1>4, <2>2 DEF A!CopySnapshot, A!Goto
  <2>5. stage' \in Seq(Cells) /\ Len(stage') = Len(stage) + 1 /\ Len(stage) \in Nat
    BY <1>2, <2>3, <2>4
  <2>6. stage' \in Seq(Elements(stage'))
    BY <2>5 DEF Elements
  <2>7. Len(stage') <= A!Wanted
    BY <1>3, <2>4, <2>5
  <2> QED
    BY <1>1, <1>2, <1>3, <2>4, <2>5, <2>6, <2>7
       DEF ArchiveInv, StageOK, A!TypeOK, A!Decoded, Copied, A!Ended, A!OptIn, A!Encrypted,
           A!ValidHeader, A!Wanted, A!TagCells
<1>5. CASE stage' = stage /\ pc' \in {"failed", "authenticate"}
           /\ (pc' = "authenticate" => Len(stage) = A!Wanted)
  BY <1>1, <1>2, <1>3, <1>5
     DEF ArchiveInv, StageOK, A!TypeOK, A!Decoded, Copied, A!Ended, A!OptIn, A!Encrypted,
         A!ValidHeader, A!TagCells
<1> QED
  <2>1. Len(stage) \in Nat
    BY <1>2
  <2> QED
    BY <1>2, <1>3, <1>4, <1>5, <2>1 DEF A!CopySnapshot, A!CopyEnd, A!Goto

\* A tag that fits was made for this header with the reader's password.
LEMMA TagIsAuthentic ==
  ASSUME NEW x \in Cells, NEW payload, x = A!Tag(header, payload, password)
  PROVE  \E f \in A!Created(password) : f.header = header
<1>1. x.layer = "mac" /\ x.header = header /\ x.key[1] = password
  BY DEF A!Tag
<1>2. x # A!Damaged
  BY <1>1, ArchiveAssumption DEF A!Damaged, A!OptionsAssumption
<1>3. PICK f \in A!Archives : \E i \in DOMAIN f.body : x = f.body[i]
  BY <1>2 DEF Cells, Elements
<1>4. PICK g \in A!Archives : x = A!Tag(g.header, x.of, x.key[1]) /\ g \in A!Created(x.key[1])
  BY <1>1, <1>3, ArchiveIsFile
<1>5. x.header = g.header
  BY <1>4 DEF A!Tag
<1> QED
  BY <1>1, <1>4, <1>5

\* The tag is checked.
LEMMA AuthenticateKeeps ==
  ASSUME ArchiveInv, A!Authenticate
  PROVE  ArchiveInv'
<1> DEFINE payload == SubSeq(stage, 1, header.encodedSize)
<1>1. /\ UNCHANGED <<password, allowLegacy, op, files, opened, header, others>>
      /\ pc = "authenticate" /\ pc' \in {"failed", "encoded"} /\ stage' = payload
      /\ pc' = "encoded" /\ header.version = A!Authenticated =>
           stage[Len(stage)] = A!Tag(header, payload, password)
  BY DEF A!Authenticate, A!Goto, A!request
<1>2. /\ stage \in Seq(Cells) /\ Len(stage) = A!Wanted
      /\ op = "decode" => (A!Encrypted(header) => A!OptIn)
      /\ A!ValidHeader(header)
  BY <1>1 DEF ArchiveInv, StageOK, A!TypeOK, A!Ended
<1>3. header.encodedSize = 2 /\ Len(stage) >= 2
      /\ (header.version = A!Authenticated => Len(stage) = 3)
  BY <1>2 DEF ArchiveInv, Headers, A!Wanted, A!TagCells
<1>4. stage' \in Seq(Cells)
  BY <1>1, <1>2, <1>3
<1>5. stage' \in Seq(Elements(stage'))
  BY <1>4 DEF Elements
<1>6. pc' = "encoded" => Authentic
  <2> SUFFICES ASSUME pc' = "encoded", header.version = A!Authenticated
               PROVE  \E f \in A!Created(password) : f.header = header
    BY DEF Authentic
  <2>1. PICK x : x = stage[Len(stage)]
    OBVIOUS
  <2>2. x \in Cells
    <3>1. Len(stage) = 3 /\ stage \in Seq(Cells)
      BY <1>2, <1>3
    <3>2. stage[3] \in Cells
      BY <3>1
    <3> QED
      BY <2>1, <3>1, <3>2
  <2>3. x = A!Tag(header, payload, password)
    BY <1>1, <2>1
  <2> QED
    BY <2>2, <2>3, TagIsAuthentic
<1>7. Authentic' = Authentic
  BY <1>1 DEF Authentic, A!Created, A!Authenticated
<1> QED
  BY <1>1, <1>2, <1>5, <1>6, <1>7
     DEF ArchiveInv, StageOK, A!TypeOK, A!Decoded, Copied, A!Ended, A!OptIn, A!Encrypted,
         A!ValidHeader

\* The reader after the copy.
LEMMA DecodeKeeps ==
  ASSUME ArchiveInv,
         A!CheckEncoded \/ A!Decrypt \/ A!Decompress \/ A!CheckPacked \/ A!ReadEntries
  PROVE  ArchiveInv'
<1>1. /\ UNCHANGED <<password, allowLegacy, op, files, opened, header, others>>
      /\ pc \in Copied /\ pc \notin A!Ended
      /\ pc' \in {"failed", "decrypt", "decompress", "packed", "entries", "done"}
  BY DEF A!CheckEncoded, A!Decrypt, A!Decompress, A!CheckPacked, A!ReadEntries, A!Goto, A!request,
         Copied, A!Ended
<1>2. /\ op = "decode" => Authentic /\ (A!Encrypted(header) => A!OptIn)
      /\ A!ValidHeader(header) /\ stage \in Seq(Elements(stage))
  BY <1>1 DEF ArchiveInv, StageOK, A!TypeOK, Copied, A!Ended
<1>3. Authentic' = Authentic /\ A!OptIn' = A!OptIn /\ A!Encrypted(header') = A!Encrypted(header)
      /\ A!ValidHeader(header') = A!ValidHeader(header)
  BY <1>1 DEF Authentic, A!Created, A!Authenticated, A!OptIn
<1>4. stage' \in Seq(Elements(stage'))
  <2>1. DOMAIN stage = 1..Len(stage) /\ Len(stage) \in Nat
    BY <1>2
  <2>2. DOMAIN stage' = 1..Len(stage) /\ (stage' = stage \/ stage' = [i \in 1..Len(stage) |-> stage'[i]])
    BY <2>1 DEF A!CheckEncoded, A!Decrypt, A!Decompress, A!CheckPacked, A!ReadEntries, A!Goto
  <2>3. CASE stage' = stage
    BY <1>2, <2>3
  <2>4. CASE stage' = [i \in 1..Len(stage) |-> stage'[i]]
    <3>1. \A i \in 1..Len(stage) : stage'[i] \in Elements(stage')
      BY <2>2 DEF Elements
    <3> QED
      BY <2>1, <2>4, <3>1
  <2> QED
    BY <2>2, <2>3, <2>4
<1>5. /\ pc' = "decrypt" => stage' = header.encodedDigest
      /\ pc' \in {"decompress", "packed"} /\ ~A!Encrypted(header) /\ header.compression = "none" =>
           stage' = header.encodedDigest
      /\ pc' \in {"entries", "done"} => stage' = header.packedDigest
      /\ pc' = "entries" => Len(stage') = header.packedSize
      /\ pc' = "done" => stage' # <<>> /\ \A i \in DOMAIN stage' : stage'[i].layer = header.pack
  <2>1. CASE A!CheckEncoded
    BY <2>1 DEF A!CheckEncoded, A!EncodedMatches, A!Goto
  <2>2. CASE A!Decrypt
    <3>1. pc' = "decompress" /\ stage = header.encodedDigest
      BY <2>2 DEF A!Decrypt, A!Goto, ArchiveInv, StageOK
    <3> QED
      BY <2>2, <3>1 DEF A!Decrypt
  <2>3. CASE A!Decompress
    <3>1. pc' \in {"packed", "failed"} /\ pc = "decompress"
      BY <2>3 DEF A!Decompress, A!Goto
    <3>2. header.compression = "none" => stage' = stage
      BY <2>3 DEF A!Decompress
    <3> QED
      BY <3>1, <3>2 DEF ArchiveInv, StageOK
  <2>4. CASE A!CheckPacked
    <3>1. pc' \in {"entries", "failed"} /\ pc = "packed" /\ stage' = stage
      BY <2>4 DEF A!CheckPacked, A!Goto
    <3>2. pc' = "entries" => Len(stage) = header.packedSize
      BY <2>4 DEF A!CheckPacked, A!Goto
    <3>3. CASE A!Encrypted(header) \/ header.compression # "none"
      BY <2>4, <3>1, <3>2, <3>3 DEF A!CheckPacked, A!Goto
    <3>4. CASE ~(A!Encrypted(header) \/ header.compression # "none")
      <4>1. stage = header.encodedDigest
        BY <3>1, <3>4 DEF ArchiveInv, StageOK
      <4> QED
        BY <2>4, <3>1, <3>2, <3>4, <4>1 DEF A!CheckPacked, A!Goto
    <3> QED
      BY <3>3, <3>4
  <2>5. CASE A!ReadEntries
    <3>1. pc' \in {"done", "failed"} /\ stage' = stage /\ stage = header.packedDigest
      BY <2>5 DEF A!ReadEntries, A!Goto, ArchiveInv, StageOK
    <3> QED
      BY <2>5, <3>1 DEF A!ReadEntries, A!Goto
  <2> QED
    BY <2>1, <2>2, <2>3, <2>4, <2>5
<1>6. StageOK'
  BY <1>1, <1>2, <1>3, <1>5 DEF StageOK, A!Decoded, Copied
<1>7. A!TypeOK'
  BY <1>1, <1>2, <1>3, <1>5 DEF ArchiveInv, A!TypeOK
<1> QED
  BY <1>1, <1>4, <1>6, <1>7 DEF ArchiveInv, Copied

\* Every step of the archive keeps the invariant.
LEMMA ArchiveStep == ArchiveInv /\ A!Next => ArchiveInv'
BY OthersKeep, OpenKeeps, CopyKeeps, AuthenticateKeeps, DecodeKeeps DEF A!Next

\* Nor does standing still break it.
LEMMA ArchiveStill ==
  ArchiveInv /\ UNCHANGED <<pc, stage, password, allowLegacy, op, files, opened, header, others>>
    => ArchiveInv'
<1> SUFFICES ASSUME ArchiveInv,
                    UNCHANGED <<pc, stage, password, allowLegacy, op, files, opened, header, others>>
             PROVE  ArchiveInv'
  OBVIOUS
<1>1. Authentic' = Authentic
  BY DEF Authentic, A!Created, A!Authenticated
<1>2. StageOK'
  BY <1>1 DEF ArchiveInv, StageOK, A!Decoded, A!OptIn, A!Encrypted, A!Wanted, A!TagCells
<1>3. A!TypeOK'
  BY DEF ArchiveInv, A!TypeOK, A!ValidHeader, A!Encrypted, A!TagCells
<1> QED
  BY <1>2, <1>3 DEF ArchiveInv

\* A pack layer is never that of a damaged cell.
LEMMA WholeAndAuthentic == ArchiveInv => A!WholeArchive /\ A!EncryptedIsAuthentic
<1> SUFFICES ASSUME ArchiveInv, A!Decoded PROVE A!WholeArchive /\ A!EncryptedIsAuthentic
  BY DEF A!WholeArchive, A!EncryptedIsAuthentic
<1>1. /\ stage = header.packedDigest /\ stage # <<>> /\ pc = "done" /\ op = "decode"
      /\ \A i \in DOMAIN stage : stage[i].layer = header.pack
      /\ Authentic /\ (A!Encrypted(header) => A!OptIn) /\ header \in Headers
  BY DEF ArchiveInv, StageOK, A!Decoded, Copied
<1>2. stage # <<A!Damaged>>
  <2>1. header.pack \in A!Packs
    BY <1>1 DEF Headers
  <2> QED
    BY <1>1, <2>1, ArchiveAssumption DEF A!Damaged, A!OptionsAssumption
<1>3. PICK f \in A!Archives : stage = f.header.packedDigest
  BY <1>1, <1>2 DEF Headers
<1>4. PICK v \in 1..4, c \in Contents, s \in FewSalts,
           o \in [pack : A!Packs, compression : A!Compressions, encryption : A!Encryptions,
                  password : Passwords] : f = A!Archive(v, c, o, s)
  BY ArchiveIs
<1>5. stage = A!Packed(c, o.pack) /\ o.pack \in A!Packs
  BY <1>3, <1>4 DEF A!Archive, A!Header
<1>6. A!WholeArchive
  BY <1>5 DEF A!WholeArchive
<1>7. A!EncryptedIsAuthentic
  BY <1>1 DEF A!EncryptedIsAuthentic, Authentic, A!OptIn
<1> QED
  BY <1>6, <1>7

\* The three forms of the content of an archive create writes.
PackedOf(c, o) == O!Packed(c, o.pack)
PressedOf(c, o) == O!Compress(PackedOf(c, o), o.compression)
EncodedOf(c, o, s) == O!Encrypt(PressedOf(c, o), o.encryption, <<o.password, s>>)
Written(c, o, s) == O!Archive(O!ArchiveVersionFor(o), c, o, s)
BodyOf(c, o, s) ==
  IF o.encryption = "none" THEN EncodedOf(c, o, s)
  ELSE Append(EncodedOf(c, o, s), O!Tag(Written(c, o, s).header, EncodedOf(c, o, s), o.password))

\* A sequence of n cells.
IsList(s, n) == n \in Nat /\ s = [i \in 1..n |-> s[i]]

\* How far a reader has come with what create wrote for c with options o.
Reading(c, o, s) ==
  /\ files = <<Written(c, o, s)>> /\ header = Written(c, o, s).header
  /\ op \in {"decode", "inspect"}
  /\ pc \in {"header", "size", "inspect", "open", "copy", "authenticate", "encoded", "decrypt",
             "decompress", "packed", "entries", "done", "stopped"}
  /\ pc \in {"header", "size", "open"} => stage = <<>>
  /\ pc = "copy" => /\ opened = 1 /\ IsList(stage, Len(stage))
                    /\ Len(stage) <= Len(BodyOf(c, o, s))
                    /\ \A i \in 1..Len(stage) : stage[i] = BodyOf(c, o, s)[i]
  /\ pc = "authenticate" => stage = BodyOf(c, o, s)
  /\ pc \in {"encoded", "decrypt"} => stage = EncodedOf(c, o, s)
  /\ pc = "decompress" => stage = PressedOf(c, o)
  /\ pc \in {"packed", "entries"} => stage = PackedOf(c, o)

\* As long as nobody else does anything, what create wrote is read to its end.
OptionsInv ==
  /\ others = 0
  /\ files[1] \in O!Created(password) =>
       \E c \in Contents, o \in AllOptions, s \in AllSalts :
         o.password = password /\ Reading(c, o, s)

\* The forms are lists of two cells, and each names the layer it is wrapped in.
LEMMA WrittenFacts ==
  ASSUME NEW c \in Contents, NEW o \in AllOptions, NEW s \in AllSalts
  PROVE  /\ IsList(PackedOf(c, o), 2) /\ Len(PackedOf(c, o)) = 2
         /\ \A i \in 1..2 : PackedOf(c, o)[i].layer = o.pack
         /\ IsList(PressedOf(c, o), 2) /\ Len(PressedOf(c, o)) = 2
         /\ o.compression = "none" => PressedOf(c, o) = PackedOf(c, o)
         /\ o.compression # "none" => \A i \in 1..2 :
              PressedOf(c, o)[i].layer = o.compression /\ PressedOf(c, o)[i].of = PackedOf(c, o)[i]
         /\ IsList(EncodedOf(c, o, s), 2) /\ Len(EncodedOf(c, o, s)) = 2
         /\ o.encryption = "none" => EncodedOf(c, o, s) = PressedOf(c, o)
         /\ o.encryption # "none" => \A i \in 1..2 :
              /\ EncodedOf(c, o, s)[i].layer = o.encryption /\ EncodedOf(c, o, s)[i].part = i
              /\ EncodedOf(c, o, s)[i].key = <<o.password, s>>
              /\ EncodedOf(c, o, s)[i].of = PressedOf(c, o)[i]
<1> DEFINE p == PackedOf(c, o)
           r == PressedOf(c, o)
           e == EncodedOf(c, o, s)
<1>1. p = [i \in 1..2 |-> [layer |-> o.pack, of |-> c, part |-> i]]
  BY DEF PackedOf, O!Packed
<1>2. IsList(p, 2) /\ Len(p) = 2 /\ DOMAIN p = 1..2 /\ \A i \in 1..2 : p[i].layer = o.pack
  BY <1>1 DEF IsList
<1>3. r = IF o.compression = "none" THEN p
          ELSE [i \in DOMAIN p |-> [layer |-> o.compression, of |-> p[i]]]
  BY DEF PressedOf, O!Compress
<1>4. e = IF o.encryption = "none" THEN r
          ELSE [i \in DOMAIN r |-> [layer |-> o.encryption, key |-> <<o.password, s>>,
                                    of |-> r[i], part |-> i]]
  BY DEF EncodedOf, O!Encrypt
<1> HIDE DEF p, r, e
<1>5. IsList(r, 2) /\ Len(r) = 2 /\ DOMAIN r = 1..2
  BY <1>2, <1>3 DEF IsList
<1>6. IsList(e, 2) /\ Len(e) = 2
  BY <1>4, <1>5 DEF IsList
<1>7. o.compression # "none" => \A i \in 1..2 : r[i].layer = o.compression /\ r[i].of = p[i]
  BY <1>2, <1>3
<1>8. o.encryption # "none" => \A i \in 1..2 :
        /\ e[i].layer = o.encryption /\ e[i].part = i
        /\ e[i].key = <<o.password, s>> /\ e[i].of = r[i]
  BY <1>4, <1>5
<1>9. /\ o.compression = "none" => r = p
      /\ o.encryption = "none" => e = r
  BY <1>3, <1>4
<1> QED
  BY <1>2, <1>5, <1>6, <1>7, <1>8, <1>9 DEF p, r, e

\* The header and the body of an archive, and what the reader computes from them.
LEMMA HeaderFacts ==
  ASSUME NEW c \in Contents, NEW o \in AllOptions, NEW s \in AllSalts
  PROVE  LET f == Written(c, o, s)
             n == IF o.encryption = "none" THEN 2 ELSE 3
         IN /\ f.body = BodyOf(c, o, s) /\ Len(f.body) = n /\ IsList(f.body, n)
            /\ \A i \in 1..2 : f.body[i] = EncodedOf(c, o, s)[i]
            /\ SubSeq(f.body, 1, 2) = EncodedOf(c, o, s)
            /\ o.encryption # "none" =>
                 f.body[3] = O!Tag(f.header, EncodedOf(c, o, s), o.password)
            /\ O!ValidHeader(f.header) /\ f.header.version # 1
            /\ f.header.encodedSize + O!TagCells(f.header) = n /\ f.header.encodedSize = 2
            /\ O!Encrypted(f.header) <=> o.encryption # "none"
            /\ f.header.version = 4 <=> o.encryption # "none"
            /\ f.header.encryption = o.encryption /\ f.header.compression = o.compression
            /\ f.header.pack = o.pack /\ f.header.salt = s /\ f.header.packedSize = 2
            /\ f.header.encodedDigest = EncodedOf(c, o, s)
            /\ f.header.packedDigest = PackedOf(c, o)
<1>1. PICK v : v = O!ArchiveVersionFor(o)
  OBVIOUS
<1>2. /\ o.pack \in O!Packs /\ o.compression \in O!Compressions /\ o.encryption \in O!Encryptions
  BY ArchiveAssumption DEF O!OptionsAssumption
<1>3. /\ v \in 1..4 /\ v # 1 /\ (v = 4 <=> o.encryption # "none")
      /\ o.compression = "lz77" => v >= 3
  BY <1>1 DEF O!ArchiveVersionFor, O!Authenticated
<1>4. PICK p, e, f : p = PackedOf(c, o) /\ e = EncodedOf(c, o, s) /\ f = Written(c, o, s)
  OBVIOUS
<1>5. Len(p) = 2 /\ Len(e) = 2 /\ IsList(e, 2)
  BY <1>4, WrittenFacts
<1>6. /\ f.header = O!Header(v, o, p, e, s)
      /\ f.body = IF v = 4 THEN Append(e, O!Tag(f.header, e, o.password)) ELSE e
  BY <1>1, <1>4 DEF Written, O!Archive, O!Authenticated, PackedOf, PressedOf, EncodedOf
<1>7. /\ f.header.version = v /\ f.header.flags = O!Flags(o.compression, o.encryption)
      /\ f.header.reserved = 0 /\ f.header.pack = o.pack /\ f.header.compression = o.compression
      /\ f.header.encryption = o.encryption /\ f.header.packedSize = 2
      /\ f.header.encodedSize = 2 /\ f.header.salt = s /\ f.header.packedDigest = p
      /\ f.header.encodedDigest = e
  BY <1>5, <1>6 DEF O!Header
<1>8. O!ValidHeader(f.header) /\ (O!Encrypted(f.header) <=> o.encryption # "none")
  BY <1>2, <1>3, <1>7 DEF O!ValidHeader, O!Authenticated, O!Encrypted
<1>9. f.header.encodedSize + O!TagCells(f.header) = IF o.encryption = "none" THEN 2 ELSE 3
  BY <1>3, <1>7 DEF O!TagCells, O!Authenticated
<1>10. f.body = BodyOf(c, o, s)
  BY <1>3, <1>4, <1>6 DEF BodyOf
<1>11. PICK t : t = O!Tag(f.header, e, o.password)
  OBVIOUS
<1>12. /\ Len(Append(e, t)) = 3 /\ IsList(Append(e, t), 3) /\ Append(e, t)[3] = t
       /\ \A i \in 1..2 : Append(e, t)[i] = e[i]
  <2>1. PICK S : S = {e[i] : i \in 1..2} \cup {t}
    OBVIOUS
  <2>2. e \in Seq(S) /\ t \in S
    BY <1>5, <2>1 DEF IsList
  <2>3. /\ Append(e, t) \in Seq(S) /\ Len(Append(e, t)) = Len(e) + 1
        /\ Append(e, t)[Len(e) + 1] = t /\ \A i \in 1..Len(e) : Append(e, t)[i] = e[i]
    BY ONLY <2>2, AppendProperties
  <2>4. Len(e) + 1 = 3 /\ 3 \in Nat
    BY <1>5
  <2>5. PICK b : b = Append(e, t)
    OBVIOUS
  <2>6. /\ b \in Seq(S) /\ Len(b) = 3 /\ b[3] = t
        /\ \A i \in 1..2 : b[i] = e[i]
    BY <1>5, <2>3, <2>4, <2>5
  <2>7. b = [i \in 1..3 |-> b[i]]
    BY ONLY <2>6
  <2> QED
    BY <2>4, <2>5, <2>6, <2>7 DEF IsList
<1>13. /\ Len(f.body) = IF o.encryption = "none" THEN 2 ELSE 3
       /\ IsList(f.body, IF o.encryption = "none" THEN 2 ELSE 3)
       /\ \A i \in 1..2 : f.body[i] = e[i]
       /\ o.encryption # "none" => f.body[3] = t
  BY <1>3, <1>5, <1>6, <1>11, <1>12
<1>14. SubSeq(f.body, 1, 2) = e
  <2>1. SubSeq(f.body, 1, 2) = [i \in 1..2 |-> f.body[i]]
    OBVIOUS
  <2>2. e = [i \in 1..2 |-> e[i]]
    BY <1>5 DEF IsList
  <2> QED
    BY <1>13, <2>1, <2>2
<1> QED
  BY <1>3, <1>4, <1>7, <1>8, <1>9, <1>10, <1>11, <1>13, <1>14

\* A list whose cells are those of another of the same length is that list.
LEMMA SameList ==
  ASSUME NEW a, NEW b, NEW n, IsList(a, n), IsList(b, n), \A i \in 1..n : a[i] = b[i]
  PROVE  a = b
BY DEF IsList

\* An archive create has just written, with the reader's password, is one the
\* reader may come across.
LEMMA OptionsInit == O!Init => OptionsInv
<1> SUFFICES ASSUME O!Init, files[1] \in O!Created(password)
             PROVE  \E c \in Contents, o \in AllOptions, s \in AllSalts :
                      o.password = password /\ Reading(c, o, s)
  BY DEF OptionsInv, O!Init
<1>1. PICK c \in Contents, o \in AllOptions, s \in AllSalts :
        o.password = password /\ files[1] = Written(c, o, s)
  BY DEF O!Created, Written
<1>2. PICK f : files = <<f>>
  BY DEF O!Init
<1>3. files = <<Written(c, o, s)>> /\ files[1] = Written(c, o, s)
  BY <1>1, <1>2
<1>4. Reading(c, o, s)
  BY <1>3 DEF O!Init, Reading
<1> QED
  BY <1>1, <1>4

\* Nobody else takes a step, so what is being read stays what it was.
LEMMA OptionsSame ==
  ASSUME OptionsInv, O!Next
  PROVE  ~O!Others /\ others' = 0 /\ files' = files /\ password' = password
<1>1. ~O!Others
  BY DEF OptionsInv, O!Others
<1>2. others' = others /\ files' = files /\ password' = password
  BY <1>1 DEF O!Next, O!ReadHeader, O!CheckSize, O!Inspect, O!OpenSnapshot, O!CopySnapshot, O!CopyEnd,
     O!Authenticate, O!CheckEncoded, O!Decrypt, O!Decompress, O!CheckPacked, O!ReadEntries, O!Stop,
     O!Goto, O!request
<1> QED
  BY <1>1, <1>2 DEF OptionsInv

\* What a reader of an archive create wrote holds, and what it may do with it.
LEMMA ReadingFacts ==
  ASSUME NEW c \in Contents, NEW o \in AllOptions, NEW s \in AllSalts, Reading(c, o, s)
  PROVE  /\ Len(files) = 1 /\ files[1] = Written(c, o, s) /\ O!Current = Written(c, o, s)
         /\ header = Written(c, o, s).header
BY DEF Reading, O!Current

\* Reading the header and the size of what create wrote succeeds.
LEMMA HeaderRead ==
  ASSUME NEW c \in Contents, NEW o \in AllOptions, NEW s \in AllSalts, Reading(c, o, s),
         O!ReadHeader \/ O!CheckSize \/ O!Inspect \/ O!OpenSnapshot \/ O!Stop
  PROVE  Reading(c, o, s)'
<1>1. PICK f : f = Written(c, o, s) /\ files = <<f>> /\ header = f.header /\ O!Current = f
  BY ReadingFacts DEF Reading
<1>2. /\ Len(f.body) = f.header.encodedSize + O!TagCells(f.header) /\ O!ValidHeader(f.header)
      /\ SubSeq(f.body, 1, f.header.encodedSize) = f.header.encodedDigest
      /\ f.header.encodedSize <= Len(f.body)
  <2>1. PICK n : n = IF o.encryption = "none" THEN 2 ELSE 3
    OBVIOUS
  <2>2. /\ Len(f.body) = n /\ f.header.encodedSize + O!TagCells(f.header) = n
        /\ O!ValidHeader(f.header) /\ f.header.encodedSize = 2
        /\ SubSeq(f.body, 1, 2) = EncodedOf(c, o, s)
        /\ f.header.encodedDigest = EncodedOf(c, o, s)
    BY <1>1, <2>1, HeaderFacts
  <2>3. n = 2 \/ n = 3
    BY <2>1
  <2> QED
    BY <2>2, <2>3
<1>3. O!OptIn \/ ~O!Encrypted(header)
  BY <1>1, HeaderFacts DEF O!OptIn, O!Authenticated
<1>4. CASE O!ReadHeader
  BY <1>1, <1>2, <1>4 DEF O!ReadHeader, Reading, O!request
<1>5. CASE O!CheckSize
  BY <1>1, <1>2, <1>5 DEF O!CheckSize, O!Goto, Reading, O!request
<1>6. CASE O!Inspect
  BY <1>1, <1>2, <1>6 DEF O!Inspect, O!Goto, Reading, O!request
<1>7. CASE O!OpenSnapshot
  <2>1. /\ pc = "open" /\ stage = <<>> /\ pc' = "copy" /\ opened' = 1 /\ stage' = stage
        /\ files' = files /\ header' = header /\ op' = op
    BY <1>1, <1>3, <1>7 DEF O!OpenSnapshot, Reading, O!request
  <2>2. IsList(<<>>, 0) /\ Len(<<>>) = 0
    BY DEF IsList
  <2>3. Len(BodyOf(c, o, s)) \in Nat
    BY HeaderFacts
  <2> QED
    BY <2>1, <2>2, <2>3 DEF Reading
<1>8. CASE O!Stop
  BY <1>1, <1>8 DEF O!Stop, O!Goto, Reading, O!request
<1> QED
  BY <1>4, <1>5, <1>6, <1>7, <1>8

\* Copying the archive yields its body.
LEMMA SnapshotCopied ==
  ASSUME NEW c \in Contents, NEW o \in AllOptions, NEW s \in AllSalts, Reading(c, o, s),
         O!CopySnapshot \/ O!CopyEnd
  PROVE  Reading(c, o, s)'
<1>1. PICK b : b = BodyOf(c, o, s)
  OBVIOUS
<1>2. PICK n : n = IF o.encryption = "none" THEN 2 ELSE 3
  OBVIOUS
<1>3. n \in Nat
  BY <1>2
<1>4. /\ Len(b) = n /\ IsList(b, n) /\ O!Wanted = n
      /\ files = <<Written(c, o, s)>> /\ files[1].body = b
  <2>1. PICK f : f = Written(c, o, s) /\ files = <<f>> /\ header = f.header
    BY ReadingFacts DEF Reading
  <2>2. f.body = b /\ Len(f.body) = n /\ IsList(f.body, n)
        /\ f.header.encodedSize + O!TagCells(f.header) = n
    BY <1>1, <1>2, <2>1, HeaderFacts
  <2>3. O!Wanted = f.header.encodedSize + O!TagCells(f.header) /\ files[1].body = f.body
    BY <2>1 DEF O!Wanted
  <2> QED
    BY <2>1, <2>2, <2>3
<1>5. /\ pc = "copy" /\ opened = 1 /\ IsList(stage, Len(stage)) /\ Len(stage) <= n
      /\ Len(stage) \in Nat /\ \A i \in 1..Len(stage) : stage[i] = b[i]
  BY <1>1, <1>4 DEF O!CopySnapshot, O!CopyEnd, Reading, IsList
<1>6. CASE O!CopySnapshot
  <2>1. PICK k \in Nat : k = Len(stage) /\ k < n
    BY <1>4, <1>5, <1>6 DEF O!CopySnapshot
  <2>2. /\ stage' = Append(stage, b[k + 1]) /\ pc' = "copy"
        /\ files' = files /\ header' = header /\ op' = op /\ opened' = opened
    BY <1>4, <1>5, <1>6, <2>1 DEF O!CopySnapshot, O!Goto, O!request
  <2>3. PICK S : S = {stage[i] : i \in 1..k} \cup {b[k + 1]}
    OBVIOUS
  <2>4. stage \in Seq(S) /\ b[k + 1] \in S
    BY <1>5, <2>1, <2>3 DEF IsList
  <2>5. /\ Append(stage, b[k + 1]) \in Seq(S) /\ Len(Append(stage, b[k + 1])) = Len(stage) + 1
        /\ Append(stage, b[k + 1])[Len(stage) + 1] = b[k + 1]
        /\ \A i \in 1..Len(stage) : Append(stage, b[k + 1])[i] = stage[i]
    BY ONLY <2>4, AppendProperties
  <2>6. PICK t \in Seq(S) : /\ t = stage' /\ Len(t) = k + 1 /\ t[k + 1] = b[k + 1]
                            /\ \A i \in 1..k : t[i] = stage[i]
    BY <2>1, <2>2, <2>5
  <2>7. t = [i \in 1..Len(t) |-> t[i]] /\ Len(t) \in Nat
    BY ONLY <2>6
  <2>8. Len(t) <= n /\ \A i \in 1..Len(t) : t[i] = b[i]
    <3>1. \A i \in 1..k : t[i] = b[i]
      BY <1>5, <2>1, <2>6
    <3>2. \A i \in 1..k + 1 : i \in 1..k \/ i = k + 1
      OBVIOUS
    <3> QED
      BY <1>3, <2>1, <2>6, <3>1, <3>2
  <2> QED
    BY <1>1, <1>4, <1>5, <2>2, <2>6, <2>7, <2>8 DEF Reading, IsList
<1>7. CASE O!CopyEnd
  <2>1. Len(stage) = n
    <3>1. Len(stage) >= n
      BY <1>4, <1>7 DEF O!CopyEnd
    <3> QED
      BY ONLY <1>3, <1>5, <3>1
  <2>2. stage = b
    BY <1>4, <1>5, <2>1, SameList
  <2> QED
    BY <1>1, <1>7, <2>2 DEF O!CopyEnd, O!Goto, Reading, O!request
<1> QED
  BY <1>6, <1>7

\* What was authenticated and digested is what was encoded.
LEMMA EncodedRead ==
  ASSUME NEW c \in Contents, NEW o \in AllOptions, NEW s \in AllSalts, o.password = password,
         Reading(c, o, s), O!Authenticate \/ O!CheckEncoded
  PROVE  Reading(c, o, s)'
<1>1. PICK e, h : e = EncodedOf(c, o, s) /\ h = Written(c, o, s).header
  OBVIOUS
<1>2. header = h /\ h.encodedSize = 2 /\ h.encodedDigest = e
      /\ (h.version = 4 <=> o.encryption # "none")
  BY <1>1, ReadingFacts, HeaderFacts
<1>3. CASE O!Authenticate
  <2>1. /\ pc = "authenticate" /\ stage = BodyOf(c, o, s) /\ stage' = SubSeq(stage, 1, 2)
        /\ files' = files /\ header' = header /\ op' = op /\ opened' = opened
    BY <1>2, <1>3 DEF O!Authenticate, O!Goto, Reading, O!request
  <2>2. stage' = e
    BY <1>1, <2>1, HeaderFacts
  <2>3. o.encryption # "none" => stage[Len(stage)] = O!Tag(h, e, password)
    BY <1>1, <2>1, HeaderFacts
  <2>4. pc' = "encoded"
    BY <1>2, <1>3, <2>1, <2>2, <2>3 DEF O!Authenticate, O!Goto, O!Authenticated
  <2> QED
    BY <1>1, <2>1, <2>2, <2>4 DEF Reading
<1>4. CASE O!CheckEncoded
  BY <1>1, <1>2, <1>4 DEF O!CheckEncoded, O!EncodedMatches, O!Goto, Reading, O!request
<1> QED
  BY <1>3, <1>4

\* The layers come off in the order they were put on.
LEMMA LayersRead ==
  ASSUME NEW c \in Contents, NEW o \in AllOptions, NEW s \in AllSalts, o.password = password,
         Reading(c, o, s), O!Decrypt \/ O!Decompress
  PROVE  Reading(c, o, s)'
<1>1. PICK e, r, p, h : /\ e = EncodedOf(c, o, s) /\ r = PressedOf(c, o) /\ p = PackedOf(c, o)
                        /\ h = Written(c, o, s).header
  OBVIOUS
<1>2. /\ header = h /\ (O!Encrypted(h) <=> o.encryption # "none") /\ h.encryption = o.encryption
      /\ h.compression = o.compression /\ h.salt = s /\ h.packedSize = 2
  BY <1>1, ReadingFacts, HeaderFacts
<1>3. /\ IsList(e, 2) /\ IsList(r, 2) /\ IsList(p, 2) /\ Len(r) = 2
      /\ o.compression = "none" => r = p
      /\ o.compression # "none" => \A i \in 1..2 : r[i].layer = o.compression /\ r[i].of = p[i]
      /\ o.encryption = "none" => e = r
      /\ o.encryption # "none" => \A i \in 1..2 :
           /\ e[i].layer = o.encryption /\ e[i].part = i
           /\ e[i].key = <<o.password, s>> /\ e[i].of = r[i]
  BY <1>1, WrittenFacts
<1>4. DOMAIN e = 1..2 /\ DOMAIN r = 1..2
  BY <1>3 DEF IsList
<1>5. CASE O!Decrypt
  <2>1. /\ stage = e /\ pc' = "decompress"
        /\ files' = files /\ header' = header /\ op' = op /\ opened' = opened
    BY <1>1, <1>5 DEF O!Decrypt, O!Goto, Reading, O!request
  <2>2. stage' = r
    <3>1. CASE o.encryption = "none"
      BY <1>2, <1>3, <1>5, <2>1, <3>1 DEF O!Decrypt
    <3>2. CASE o.encryption # "none"
      <4>1. stage' = [i \in 1..2 |-> e[i].of]
        BY <1>2, <1>3, <1>4, <1>5, <2>1, <3>2 DEF O!Decrypt
      <4> QED
        BY <1>3, <3>2, <4>1 DEF IsList
    <3> QED
      BY <3>1, <3>2
  <2> QED
    BY <1>1, <2>1, <2>2 DEF Reading
<1>6. CASE O!Decompress
  <2>1. /\ stage = r /\ files' = files /\ header' = header /\ op' = op /\ opened' = opened
    BY <1>1, <1>6 DEF O!Decompress, O!Goto, Reading, O!request
  <2>2. stage' = p /\ pc' = "packed"
    <3>1. CASE o.compression = "none"
      BY <1>2, <1>3, <1>6, <2>1, <3>1 DEF O!Decompress, O!Goto
    <3>2. CASE o.compression # "none"
      <4>1. stage' = [i \in 1..2 |-> r[i].of] /\ pc' = "packed"
        BY <1>2, <1>3, <1>4, <1>6, <2>1, <3>2 DEF O!Decompress, O!Goto
      <4> QED
        BY <1>3, <3>2, <4>1 DEF IsList
    <3> QED
      BY <3>1, <3>2
  <2> QED
    BY <1>1, <2>1, <2>2 DEF Reading
<1> QED
  BY <1>5, <1>6

\* What remains is a stage of the kind the header names.
LEMMA PackedRead ==
  ASSUME NEW c \in Contents, NEW o \in AllOptions, NEW s \in AllSalts, o.password = password,
         Reading(c, o, s), O!CheckPacked \/ O!ReadEntries
  PROVE  Reading(c, o, s)'
<1>1. PICK e, r, p, h : /\ e = EncodedOf(c, o, s) /\ r = PressedOf(c, o) /\ p = PackedOf(c, o)
                        /\ h = Written(c, o, s).header
  OBVIOUS
<1>2. /\ header = h /\ (O!Encrypted(h) <=> o.encryption # "none")
      /\ h.compression = o.compression /\ h.packedSize = 2 /\ h.pack = o.pack
      /\ h.packedDigest = p /\ h.encodedDigest = e /\ h.version # 1
  BY <1>1, ReadingFacts, HeaderFacts
<1>3. /\ IsList(p, 2) /\ Len(p) = 2 /\ \A i \in 1..2 : p[i].layer = o.pack
      /\ o.compression = "none" => r = p
      /\ o.encryption = "none" => e = r
  BY <1>1, WrittenFacts
<1>4. DOMAIN p = 1..2 /\ p # <<>>
  BY <1>3 DEF IsList
<1>5. CASE O!CheckPacked
  <2>1. /\ stage = p /\ files' = files /\ header' = header /\ op' = op /\ opened' = opened
        /\ stage' = stage
    BY <1>1, <1>5 DEF O!CheckPacked, O!Goto, Reading, O!request
  <2>2. pc' = "entries"
    BY <1>2, <1>3, <1>5, <2>1 DEF O!CheckPacked, O!Goto
  <2> QED
    BY <1>1, <2>1, <2>2 DEF Reading
<1>6. CASE O!ReadEntries
  <2>1. /\ stage = p /\ files' = files /\ header' = header /\ op' = op /\ opened' = opened
    BY <1>1, <1>6 DEF O!ReadEntries, O!Goto, Reading, O!request
  <2>2. pc' = "done"
    BY <1>2, <1>3, <1>4, <1>6, <2>1 DEF O!ReadEntries, O!Goto
  <2> QED
    BY <1>1, <2>1, <2>2 DEF Reading
<1> QED
  BY <1>5, <1>6

\* Every step keeps a reader on the archive create wrote.
LEMMA OptionsStep == OptionsInv /\ O!Next => OptionsInv'
<1> SUFFICES ASSUME OptionsInv, O!Next PROVE OptionsInv'
  OBVIOUS
<1>1. ~O!Others /\ others' = 0 /\ files' = files /\ password' = password
  BY OptionsSame
<1>2. SUFFICES ASSUME (files[1] \in O!Created(password))'
               PROVE  (\E c \in Contents, o \in AllOptions, s \in AllSalts :
                         o.password = password /\ Reading(c, o, s))'
  BY <1>1 DEF OptionsInv
<1>3. files[1] \in O!Created(password)
  BY <1>1, <1>2 DEF O!Created
<1>4. PICK c \in Contents, o \in AllOptions, s \in AllSalts :
        o.password = password /\ Reading(c, o, s)
  BY <1>3 DEF OptionsInv
<1>5. Reading(c, o, s)'
  BY <1>1, <1>4, HeaderRead, SnapshotCopied, EncodedRead, LayersRead, PackedRead DEF O!Next
<1> QED
  BY <1>1, <1>4, <1>5

\* Nothing changes while nobody takes a step.
LEMMA OptionsStill ==
  ASSUME OptionsInv, UNCHANGED <<pc, stage, password, allowLegacy, op, files, opened, header, others>>
  PROVE  OptionsInv'
BY DEF OptionsInv, Reading, O!Created

\* A reader of an archive create wrote does not fail.
LEMMA OptionsReadable == OptionsInv => O!CreatedIsReadable
BY DEF OptionsInv, Reading, O!CreatedIsReadable

-----------------------------------------------------------------------------
(* All of them.                                                            *)

\* The part that is active keeps its invariant.
FormatsInv ==
  /\ active \in {"rle", "lz77", "huffman", "pack", "archive", "options"}
  /\ active = "rle" => RleInv /\ RleMeans
  /\ active = "lz77" => LzInv /\ LzExact
  /\ active = "huffman" => ReturnInv /\ BestInv
  /\ active = "pack" => PackInv /\ PackExact
  /\ active = "archive" => ArchiveInv
  /\ active = "options" => OptionsInv

\* Every part starts in its invariant.
LEMMA FormatsInit == Init => FormatsInv
<1> SUFFICES ASSUME Init PROVE FormatsInv
  OBVIOUS
<1>1. \/ active = "rle" /\ R!Init
      \/ active = "lz77" /\ L!Init
      \/ active = "huffman" /\ H!Init
      \/ active = "pack" /\ P!Init
      \/ active = "archive" /\ A!Init
      \/ active = "options" /\ O!Init
  BY DEF Init
<1> QED
  BY <1>1, RleInit, MeansInit, LzInit, LzExactInit, ReturnInit, BestInit, PackInit, ExactInit, ArchiveInit,
     OptionsInit
     DEF FormatsInv, ReturnInv

\* A step is one of the active part, or nothing of it changes.
LEMMA FormatsStep == FormatsInv /\ [Next]_vars => FormatsInv'
<1> SUFFICES ASSUME FormatsInv, [Next]_vars PROVE FormatsInv'
  OBVIOUS
<1>1. CASE UNCHANGED vars
  <2>1. active' = active
    BY <1>1 DEF vars
  <2>2. UNCHANGED R!vars /\ UNCHANGED L!vars
    BY <1>1 DEF vars, codecs, rleOnly, lzOnly, R!vars, L!vars, L!encoder, L!decoder
  <2>3. UNCHANGED H!vars
    BY <1>1 DEF vars, codecs, huffmanOnly, H!vars, H!file, H!table, H!reader
  <2>4. UNCHANGED P!vars
    BY <1>1 DEF vars, packOnly, P!vars, P!writer, P!reader
  <2>5. UNCHANGED <<pc, stage, password, allowLegacy, op, files, opened, header, others>>
    BY <1>1 DEF vars, archiveOnly
  <2> QED
    BY <2>1, <2>2, <2>3, <2>4, <2>5, RleStill, MeansStill, LzStill, LzExactStill, ReturnStill, BestStill,
       PackStill, ExactStill, ArchiveStill, OptionsStill DEF FormatsInv
<1>2. CASE Next
  <2>1. active' = active
    BY <1>2 DEF Next
  <2>2. \/ active = "rle" /\ R!Next
        \/ active = "lz77" /\ L!Next
        \/ active = "huffman" /\ H!Next
        \/ active = "pack" /\ P!Next
        \/ active = "archive" /\ A!Next
        \/ active = "options" /\ O!Next
    BY <1>2 DEF Next
  <2> QED
    BY <2>1, <2>2, RleStep, MeansStep, LzStep, LzExactStep, ReturnStep, BestStep, PackStep, ExactStep, ArchiveStep,
       OptionsStep DEF FormatsInv, ReturnInv
<1> QED
  BY <1>1, <1>2

\* Whatever the input, the stream, the stage or the archive, and whatever the
\* widths of the numbers: the variables have their types and no decoder reads
\* or writes past the sizes that were declared to it.
THEOREM TypeCorrect == Spec => []TypeOK
<1>1. FormatsInv => TypeOK
  BY PackCorrect
     DEF FormatsInv, TypeOK, RleInv, R!OutputIsBounded, LzInv, ReturnInv, HuffmanInv, PackInv, ArchiveInv
<1> QED
  BY FormatsInit, FormatsStep, <1>1, PTL DEF Spec

\* Only what is valid is accepted: a run-length stream exactly if it means the
\* declared number of bytes, a Huffman stream only if it is the encoding of its
\* output with a prefix code, a stage only if nothing of it is left and its list
\* can be restored, an archive only if it is whole and, if encrypted, authentic.
THEOREM AcceptedCorrect == Spec => []OnlyValidIsAccepted
<1>1. HuffmanInv => H!CodesAreDistinct /\ H!AcceptedIsCanonical
  BY DEF HuffmanInv, CodesOK, H!CodesAreDistinct
<1>2. FormatsInv => OnlyValidIsAccepted
  BY <1>1, PackCorrect, WholeAndAuthentic DEF FormatsInv, OnlyValidIsAccepted, RleInv, ReturnInv
<1> QED
  BY FormatsInit, FormatsStep, <1>2, PTL DEF Spec

\* Whatever the input and the longest run: decoding a run-length stream gives
\* the bytes that were encoded, and the stream is longer than they are by at
\* most one byte in every MaxRun.
THEOREM RunsReturn ==
  Spec => [](active = "rle" => R!RoundTrip /\ R!GrowthIsBounded)
<1>1. FormatsInv => (active = "rle" => R!RoundTrip /\ R!GrowthIsBounded)
  BY RleReturns DEF FormatsInv
<1> QED
  BY FormatsInit, FormatsStep, <1>1, PTL DEF Spec

\* Whatever the bytes, the bounds of a match, the block size and the matcher's
\* hash: the LZ77 decoder accepts what the encoder wrote and gives the same
\* bytes back, matches that overlap their own copy among them.
THEOREM MatchesReturn == Spec => [](active = "lz77" => L!RoundTrip)
<1>1. FormatsInv => (active = "lz77" => L!RoundTrip)
  BY LzReturns DEF FormatsInv
<1> QED
  BY FormatsInit, FormatsStep, <1>1, PTL DEF Spec

\* Whatever directory was scanned, whatever the layout and the width of the
\* numbers: what is read from a stage nobody has damaged is what was packed,
\* entry by entry and cell by cell, and it is not refused.
THEOREM StagesReturn == Spec => [](active = "pack" => P!RoundTrip)
<1>1. FormatsInv => (active = "pack" => P!RoundTrip)
  BY PackReturns DEF FormatsInv
<1> QED
  BY FormatsInit, FormatsStep, <1>1, PTL DEF Spec

\* Whatever the content, the layout, the codec, the cipher, the password and
\* the salt: verify, preview, restore and inspect accept what create wrote when
\* they are given the password it was made with.
THEOREM ArchivesReturn == Spec => [](active = "options" => O!CreatedIsReadable)
<1>1. FormatsInv => (active = "options" => O!CreatedIsReadable)
  BY OptionsReadable DEF FormatsInv
<1> QED
  BY FormatsInit, FormatsStep, <1>1, PTL DEF Spec

\* Whatever the symbols, the input and the width of a byte: the decoder accepts
\* what the encoder wrote and gives the input back; only tables of lengths that
\* have no prefix code are refused; and no prefix code takes fewer bits.
THEOREM HuffmanReturns ==
  Spec => [](active = "huffman" => H!RoundTrip /\ H!RefusedIsImpossible /\ H!CodeIsOptimal)
<1>1. FormatsInv => (active = "huffman" => H!RoundTrip /\ H!RefusedIsImpossible /\ H!CodeIsOptimal)
  BY ReturnSays, KraftRefuses, BestSays DEF FormatsInv, ReturnInv
<1> QED
  BY FormatsInit, FormatsStep, <1>1, PTL DEF Spec

\* All of the above together: whatever this program writes, it reads again and
\* gets what it was given, with the shortest Huffman code and a run-length
\* stream that grows by no more than one byte per block.
THEOREM RoundTripCorrect == Spec => []RoundTrip
<1>1. FormatsInv => RoundTrip
  BY RleReturns, LzReturns, ReturnSays, KraftRefuses, BestSays, PackReturns, OptionsReadable
     DEF FormatsInv, RoundTrip, ReturnInv
<1> QED
  BY FormatsInit, FormatsStep, <1>1, PTL DEF Spec
=============================================================================
