---------------------------- MODULE CodecProofs ----------------------------
(***************************************************************************)
(* The run-length and the Huffman codec of MCFormats, for every input and  *)
(* every value of the constants: each has an invariant that holds at the   *)
(* start, that every step of the codec keeps, and so does a step in which  *)
(* nothing of it changes.                                                  *)
(*                                                                         *)
(* A run-length stream stands for bytes, and what has been written stands  *)
(* for the input so far.  Huffman's table takes, code by code, the share   *)
(* of the words that its lengths promise (Kraft's sum); the codes of a     *)
(* table are determined by its lengths; and the lengths cost no more than  *)
(* any others, because the two rarest symbols can be deepest.              *)
(***************************************************************************)
EXTENDS MCFormats, TLAPS, SequenceTheorems, FiniteSetTheorems,
        WellFoundedInduction

\* A non-empty set of naturals has a least element.
LEMMA LeastNatural ==
  ASSUME NEW S \in SUBSET Nat, S # {}
  PROVE  \E m \in S : \A h \in S : m <= h
<1>1. PICK m \in S : \A h \in S : ~(<<h, m>> \in OpToRel(<, Nat))
  BY NatLessThanWellFounded, WFMin, Zenon
<1>2. \A h \in S : ~(h < m)
  BY <1>1, Zenon DEF OpToRel
<1> QED
  BY <1>2

\* The minimum of a set of naturals.
LEMMA MinimumFacts ==
  ASSUME NEW S \in SUBSET Nat, S # {}
  PROVE  /\ H!Min(S) \in S /\ \A x \in S : H!Min(S) <= x
         /\ \A m \in S : (\A x \in S : m <= x) => m = H!Min(S)
<1>1. \E m \in S : \A x \in S : m <= x
  BY LeastNatural
<1>2. H!Min(S) \in S /\ \A x \in S : H!Min(S) <= x
  BY <1>1 DEF H!Min
<1>3. ASSUME NEW m \in S, \A x \in S : m <= x PROVE m = H!Min(S)
  <2>1. PICK k \in S : k = H!Min(S) /\ \A x \in S : k <= x
    BY <1>2
  <2>2. m \in Nat /\ k \in Nat /\ m <= k /\ k <= m
    BY <1>3, <2>1
  <2> QED
    BY <2>1, <2>2
<1> QED
  BY <1>2, <1>3

\* The maximum of a bounded set of naturals.
LEMMA MaximumFacts ==
  ASSUME NEW n \in Nat, NEW S \in SUBSET (0..n), S # {}
  PROVE  H!Max(S) \in S /\ \A x \in S : H!Max(S) >= x
<1> DEFINE T == {n - x : x \in S}
<1>1. T \in SUBSET Nat /\ T # {}
  <2>1. \A x \in S : x \in 0..n
    OBVIOUS
  <2>2. \A x \in S : n - x \in Nat
    BY <2>1
  <2>3. PICK x \in S : TRUE
    OBVIOUS
  <2>4. n - x \in T
    OBVIOUS
  <2> QED
    BY <2>2, <2>4
<1>2. PICK m \in T : \A h \in T : m <= h
  <2> HIDE DEF T
  <2> QED
    BY <1>1, LeastNatural
<1>3. PICK y \in S : m = n - y
  OBVIOUS
<1>4. ASSUME NEW x \in S PROVE y >= x
  <2>1. n - x \in T
    OBVIOUS
  <2>2. x \in 0..n /\ y \in 0..n /\ n - y <= n - x
    BY <1>2, <1>3, <2>1
  <2> QED
    BY <2>2
<1> QED
  BY <1>3, <1>4 DEF H!Max

-----------------------------------------------------------------------------
(* RunLength.                                                              *)

Meant == Seq(R!Bytes) \cup {Unreadable}

\* A control byte stands for at least one byte and at most MaxRun.
LEMMA CountFacts ==
  ASSUME NEW b \in R!Bytes
  PROVE  (b % MaxRun) + 1 \in 1..MaxRun
  BY RunLengthAssumption DEF R!Bytes, R!RunAssumption

\* A block of a stream, if it is there.
LEMMA BlockFacts ==
  ASSUME NEW s \in Seq(R!Bytes), NEW p \in 1..Len(s)
  PROVE  /\ R!After(s, p) \in Nat /\ R!After(s, p) > p
         /\ R!CountAt(s, p) \in 1..MaxRun
         /\ R!After(s, p) <= Len(s) + 1 =>
              R!Block(s, p) \in Seq(R!Bytes) /\ Len(R!Block(s, p)) = R!CountAt(s, p)
<1>1. Len(s) \in Nat /\ p \in Nat /\ s[p] \in R!Bytes /\ MaxRun \in Nat
  BY RunLengthAssumption DEF R!RunAssumption
<1>2. R!CountAt(s, p) \in 1..MaxRun
  BY <1>1, CountFacts DEF R!CountAt
<1>3. s[p] \in Int /\ R!CountAt(s, p) \in Nat /\ R!CountAt(s, p) >= 1
  BY <1>1, <1>2 DEF R!Bytes
<1>4. R!After(s, p) \in Nat /\ R!After(s, p) > p
  BY <1>1, <1>3 DEF R!After
<1>5. ASSUME R!After(s, p) <= Len(s) + 1
      PROVE  R!Block(s, p) \in Seq(R!Bytes) /\ Len(R!Block(s, p)) = R!CountAt(s, p)
  <2>1. CASE s[p] >= MaxRun
    <3>1. p + 1 \in 1..Len(s)
      BY <1>1, <1>5, <2>1 DEF R!After
    <3>2. PICK b \in R!Bytes : b = s[p + 1]
      BY <3>1
    <3>3. R!Block(s, p) = [j \in 1..R!CountAt(s, p) |-> b]
      BY <2>1, <3>2 DEF R!Block, R!Repeat
    <3>4. PICK n \in Nat : n = R!CountAt(s, p)
      BY <1>3
    <3>5. [j \in 1..n |-> b] \in Seq(R!Bytes) /\ Len([j \in 1..n |-> b]) = n
      OBVIOUS
    <3> QED
      BY <3>3, <3>4, <3>5
  <2>2. CASE ~(s[p] >= MaxRun)
    <3>1. PICK n \in Nat : n = R!CountAt(s, p) /\ n >= 1
      BY <1>3
    <3>2. p + n <= Len(s)
      BY <1>1, <1>5, <2>2, <3>1 DEF R!After
    <3>3. \A i \in p + 1..p + n : s[i] \in R!Bytes
      BY <1>1, <3>2
    <3>4. SubSeq(s, p + 1, p + n) \in Seq(R!Bytes) /\ Len(SubSeq(s, p + 1, p + n)) = n
      <4>1. p + 1 \in Int /\ p + n \in Int /\ p + 1 <= p + n /\ (p + n) - (p + 1) + 1 = n
        BY <1>1, <3>1
      <4> QED
        BY <3>3, <4>1, SubSeqProperties
    <3> QED
      BY <2>2, <3>1, <3>4 DEF R!Block
  <2> QED
    BY <2>1, <2>2
<1> QED
  BY <1>2, <1>4, <1>5

MeansFrom(s, from, p) ==
  from[p] = IF p = Len(s) + 1 THEN <<>>
            ELSE IF R!After(s, p) > Len(s) + 1 \/ from[R!After(s, p)] = Unreadable THEN Unreadable
            ELSE R!Block(s, p) \o from[R!After(s, p)]

\* The recursion of the reference decoder is well founded: it goes forward.
LEMMA MeaningExists ==
  ASSUME NEW s \in Seq(R!Bytes), NEW n \in 0..Len(s)
  PROVE  \E from \in [Len(s) + 1 - n..Len(s) + 1 -> Meant] :
           \A p \in Len(s) + 1 - n..Len(s) + 1 : MeansFrom(s, from, p)
<1>n. PICK e : e = Len(s) + 1
  OBVIOUS
<1>l. Len(s) \in Nat /\ e \in Nat /\ e >= 1
  BY <1>n
<1> DEFINE Good(m) == \E from \in [e - m..e -> Meant] : \A p \in e - m..e : MeansFrom(s, from, p)
           Bad == {m \in 0..Len(s) : ~Good(m)}
<1>1. Bad \in SUBSET Nat
  OBVIOUS
<1>2. SUFFICES Bad = {}
  <2>1. Good(n)
    BY <1>2
  <2> QED
    BY <2>1, <1>n
<1>3. SUFFICES ASSUME Bad # {} PROVE FALSE
  OBVIOUS
<1>4. PICK m \in Bad : \A h \in Bad : m <= h
  <2> HIDE DEF Bad
  <2> QED
    BY <1>1, <1>3, LeastNatural
<1>5. CASE m = 0
  <2> DEFINE from == [p \in e - 0..e |-> <<>>]
  <2>1. from \in [e - 0..e -> Meant]
    BY DEF Meant
  <2>2. \A p \in e - 0..e : p = e /\ from[p] = <<>>
    BY <1>l
  <2>3. \A p \in e - 0..e : MeansFrom(s, from, p)
    BY <1>n, <2>2 DEF MeansFrom
  <2>4. Good(0)
    BY <2>1, <2>3
  <2> QED
    BY <1>5, <2>4
<1>6. CASE m # 0
  <2>1. m \in Nat /\ m - 1 \in 0..Len(s) /\ m \in 1..Len(s) /\ ~(m <= m - 1)
    BY <1>1, <1>6
  <2>2. Good(m - 1)
    BY <1>4, <2>1
  <2>3. PICK from \in [e - (m - 1)..e -> Meant] :
             \A p \in e - (m - 1)..e : MeansFrom(s, from, p)
    BY <2>2
  <2>4. PICK q \in 1..Len(s) : q = e - m
    BY <1>l, <1>n, <2>1
  <2> DEFINE next == IF R!After(s, q) > e \/ from[R!After(s, q)] = Unreadable THEN Unreadable
                     ELSE R!Block(s, q) \o from[R!After(s, q)]
             more == [p \in q..e |-> IF p = q THEN next ELSE from[p]]
  <2>5. R!After(s, q) \in Nat /\ R!After(s, q) > q
    BY BlockFacts
  <2>6. next \in Meant
    <3>1. CASE R!After(s, q) > e \/ from[R!After(s, q)] = Unreadable
      BY <3>1 DEF Meant
    <3>2. CASE ~(R!After(s, q) > e \/ from[R!After(s, q)] = Unreadable)
      <4>1. R!After(s, q) \in e - (m - 1)..e /\ R!After(s, q) <= Len(s) + 1
        BY <1>l, <1>n, <2>1, <2>4, <2>5, <3>2
      <4>2. from[R!After(s, q)] \in Seq(R!Bytes)
        BY <2>3, <3>2, <4>1 DEF Meant
      <4>3. R!Block(s, q) \in Seq(R!Bytes)
        BY <4>1, BlockFacts
      <4>4. R!Block(s, q) \o from[R!After(s, q)] \in Seq(R!Bytes)
        BY <4>2, <4>3, ConcatProperties
      <4> QED
        BY <3>2, <4>4 DEF Meant
    <3> QED
      BY <3>1, <3>2
  <2>7. more \in [q..e -> Meant]
    <3>1. \A p \in q..e : p # q => p \in e - (m - 1)..e
      BY <1>l, <2>1, <2>4
    <3>2. \A p \in q..e : p # q => from[p] \in Meant
      BY <2>3, <3>1
    <3> HIDE DEF next
    <3> QED
      BY <2>6, <3>2
  <2>8. ASSUME NEW p \in q..e PROVE MeansFrom(s, more, p)
    <3>1. q \in q..e /\ (\A r \in q..e : r # q => more[r] = from[r]) /\ more[q] = next
      BY <1>l, <1>n, <2>4
    <3> HIDE DEF more
    <3>2. CASE p = q
      <4>1. R!After(s, q) > e \/ more[R!After(s, q)] = from[R!After(s, q)]
        BY <1>l, <2>5, <2>4, <3>1
      <4>2. q # e
        BY <1>l, <1>n
      <4> QED
        BY <1>n, <3>1, <3>2, <4>1, <4>2 DEF MeansFrom
    <3>3. CASE p # q
      <4>1. p \in e - (m - 1)..e /\ (p # e => p \in 1..Len(s))
        BY <1>l, <1>n, <2>1, <2>4, <3>3
      <4>2. p # e => R!After(s, p) \in Nat /\ R!After(s, p) > p
        BY <4>1, BlockFacts
      <4>3. p # e => R!After(s, p) > e \/ more[R!After(s, p)] = from[R!After(s, p)]
        BY <1>l, <2>4, <3>1, <4>1, <4>2
      <4>4. MeansFrom(s, from, p) /\ more[p] = from[p]
        BY <2>3, <3>1, <3>3, <4>1
      <4> QED
        BY <1>n, <4>3, <4>4 DEF MeansFrom
    <3> QED
      BY <3>2, <3>3
  <2>9. Good(m)
    <3> HIDE DEF more
    <3> QED
      BY <2>4, <2>7, <2>8
  <2> QED
    BY <2>9
<1> QED
  BY <1>5, <1>6

IsMeaning(s, from) ==
  from = [p \in 1..Len(s) + 1 |->
           IF p = Len(s) + 1 THEN <<>>
           ELSE IF R!After(s, p) > Len(s) + 1 \/ from[R!After(s, p)] = Unreadable THEN Unreadable
           ELSE R!Block(s, p) \o from[R!After(s, p)]]

\* The meaning of a stream from a place is what MeansFrom says of it.
LEMMA MeaningFacts ==
  ASSUME NEW s \in Seq(R!Bytes)
  PROVE  /\ \A p \in 1..Len(s) + 1 : MeansFrom(s, R!MeaningFrom(s), p)
         /\ \A p \in 1..Len(s) + 1 : R!MeaningFrom(s)[p] \in Meant
<1>l. Len(s) \in Nat /\ Len(s) \in 0..Len(s) /\ Len(s) + 1 - Len(s) = 1
  OBVIOUS
<1> DEFINE c == R!MeaningFrom(s)
<1>1. PICK from \in [1..Len(s) + 1 -> Meant] : \A p \in 1..Len(s) + 1 : MeansFrom(s, from, p)
  BY <1>l, MeaningExists
<1>2. IsMeaning(s, from)
  BY <1>1 DEF IsMeaning, MeansFrom
<1>3. c = CHOOSE f : IsMeaning(s, f)
  BY DEF R!MeaningFrom, IsMeaning
<1>4. IsMeaning(s, c)
  BY <1>2, <1>3
<1> HIDE DEF c
<1>5. ASSUME NEW p \in 1..Len(s) + 1 PROVE MeansFrom(s, c, p)
  <2>1. c[p] = IF p = Len(s) + 1 THEN <<>>
           ELSE IF R!After(s, p) > Len(s) + 1 \/ c[R!After(s, p)] = Unreadable THEN Unreadable
           ELSE R!Block(s, p) \o c[R!After(s, p)]
    BY ONLY <1>4, <1>5, Zenon DEF IsMeaning
  <2> QED
    BY <2>1 DEF MeansFrom
<1> DEFINE Bad == {n \in 0..Len(s) : c[Len(s) + 1 - n] \notin Meant}
<1>6. Bad = {}
  <2>1. SUFFICES ASSUME Bad # {} PROVE FALSE
    OBVIOUS
  <2>2. Bad \in SUBSET Nat
    OBVIOUS
  <2>3. PICK m \in Bad : \A h \in Bad : m <= h
    <3> HIDE DEF Bad
    <3> QED
      BY <2>1, <2>2, LeastNatural
  <2>4. PICK p : p = Len(s) + 1 - m
    OBVIOUS
  <2>5. m \in 0..Len(s) /\ p \in 1..Len(s) + 1 /\ c[p] \notin Meant
    BY <2>4
  <2>6. MeansFrom(s, c, p)
    BY <1>5, <2>5
  <2>7. CASE p = Len(s) + 1
    BY <2>5, <2>6, <2>7 DEF MeansFrom, Meant
  <2>8. CASE p # Len(s) + 1
    <3>1. p \in 1..Len(s)
      BY <1>l, <2>5, <2>8
    <3>2. /\ R!After(s, p) \in Nat /\ R!After(s, p) > p
          /\ R!After(s, p) <= Len(s) + 1 => R!Block(s, p) \in Seq(R!Bytes)
      BY <3>1, BlockFacts
    <3>3. CASE R!After(s, p) > Len(s) + 1 \/ c[R!After(s, p)] = Unreadable
      BY <2>5, <2>6, <2>8, <3>3 DEF MeansFrom, Meant
    <3>4. CASE ~(R!After(s, p) > Len(s) + 1 \/ c[R!After(s, p)] = Unreadable)
      <4> DEFINE h == Len(s) + 1 - R!After(s, p)
      <4>1. h \in 0..Len(s) /\ R!After(s, p) = Len(s) + 1 - h /\ ~(m <= h)
        BY <1>l, <2>4, <2>5, <3>1, <3>2, <3>4
      <4>2. c[R!After(s, p)] \in Meant
        BY <2>3, <4>1
      <4>3. c[R!After(s, p)] \in Seq(R!Bytes)
        BY <3>4, <4>2 DEF Meant
      <4>4. R!Block(s, p) \o c[R!After(s, p)] \in Seq(R!Bytes)
        BY <1>l, <3>2, <3>4, <4>3, ConcatProperties
      <4> QED
        BY <2>5, <2>6, <2>8, <3>4, <4>4 DEF MeansFrom, Meant
    <3> QED
      BY <3>3, <3>4
  <2> QED
    BY <2>7, <2>8
<1>7. ASSUME NEW p \in 1..Len(s) + 1 PROVE c[p] \in Meant
  <2>1. Len(s) + 1 - p \in 0..Len(s) /\ Len(s) + 1 - (Len(s) + 1 - p) = p
    BY <1>l
  <2>2. Len(s) + 1 - p \notin Bad
    BY <1>6
  <2> QED
    BY <2>1, <2>2
<1> QED
  BY <1>5, <1>7 DEF c

Rest(p) == R!MeaningFrom(stream)[p]
\* What has been decoded and what is left to decode is what the stream means.
Remaining ==
  \/ R!Meaning(stream) = Unreadable /\ Rest(read + 1) = Unreadable
  \/ R!Meaning(stream) = output \o Rest(read + 1) /\ Rest(read + 1) \in Seq(R!Bytes)

RleInv ==
  /\ R!TypeOK
  /\ pc = "encode" => read = 0 /\ output = <<>> /\ at <= Len(input)
  /\ pc # "encode" => Len(output) <= declared
  /\ pc = "decode" => Remaining
  /\ R!AcceptsExactlyTheValid

\* The input is made of bytes.
LEMMA InputFacts ==
  ASSUME NEW S, NEW n \in Nat, NEW s \in R!UpTo(S, n)
  PROVE  s \in Seq(S) /\ Len(s) \in 0..n
<1>1. PICK m \in 0..n : s \in [1..m -> S]
  BY DEF R!UpTo
<1> QED
  BY <1>1

\* The stream of a decoder at its first byte.
LEMMA NothingRead ==
  ASSUME stream \in Seq(R!Bytes), read = 0, output = <<>>
  PROVE  Remaining
<1>1. 1 \in 1..Len(stream) + 1 /\ read + 1 = 1
  OBVIOUS
<1>2. Rest(1) \in Meant /\ R!Meaning(stream) = Rest(1)
  BY <1>1, MeaningFacts DEF Rest, R!Meaning
<1>3. CASE Rest(1) \in Seq(R!Bytes)
  <2>1. <<>> \o Rest(1) = Rest(1)
    BY <1>3, ConcatEmptySeq
  <2> QED
    BY <1>1, <1>2, <1>3, <2>1 DEF Remaining
<1> QED
  BY <1>1, <1>2, <1>3 DEF Remaining, Meant

\* The run-length codec starts in the invariant.
LEMMA RleInit == R!Init => RleInv
<1> SUFFICES ASSUME R!Init PROVE RleInv
  OBVIOUS
<1>1. /\ at = 0 /\ runByte = 0 /\ runLength = 0 /\ literals = <<>> /\ read = 0 /\ output = <<>>
      /\ MaxInput \in Nat /\ MaxStream \in Nat /\ MaxRun \in Nat \ {0} /\ runByte \in R!Bytes
  BY RunLengthAssumption DEF R!Init, R!BoundAssumption, R!RunAssumption, R!Bytes
<1>2. CASE /\ written = TRUE /\ input \in R!UpTo(Values, MaxInput)
           /\ pc = "encode" /\ stream = <<>> /\ declared = 0
  <2>1. Len(input) \in 0..MaxInput
    BY <1>1, <1>2, InputFacts
  <2> QED
    BY <1>1, <1>2, <2>1 DEF RleInv, R!TypeOK, R!AcceptsExactlyTheValid
<1>3. CASE /\ written = FALSE /\ input = <<>>
           /\ pc = "decode" /\ stream \in R!UpTo(R!Bytes, MaxStream) /\ declared \in 0..MaxInput
  <2>1. stream \in Seq(R!Bytes) /\ Len(stream) \in Nat
    BY <1>1, <1>3, InputFacts
  <2>2. Remaining
    BY <1>1, <2>1, NothingRead
  <2>3. input \in R!UpTo(Values, MaxInput)
    BY <1>1, <1>3 DEF R!UpTo
  <2> QED
    <3>1. Len(literals) < MaxRun /\ literals \in Seq(R!Bytes) /\ output \in Seq(R!Bytes)
          /\ Len(output) = 0 /\ declared \in Nat
      BY <1>1, <1>3
    <3>2. R!TypeOK
      <4>1. at \in 0..MaxInput /\ runLength \in 0..MaxRun /\ read \in 0..Len(stream)
        BY <1>1, <2>1
      <4>2. written \in BOOLEAN
        BY <1>3, Zenon
      <4> QED
        BY <1>1, <1>3, <2>1, <2>3, <3>1, <4>1, <4>2 DEF R!TypeOK
    <3> QED
      BY <1>3, <2>2, <3>1, <3>2 DEF RleInv, R!AcceptsExactlyTheValid
<1> QED
  BY <1>2, <1>3 DEF R!Init

\* The encoder's helpers on pairs of literals and output.
Pairs == [lits : {s \in Seq(R!Bytes) : Len(s) < MaxRun}, out : Seq(R!Bytes)]

\* A flush adds the literals that are pending to the stream, as blocks.
LEMMA FlushFacts ==
  ASSUME NEW p, p \in [lits : {s \in Seq(R!Bytes) : Len(s) <= MaxRun}, out : Seq(R!Bytes)]
  PROVE  R!FlushLiterals(p) \in Pairs /\ R!FlushLiterals(p).lits = <<>>
<1>1. p.lits \in Seq(R!Bytes) /\ Len(p.lits) \in Nat /\ Len(p.lits) <= MaxRun /\ p.out \in Seq(R!Bytes)
      /\ MaxRun \in Nat \ {0}
  BY RunLengthAssumption DEF R!RunAssumption
<1>2. CASE p.lits = <<>>
  BY <1>1, <1>2 DEF R!FlushLiterals, Pairs
<1>3. CASE p.lits # <<>>
  <2>1. Len(p.lits) - 1 \in R!Bytes
    <3>1. Len(p.lits) # 0
      BY <1>1, <1>3
    <3> QED
      BY <1>1, <3>1 DEF R!Bytes
  <2>2. <<Len(p.lits) - 1>> \in Seq(R!Bytes)
    BY <2>1
  <2>3. (p.out \o <<Len(p.lits) - 1>>) \o p.lits \in Seq(R!Bytes)
    BY <1>1, <2>2, ConcatProperties
  <2>4. R!FlushLiterals(p) = [lits |-> <<>>, out |-> (p.out \o <<Len(p.lits) - 1>>) \o p.lits]
    BY <1>3 DEF R!FlushLiterals
  <2>5. <<>> \in Seq(R!Bytes) /\ Len(<<>>) < MaxRun
    BY <1>1
  <2> QED
    BY <2>3, <2>4, <2>5 DEF Pairs
<1> QED
  BY <1>2, <1>3

\* A literal that is added may flush those before it.
LEMMA AddFacts ==
  ASSUME NEW p \in Pairs, NEW v \in R!Bytes
  PROVE  R!AddLiteral(p, v) \in Pairs
<1> DEFINE q == [p EXCEPT !.lits = Append(@, v)]
<1>1. p.lits \in Seq(R!Bytes) /\ Len(p.lits) \in Nat /\ Len(p.lits) < MaxRun /\ p.out \in Seq(R!Bytes)
      /\ MaxRun \in Nat \ {0}
  BY RunLengthAssumption DEF R!RunAssumption, Pairs
<1>2. Append(p.lits, v) \in Seq(R!Bytes) /\ Len(Append(p.lits, v)) = Len(p.lits) + 1
  BY <1>1
<1>3. q = [lits |-> Append(p.lits, v), out |-> p.out]
  <2>1. PICK l, o : l = p.lits /\ o = p.out
    OBVIOUS
  <2>2. p = [lits |-> l, out |-> o]
    BY <2>1 DEF Pairs
  <2>3. PICK a : a = Append(p.lits, v)
    OBVIOUS
  <2>4. q = [p EXCEPT !.lits = a]
    BY <2>3
  <2>5. q = [lits |-> a, out |-> o]
    BY ONLY <2>2, <2>4
  <2> QED
    BY <2>1, <2>3, <2>5
<1>4. R!AddLiteral(p, v) = IF Len(q.lits) = MaxRun THEN R!FlushLiterals(q) ELSE q
  BY DEF R!AddLiteral
<1> HIDE DEF q
<1>5. Len(q.lits) = Len(p.lits) + 1 /\ q.lits \in Seq(R!Bytes) /\ q.out = p.out
      /\ q = [lits |-> q.lits, out |-> q.out]
  BY <1>2, <1>3
<1>6. q \in [lits : {s \in Seq(R!Bytes) : Len(s) <= MaxRun}, out : Seq(R!Bytes)]
  BY <1>1, <1>5
<1>7. Len(q.lits) # MaxRun => q \in Pairs
  BY <1>1, <1>5 DEF Pairs
<1> QED
  BY <1>4, <1>6, <1>7, FlushFacts

\* A run is added to the stream as a block, or to the literals.
LEMMA RunFacts ==
  ASSUME NEW p \in Pairs, NEW v \in R!Bytes, NEW n \in 1..MaxRun
  PROVE  R!FlushRun(p, v, n) \in Pairs
<1>1. CASE n >= 3
  <2> DEFINE q == R!FlushLiterals(p)
  <2>1. p \in [lits : {s \in Seq(R!Bytes) : Len(s) <= MaxRun}, out : Seq(R!Bytes)]
    <3>1. p \in [lits : {s \in Seq(R!Bytes) : Len(s) < MaxRun}, out : Seq(R!Bytes)]
      BY DEF Pairs
    <3>2. MaxRun \in Nat /\ \A s \in Seq(R!Bytes) : Len(s) < MaxRun => Len(s) <= MaxRun
      BY RunLengthAssumption DEF R!RunAssumption
    <3> QED
      BY <3>1, <3>2
  <2>2. q \in Pairs
    BY <2>1, FlushFacts
  <2>3. MaxRun + n - 1 \in R!Bytes
    BY RunLengthAssumption DEF R!RunAssumption, R!Bytes
  <2>4. <<MaxRun + n - 1, v>> \in Seq(R!Bytes)
    BY <2>3
  <2>5. R!FlushRun(p, v, n) = [q EXCEPT !.out = @ \o <<MaxRun + n - 1, v>>]
    BY <1>1 DEF R!FlushRun
  <2>6. q = [lits |-> q.lits, out |-> q.out] /\ q.out \in Seq(R!Bytes)
    BY <2>2 DEF Pairs
  <2> HIDE DEF q
  <2>7. q.out \o <<MaxRun + n - 1, v>> \in Seq(R!Bytes)
    BY <2>4, <2>6, ConcatProperties
  <2> QED
    BY <2>2, <2>5, <2>6, <2>7 DEF Pairs
<1>2. CASE ~(n >= 3)
  BY <1>2, AddFacts DEF R!FlushRun
<1> QED
  BY <1>1, <1>2

\* A byte that is encoded: the run goes on or ends.
LEMMA EncodeByteKeeps ==
  ASSUME RleInv, R!EncodeByte
  PROVE  RleInv'
<1>1. /\ UNCHANGED <<input, written, pc, declared, read, output>> /\ pc = "encode"
      /\ at < Len(input) /\ at' = at + 1
  BY DEF R!EncodeByte
<1>2. /\ input \in Seq(Values) /\ Len(input) \in 0..MaxInput /\ at \in Nat /\ MaxInput \in Nat
      /\ MaxRun \in Nat \ {0} /\ Values \subseteq R!Bytes
      /\ runByte \in R!Bytes /\ runLength \in 0..MaxRun
      /\ literals \in Seq(R!Bytes) /\ Len(literals) < MaxRun /\ stream \in Seq(R!Bytes)
      /\ read = 0 /\ output = <<>> /\ declared \in Nat
  BY <1>1, RunLengthAssumption, InputFacts
     DEF RleInv, R!TypeOK, R!RunAssumption, R!BoundAssumption, R!Bytes
<1>3. PICK v \in R!Bytes : v = input[at + 1]
  BY <1>1, <1>2
<1>4. /\ runByte' = v /\ runLength' \in 0..MaxRun /\ literals' \in Seq(R!Bytes)
      /\ Len(literals') < MaxRun /\ stream' \in Seq(R!Bytes)
  <2>1. CASE runLength = 0 \/ (v = runByte /\ runLength < MaxRun)
    BY <1>2, <1>3, <2>1 DEF R!EncodeByte
  <2>2. CASE ~(runLength = 0 \/ (v = runByte /\ runLength < MaxRun))
    <3> DEFINE p == R!FlushRun(R!Pending, runByte, runLength)
    <3>1. R!Pending \in Pairs
      BY <1>2 DEF Pairs, R!Pending
    <3>2. p \in Pairs
      BY <1>2, <2>2, <3>1, RunFacts
    <3>3. literals' = p.lits /\ stream' = p.out /\ runByte' = v /\ runLength' = 1
      BY <1>3, <2>2 DEF R!EncodeByte
    <3> HIDE DEF p
    <3> QED
      BY <1>2, <3>2, <3>3 DEF Pairs
  <2> QED
    BY <2>1, <2>2
<1>5. at' \in 0..MaxInput /\ at' <= Len(input') /\ read' \in 0..Len(stream')
  BY <1>1, <1>2, <1>4
<1> QED
  BY <1>1, <1>3, <1>4, <1>5 DEF RleInv, R!TypeOK, R!AcceptsExactlyTheValid

\* The encoder ends: the last run and the last literals are written.
LEMMA EncodeEndKeeps ==
  ASSUME RleInv, R!EncodeEnd
  PROVE  RleInv'
<1>1. /\ UNCHANGED <<input, written, at, runByte, runLength, read, output>> /\ pc = "encode"
      /\ pc' = "decode" /\ declared' = Len(input)
  BY DEF R!EncodeEnd
<1>2. /\ Len(input) \in Nat /\ MaxRun \in Nat \ {0}
      /\ runByte \in R!Bytes /\ runLength \in 0..MaxRun
      /\ literals \in Seq(R!Bytes) /\ Len(literals) < MaxRun /\ stream \in Seq(R!Bytes)
      /\ read = 0 /\ output = <<>>
  BY <1>1, RunLengthAssumption, InputFacts DEF RleInv, R!TypeOK, R!RunAssumption, R!BoundAssumption
<1> DEFINE p == IF runLength > 0 THEN R!FlushRun(R!Pending, runByte, runLength) ELSE R!Pending
           q == R!FlushLiterals(p)
<1>3. R!Pending \in Pairs
  BY <1>2 DEF Pairs, R!Pending
<1>4. p \in Pairs
  BY <1>2, <1>3, RunFacts
<1>5. literals' = q.lits /\ stream' = q.out
  BY DEF R!EncodeEnd
<1> HIDE DEF p
<1>6. q \in Pairs
  <2>1. p \in [lits : {s \in Seq(R!Bytes) : Len(s) < MaxRun}, out : Seq(R!Bytes)]
    BY <1>4 DEF Pairs
  <2>2. \A s \in Seq(R!Bytes) : Len(s) < MaxRun => Len(s) <= MaxRun
    BY <1>2
  <2>3. p \in [lits : {s \in Seq(R!Bytes) : Len(s) <= MaxRun}, out : Seq(R!Bytes)]
    BY <2>1, <2>2
  <2> QED
    BY <2>3, FlushFacts
<1> HIDE DEF q
<1>7. literals' \in Seq(R!Bytes) /\ Len(literals') < MaxRun /\ stream' \in Seq(R!Bytes)
  BY <1>5, <1>6 DEF Pairs
<1>8. Remaining'
  <2>1. PICK t \in Seq(R!Bytes) : t = stream'
    BY <1>7
  <2>2. 1 \in 1..Len(t) + 1 /\ read' + 1 = 1 /\ output' = <<>>
    BY <1>1, <1>2, <2>1
  <2>3. R!MeaningFrom(t)[1] \in Meant
    BY <2>2, MeaningFacts
  <2>4. R!Meaning(t) = R!MeaningFrom(t)[1] /\ Rest(read + 1)' = R!MeaningFrom(t)[1]
        /\ R!Meaning(stream)' = R!Meaning(t)
    BY <2>1, <2>2 DEF Rest, R!Meaning
  <2>5. \A u \in Seq(R!Bytes) : <<>> \o u = u
    BY ConcatEmptySeq
  <2> QED
    BY <2>2, <2>3, <2>4, <2>5 DEF Remaining, Meant
<1>9. Len(output') <= declared' /\ declared' \in Nat /\ read' \in 0..Len(stream')
  BY <1>1, <1>2, <1>7
<1> QED
  BY <1>1, <1>7, <1>8, <1>9 DEF RleInv, R!TypeOK, R!AcceptsExactlyTheValid

\* A block that fits is taken from what remains.
LEMMA BlockTaken ==
  ASSUME RleInv, pc = "decode", Len(output) < declared, R!Left >= 1, R!Fits(R!Count),
         UNCHANGED <<input, written, pc, at, runByte, runLength, literals, stream, declared>>,
         output' = output \o R!Block(stream, read + 1),
         read' + 1 = R!After(stream, read + 1), read' \in 0..Len(stream)
  PROVE  RleInv'
<1> DEFINE p == read + 1
           b == R!Block(stream, p)
           a == R!After(stream, p)
<1>1. stream \in Seq(R!Bytes) /\ output \in Seq(R!Bytes) /\ read \in Nat /\ declared \in Nat
      /\ Len(stream) \in Nat /\ Len(output) \in Nat /\ p \in 1..Len(stream) /\ p # Len(stream) + 1
      /\ Remaining
  BY DEF RleInv, R!TypeOK, R!Left
<1>2. a <= Len(stream) + 1 /\ p \in 1..Len(stream) + 1 /\ a \in 1..Len(stream) + 1
  BY <1>1
<1>3. b \in Seq(R!Bytes) /\ Len(b) = R!CountAt(stream, p) /\ R!CountAt(stream, p) \in Nat
  <2>1. MaxRun \in Nat
    BY RunLengthAssumption DEF R!RunAssumption
  <2> QED
    BY <1>1, <1>2, <2>1, BlockFacts
<1>4. output' \in Seq(R!Bytes) /\ Len(output') = Len(output) + R!CountAt(stream, p)
  BY <1>1, <1>3, ConcatProperties
<1>5. Len(output') <= declared
  BY <1>1, <1>3, <1>4 DEF R!Fits, R!Count, R!Control, R!CountAt
<1>6. /\ MeansFrom(stream, R!MeaningFrom(stream), p)
      /\ Rest(a) \in Meant
  BY <1>1, <1>2, MeaningFacts DEF Rest
<1>7. Rest(p) = IF Rest(a) = Unreadable THEN Unreadable ELSE b \o Rest(a)
  BY <1>1, <1>2, <1>6 DEF MeansFrom, Rest
<1>8. Remaining'
  <2>1. Rest(read + 1)' = Rest(a) /\ R!Meaning(stream)' = R!Meaning(stream)
    BY DEF Rest, R!Meaning
  <2>2. Unreadable \notin Seq(R!Bytes)
    BY RunLengthAssumption DEF R!RunAssumption, R!Bytes
  <2>3. CASE Rest(a) = Unreadable
    <3>1. Rest(p) = Unreadable
      BY <1>7, <2>3
    <3> QED
      BY <1>1, <2>1, <2>2, <2>3, <3>1 DEF Remaining
  <2>4. CASE Rest(a) # Unreadable
    <3>1. Rest(a) \in Seq(R!Bytes) /\ Rest(p) = b \o Rest(a)
      BY <1>6, <1>7, <2>4 DEF Meant
    <3>2. Rest(p) \in Seq(R!Bytes)
      BY <1>3, <3>1, ConcatProperties
    <3>3. R!Meaning(stream) = output \o (b \o Rest(a))
      BY <1>1, <2>2, <3>1, <3>2 DEF Remaining
    <3>4. R!Meaning(stream) = (output \o b) \o Rest(a)
      <4> HIDE DEF b, a
      <4>1. PICK x \in Seq(R!Bytes), y \in Seq(R!Bytes), z \in Seq(R!Bytes) :
              x = output /\ y = b /\ z = Rest(a)
        BY <1>1, <1>3, <3>1, Zenon
      <4>2. (x \o y) \o z = x \o (y \o z)
        BY ONLY ConcatAssociative, x \in Seq(R!Bytes), y \in Seq(R!Bytes), z \in Seq(R!Bytes)
      <4> QED
        BY ONLY <3>3, <4>1, <4>2, Zenon
    <3> QED
      BY <2>1, <3>1, <3>4 DEF Remaining
  <2> QED
    BY <2>3, <2>4
<1> QED
  BY <1>4, <1>5, <1>8 DEF RleInv, R!TypeOK, R!AcceptsExactlyTheValid

\* A block is decoded: the rest of the meaning is that of the rest.
LEMMA DecodeKeepsRle ==
  ASSUME RleInv, R!DecodeRun \/ R!DecodeLiterals
  PROVE  RleInv'
<1>1. stream \in Seq(R!Bytes) /\ output \in Seq(R!Bytes) /\ read \in 0..Len(stream)
      /\ Len(stream) \in Nat /\ Len(output) \in Nat /\ declared \in Nat /\ MaxRun \in Nat
  BY RunLengthAssumption DEF RleInv, R!TypeOK, R!RunAssumption
<1>2. R!Count = R!CountAt(stream, read + 1) /\ R!Control = stream[read + 1] /\ R!Left = Len(stream) - read
  BY DEF R!Count, R!CountAt, R!Control, R!Left
<1>3. R!Left >= 1 => R!Count \in 1..MaxRun /\ R!Control \in Nat
  <2> SUFFICES ASSUME R!Left >= 1 PROVE R!Count \in 1..MaxRun /\ R!Control \in Nat
    OBVIOUS
  <2>1. read + 1 \in 1..Len(stream)
    BY <1>1, <1>2
  <2>2. R!Control \in R!Bytes
    BY <1>1, <1>2, <2>1
  <2> QED
    BY <2>2, CountFacts DEF R!Count, R!Bytes
<1>4. CASE R!DecodeRun
  <2>1. R!Left >= 2 /\ R!Control >= MaxRun /\ Len(output) < declared /\ R!Fits(R!Count)
        /\ pc = "decode" /\ read' = read + 2
        /\ UNCHANGED <<input, written, pc, at, runByte, runLength, literals, stream, declared>>
        /\ output' = output \o R!Repeat(stream[read + 2], R!Count)
    BY <1>4 DEF R!DecodeRun, R!RunComes
  <2>2. (read + 1) + 1 = read + 2 /\ read' + 1 = (read + 1) + 2 /\ read' \in 0..Len(stream) /\ R!Left >= 1
    BY <1>1, <1>2, <2>1
  <2>3. output' = output \o R!Block(stream, read + 1) /\ read' + 1 = R!After(stream, read + 1)
    BY <1>2, <2>1, <2>2 DEF R!Block, R!After
  <2> QED
    BY <2>1, <2>2, <2>3, BlockTaken
<1>5. CASE R!DecodeLiterals
  <2>1. R!Left >= 1 /\ R!Control < MaxRun /\ Len(output) < declared /\ R!Fits(R!Count)
        /\ R!Left > R!Count
        /\ pc = "decode" /\ read' = read + 1 + R!Count
        /\ UNCHANGED <<input, written, pc, at, runByte, runLength, literals, stream, declared>>
        /\ output' = output \o SubSeq(stream, read + 2, read + 1 + R!Count)
    BY <1>5 DEF R!DecodeLiterals, R!LiteralsCome
  <2>2. (read + 1) + 1 = read + 2 /\ read' + 1 = (read + 1) + 1 + R!Count /\ read' \in 0..Len(stream)
        /\ ~(R!Control >= MaxRun)
    <3>1. R!Count \in Nat /\ read \in Nat /\ Len(stream) \in Nat /\ R!Left = Len(stream) - read
      BY <1>1, <1>2, <1>3, <2>1, RunLengthAssumption DEF R!RunAssumption
    <3>2. R!Control \in Nat /\ MaxRun \in Nat
      BY <1>3, <2>1, RunLengthAssumption DEF R!RunAssumption
    <3>3. read' \in 0..Len(stream)
      BY ONLY <2>1, <3>1
    <3>4. ~(R!Control >= MaxRun)
      BY ONLY <2>1, <3>2
    <3>5. read' + 1 = (read + 1) + 1 + R!Count
      BY ONLY <2>1, <3>1
    <3>6. (read + 1) + 1 = read + 2
      BY ONLY <3>1
    <3> QED
      BY ONLY <3>3, <3>4, <3>5, <3>6, Zenon
  <2>3. output' = output \o R!Block(stream, read + 1) /\ read' + 1 = R!After(stream, read + 1)
    BY <1>2, <2>1, <2>2 DEF R!Block, R!After
  <2> QED
    BY <2>1, <2>2, <2>3, BlockTaken
<1> QED
  BY <1>4, <1>5

\* The decoder accepts: the output is all the meaning.
LEMMA DecodeEndKeepsRle ==
  ASSUME RleInv, R!DecodeEnd
  PROVE  RleInv'
<1>1. /\ pc = "decode" /\ pc' = "done" /\ Len(output) >= declared /\ R!Left = 0
      /\ UNCHANGED <<input, written, at, runByte, runLength, literals, stream, declared, read, output>>
  BY DEF R!DecodeEnd, R!Complete
<1>2. stream \in Seq(R!Bytes) /\ output \in Seq(R!Bytes) /\ read \in 0..Len(stream)
      /\ Len(stream) \in Nat /\ Len(output) \in Nat /\ declared \in Nat
      /\ Len(output) <= declared /\ Remaining
  BY <1>1 DEF RleInv, R!TypeOK
<1>3. read + 1 = Len(stream) + 1 /\ Len(stream) + 1 \in 1..Len(stream) + 1
  BY <1>1, <1>2 DEF R!Left
<1>4. Rest(read + 1) = <<>>
  BY <1>2, <1>3, MeaningFacts DEF MeansFrom, Rest
<1>5. <<>> \in Seq(R!Bytes) /\ Unreadable \notin Seq(R!Bytes) /\ output \o <<>> = output
  BY <1>2, ConcatEmptySeq, RunLengthAssumption DEF R!RunAssumption, R!Bytes
<1>6. R!Meaning(stream) = output /\ Len(output) = declared
  <2>1. Len(output) = declared
    BY <1>1, <1>2
  <2>2. Rest(read + 1) # Unreadable
    BY <1>4, <1>5
  <2>3. R!Meaning(stream) = output \o <<>>
    BY <1>2, <1>4, <2>2 DEF Remaining
  <2> QED
    BY <1>5, <2>1, <2>3
<1>7. R!AcceptsExactlyTheValid'
  BY <1>1, <1>6 DEF R!AcceptsExactlyTheValid, R!Meaning
<1> QED
  BY <1>1, <1>2, <1>7 DEF RleInv, R!TypeOK

\* The decoder refuses: there is no meaning of the declared length.
LEMMA DecodeErrorKeepsRle ==
  ASSUME RleInv, R!DecodeError
  PROVE  RleInv'
<1>1. /\ pc = "decode" /\ pc' = "failed" /\ ~R!RunComes /\ ~R!LiteralsCome /\ ~R!Complete
      /\ UNCHANGED <<input, written, at, runByte, runLength, literals, stream, declared, read, output>>
  BY DEF R!DecodeError
<1>2. stream \in Seq(R!Bytes) /\ output \in Seq(R!Bytes) /\ read \in 0..Len(stream)
      /\ Len(stream) \in Nat /\ Len(output) \in Nat /\ declared \in Nat
      /\ Len(output) <= declared /\ Remaining /\ MaxRun \in Nat
  BY <1>1, RunLengthAssumption DEF RleInv, R!TypeOK, R!RunAssumption
<1> DEFINE p == read + 1
<1>3. p \in 1..Len(stream) + 1 /\ R!Left = Len(stream) - read
  BY <1>2 DEF R!Left
<1>4. SUFFICES ASSUME R!Meaning(stream) # Unreadable PROVE Len(R!Meaning(stream)) # declared
  <2>1. R!AcceptsExactlyTheValid'
    BY <1>1, <1>4 DEF R!AcceptsExactlyTheValid, R!Meaning
  <2> QED
    BY <1>1, <1>2, <2>1 DEF RleInv, R!TypeOK
<1>5. /\ R!Meaning(stream) = output \o Rest(p) /\ Rest(p) \in Seq(R!Bytes) /\ Len(Rest(p)) \in Nat
      /\ Rest(p) # Unreadable
  BY <1>2, <1>4, RunLengthAssumption DEF Remaining, R!RunAssumption, R!Bytes
<1>6. Len(R!Meaning(stream)) = Len(output) + Len(Rest(p))
  BY <1>2, <1>5, ConcatProperties
<1>7. MeansFrom(stream, R!MeaningFrom(stream), p)
  BY <1>2, <1>3, MeaningFacts
<1>8. CASE R!Left = 0
  <2>1. Rest(p) = <<>>
    BY <1>2, <1>3, <1>7, <1>8 DEF MeansFrom, Rest
  <2>2. Len(Rest(p)) = 0 /\ Len(output) < declared
    BY <1>1, <1>2, <1>8, <2>1 DEF R!Complete
  <2> QED
    BY <1>2, <1>6, <2>2
<1>9. CASE R!Left # 0
  <2>1. p \in 1..Len(stream) /\ p # Len(stream) + 1 /\ R!Left >= 1
    BY <1>2, <1>3, <1>9
  <2> DEFINE b == R!Block(stream, p)
             a == R!After(stream, p)
             n == R!CountAt(stream, p)
  <2>2. /\ a \in Nat /\ a > p /\ n \in 1..MaxRun
        /\ a <= Len(stream) + 1 => b \in Seq(R!Bytes) /\ Len(b) = n
    BY <1>2, <2>1, BlockFacts
  <2>3. ~(a > Len(stream) + 1 \/ Rest(a) = Unreadable) /\ Rest(p) = b \o Rest(a)
    BY <1>5, <1>7, <2>1 DEF MeansFrom, Rest
  <2>4. a <= Len(stream) + 1 /\ a \in 1..Len(stream) + 1
    BY <1>2, <2>2, <2>3
  <2>5. Rest(a) \in Seq(R!Bytes)
    BY <1>2, <2>3, <2>4, MeaningFacts DEF Meant, Rest
  <2>6. Len(Rest(p)) = n + Len(Rest(a)) /\ Len(Rest(a)) \in Nat
    BY <2>2, <2>3, <2>4, <2>5, ConcatProperties
  <2>7. stream[p] \in R!Bytes
    BY <1>2, <2>1
  <2>8. R!Count = n /\ R!Control = stream[p] /\ R!Control \in Nat
    BY <2>7 DEF R!Count, R!CountAt, R!Control, R!Bytes
  <2>9. CASE Len(output) >= declared
    BY <1>2, <1>6, <2>2, <2>6, <2>9
  <2>10. CASE Len(output) < declared
    <3>1. R!Fits(R!Count) => FALSE
      <4>1. R!Control >= MaxRun => R!Left >= 2
        BY <1>2, <1>3, <2>1, <2>4, <2>8 DEF R!After
      <4>2. R!Control < MaxRun => R!Left > R!Count
        BY <1>2, <1>3, <2>1, <2>2, <2>4, <2>8 DEF R!After
      <4>3. R!Control >= MaxRun \/ R!Control < MaxRun
        BY <1>2, <2>8
      <4> QED
        BY <1>1, <2>1, <2>10, <4>1, <4>2, <4>3 DEF R!RunComes, R!LiteralsCome
    <3>2. n > declared - Len(output)
      BY <1>2, <2>2, <2>8, <3>1 DEF R!Fits
    <3> QED
      BY <1>2, <1>6, <2>2, <2>6, <3>2
  <2> QED
    BY <1>2, <2>9, <2>10
<1> QED
  BY <1>8, <1>9

\* Every step of the run-length codec keeps the invariant.
LEMMA RleStep == RleInv /\ R!Next => RleInv'
BY EncodeByteKeeps, EncodeEndKeeps, DecodeKeepsRle, DecodeEndKeepsRle, DecodeErrorKeepsRle
   DEF R!Next, R!Decode

\* Nor does standing still break it.
LEMMA RleStill == RleInv /\ UNCHANGED R!vars => RleInv'
BY DEF RleInv, R!vars, R!TypeOK, R!AcceptsExactlyTheValid, R!Meaning, Remaining, Rest

\* Three sequences of bytes in one.
LEMMA BytesAssociate ==
  ASSUME NEW x \in Seq(R!Bytes), NEW y \in Seq(R!Bytes), NEW z \in Seq(R!Bytes)
  PROVE  (x \o y) \o z = x \o (y \o z)
BY ConcatAssociative

\* Nothing means nothing.
LEMMA MeaningOfNothing == R!Meaning(<<>>) = <<>>
<1>1. PICK s : s = <<>>
  OBVIOUS
<1>2. s \in Seq(R!Bytes) /\ Len(s) = 0 /\ 1 \in 1..Len(s) + 1 /\ 1 = Len(s) + 1
  BY <1>1
<1>3. MeansFrom(s, R!MeaningFrom(s), 1)
  BY ONLY <1>2, MeaningFacts
<1> QED
  BY <1>1, <1>2, <1>3 DEF MeansFrom, R!Meaning

\* What a longer stream says of a block of the shorter one.
LEMMA BlockOfMore ==
  ASSUME NEW s \in Seq(R!Bytes), NEW t \in Seq(R!Bytes), Len(t) >= Len(s),
         \A i \in 1..Len(s) : t[i] = s[i],
         NEW p \in 1..Len(s), R!After(s, p) <= Len(s) + 1
  PROVE  R!After(t, p) = R!After(s, p) /\ R!Block(t, p) = R!Block(s, p)
<1>1. Len(s) \in Nat /\ Len(t) \in Nat /\ p \in Nat /\ s[p] \in R!Bytes /\ MaxRun \in Nat
      /\ t[p] = s[p]
  BY RunLengthAssumption DEF R!RunAssumption
<1>2. R!CountAt(s, p) \in 1..MaxRun /\ R!CountAt(t, p) = R!CountAt(s, p)
  BY <1>1, CountFacts DEF R!CountAt
<1>3. s[p] \in Nat
  BY <1>1 DEF R!Bytes
<1>4. R!After(t, p) = R!After(s, p)
  BY <1>1, <1>2 DEF R!After
<1>5. CASE s[p] >= MaxRun
  <2>1. p + 1 \in 1..Len(s)
    BY <1>1, <1>5 DEF R!After
  <2>2. t[p + 1] = s[p + 1]
    BY <2>1
  <2> QED
    BY <1>1, <1>2, <1>4, <1>5, <2>2 DEF R!Block
<1>6. CASE ~(s[p] >= MaxRun)
  <2>1. PICK n \in Nat : n = R!CountAt(s, p) /\ p + n <= Len(s) /\ n >= 1
    BY <1>1, <1>2, <1>6 DEF R!After
  <2>2. PICK k \in Nat : k = p + 1
    BY <1>1
  <2>3. PICK m \in Nat : m = p + n /\ m <= Len(s) /\ k >= 1
    BY <1>1, <2>1, <2>2
  <2>4. SubSeq(s, k, m) = [i \in 1..m - k + 1 |-> s[i + k - 1]]
    BY <2>2, <2>3
  <2>5. SubSeq(t, k, m) = [i \in 1..m - k + 1 |-> t[i + k - 1]]
    BY <2>2, <2>3
  <2>6. \A i \in 1..m - k + 1 : t[i + k - 1] = s[i + k - 1]
    <3> TAKE i \in 1..m - k + 1
    <3>1. i + k - 1 \in 1..Len(s)
      BY <1>1, <2>2, <2>3
    <3> QED
      BY <3>1
  <2>7. SubSeq(t, k, m) = SubSeq(s, k, m)
    BY <2>4, <2>5, <2>6
  <2> QED
    BY <1>1, <1>2, <1>4, <1>6, <2>1, <2>2, <2>3, <2>7 DEF R!Block
<1> QED
  BY <1>4, <1>5, <1>6

\* A block that stands at the end of a stream is read as it is alone.
LEMMA BlockAtEnd ==
  ASSUME NEW s \in Seq(R!Bytes), NEW b \in Seq(R!Bytes), Len(b) >= 1,
         R!After(b, 1) = Len(b) + 1
  PROVE  /\ R!After(s \o b, Len(s) + 1) = Len(s \o b) + 1
         /\ R!Block(s \o b, Len(s) + 1) = R!Block(b, 1)
<1>1. PICK t \in Seq(R!Bytes) : t = s \o b
  BY ConcatProperties
<1>2. PICK l \in Nat, n \in Nat : l = Len(s) /\ n = Len(b) /\ n >= 1
  OBVIOUS
<1>3. Len(t) = l + n /\ \A i \in 1..n : t[l + i] = b[i]
  <2>1. Len(t) = Len(s) + Len(b)
    BY <1>1, ConcatProperties
  <2>2. ASSUME NEW i \in 1..n PROVE t[l + i] = b[i]
    <3>1. l + i \in 1..l + n /\ l + i > l /\ (l + i) - l = i
      BY <1>2
    <3>2. (s \o b)[l + i] = b[(l + i) - l]
      BY <1>2, <3>1, ConcatProperties
    <3> QED
      BY <1>1, <3>1, <3>2
  <2> QED
    BY <1>2, <2>1, <2>2
<1>4. b[1] \in R!Bytes /\ t[l + 1] = b[1] /\ MaxRun \in Nat
  BY <1>2, <1>3, RunLengthAssumption DEF R!RunAssumption
<1>5. R!CountAt(b, 1) \in 1..MaxRun /\ R!CountAt(t, l + 1) = R!CountAt(b, 1) /\ b[1] \in Nat
  BY <1>4, CountFacts DEF R!CountAt, R!Bytes
<1>6. CASE b[1] >= MaxRun
  <2>1. n = 2
    BY <1>2, <1>6 DEF R!After
  <2>2. t[(l + 1) + 1] = b[2]
    BY <1>2, <1>3, <2>1
  <2>3. R!After(t, l + 1) = Len(t) + 1
    BY <1>2, <1>3, <1>4, <1>6, <2>1 DEF R!After
  <2>4. R!Block(t, l + 1) = R!Block(b, 1)
    BY <1>4, <1>5, <1>6, <2>2 DEF R!Block
  <2> QED
    BY <1>1, <1>2, <2>3, <2>4
<1>7. CASE ~(b[1] >= MaxRun)
  <2>1. PICK c \in Nat : c = R!CountAt(b, 1) /\ n = c + 1 /\ c >= 1
    BY <1>2, <1>4, <1>5, <1>7 DEF R!After
  <2>2. R!After(t, l + 1) = Len(t) + 1
    <3>1. R!After(t, l + 1) = (l + 1) + 1 + c
      BY <1>4, <1>5, <1>7, <2>1 DEF R!After
    <3>2. PICK a, e : a = R!After(t, l + 1) /\ e = Len(t)
      OBVIOUS
    <3>3. a = (l + 1) + 1 + c /\ e = l + n
      BY <1>3, <3>1, <3>2
    <3>4. l \in Nat /\ n \in Nat /\ c \in Nat /\ n = c + 1
      BY <1>2, <2>1
    <3>5. a = e + 1
      BY ONLY <3>3, <3>4
    <3> QED
      BY <3>2, <3>5
  <2>3. SubSeq(t, (l + 1) + 1, (l + 1) + c) = SubSeq(b, 2, 1 + c)
    <3>1. PICK k \in Nat, m \in Nat : k = (l + 1) + 1 /\ m = (l + 1) + c
      BY <1>2, <2>1
    <3>0. l \in Nat /\ n \in Nat /\ c \in Nat /\ n = c + 1 /\ c >= 1
      BY <1>2, <2>1
    <3>2. SubSeq(t, k, m) = [i \in 1..m - k + 1 |-> t[i + k - 1]]
      BY ONLY <3>1
    <3>3. SubSeq(b, 2, 1 + c) = [i \in 1..(1 + c) - 2 + 1 |-> b[i + 2 - 1]]
      BY ONLY <3>0
    <3>4. m - k + 1 = c /\ (1 + c) - 2 + 1 = c
      BY ONLY <3>0, <3>1
    <3>5. ASSUME NEW i \in 1..c PROVE t[i + k - 1] = b[i + 2 - 1]
      <4>1. i + k - 1 = l + (i + 1) /\ i + 2 - 1 = i + 1 /\ i + 1 \in 1..n
        BY <3>0, <3>1
      <4> QED
        BY <1>3, <4>1
    <3>6. SubSeq(t, k, m) = [i \in 1..c |-> t[i + k - 1]]
      BY ONLY <3>2, <3>4
    <3>7. SubSeq(b, 2, 1 + c) = [i \in 1..c |-> b[i + 2 - 1]]
      BY ONLY <3>3, <3>4
    <3>8. SubSeq(t, k, m) = SubSeq(b, 2, 1 + c)
      BY ONLY <3>5, <3>6, <3>7
    <3> QED
      BY ONLY <3>1, <3>8
  <2>4. R!Block(b, 1) = SubSeq(b, 2, 1 + c)
    <3>1. 1 + 1 = 2
      OBVIOUS
    <3> QED
      BY <1>7, <2>1, <3>1 DEF R!Block
  <2>5. R!Block(t, l + 1) = SubSeq(t, (l + 1) + 1, (l + 1) + c)
    BY <1>4, <1>5, <1>7, <2>1 DEF R!Block
  <2> QED
    BY <1>1, <1>2, <2>2, <2>3, <2>4, <2>5
<1> QED
  BY <1>6, <1>7

\* One block more adds what it stands for to the meaning of a stream.
LEMMA MeaningOfMore ==
  ASSUME NEW s \in Seq(R!Bytes), NEW b \in Seq(R!Bytes), Len(b) >= 1,
         R!After(b, 1) = Len(b) + 1, R!Meaning(s) \in Seq(R!Bytes)
  PROVE  /\ R!Block(b, 1) \in Seq(R!Bytes)
         /\ R!Meaning(s \o b) = R!Meaning(s) \o R!Block(b, 1)
<1>1. PICK t \in Seq(R!Bytes) : t = s \o b
  BY ConcatProperties
<1>2. PICK l \in Nat, n \in Nat : l = Len(s) /\ n = Len(b) /\ n >= 1 /\ Len(t) = l + n
  BY <1>1, ConcatProperties
<1>3. \A i \in 1..l : t[i] = s[i]
  <2> TAKE i \in 1..l
  <2>1. i \in 1..Len(s) + Len(b) /\ i <= Len(s)
    BY <1>2
  <2> QED
    BY <1>1, <2>1, ConcatProperties
<1>4. PICK x \in Seq(R!Bytes) : x = R!Block(b, 1)
  <2>1. 1 \in 1..Len(b)
    BY <1>2
  <2> QED
    BY <2>1, BlockFacts
<1>5. R!After(t, l + 1) = Len(t) + 1 /\ R!Block(t, l + 1) = x
  BY <1>1, <1>2, <1>4, BlockAtEnd
<1> DEFINE f == R!MeaningFrom(s)
           g == R!MeaningFrom(t)
           Bad == {h \in 0..l : f[l + 1 - h] \in Seq(R!Bytes) /\ g[l + 1 - h] # f[l + 1 - h] \o x}
<1>6. /\ \A p \in 1..l + 1 : MeansFrom(s, f, p) /\ f[p] \in Meant
      /\ \A p \in 1..(l + n) + 1 : MeansFrom(t, g, p) /\ g[p] \in Meant
  BY <1>2, MeaningFacts
<1> HIDE DEF f, g
<1>7. Unreadable \notin Seq(R!Bytes)
  BY RunLengthAssumption DEF R!RunAssumption, R!Bytes
<1>8. Bad = {}
  <2>1. SUFFICES ASSUME Bad # {} PROVE FALSE
    OBVIOUS
  <2>2. Bad \in SUBSET Nat
    OBVIOUS
  <2>3. PICK h \in Bad : \A k \in Bad : h <= k
    <3> HIDE DEF Bad
    <3> QED
      BY <2>1, <2>2, LeastNatural
  <2>4. PICK p \in 1..l + 1 : p = l + 1 - h
    BY <1>2
  <2>5. f[p] \in Seq(R!Bytes) /\ g[p] # f[p] \o x
    BY <2>4
  <2>6. CASE p = l + 1
    <3>1. f[p] = <<>>
      BY <1>2, <1>6, <2>6 DEF MeansFrom
    <3>2. g[(l + n) + 1] = <<>>
      <4>1. (l + n) + 1 \in 1..(l + n) + 1
        BY <1>2
      <4> QED
        BY <1>2, <1>6, <4>1 DEF MeansFrom
    <3>3. g[p] = x \o <<>>
      <4>1. p \in 1..(l + n) + 1 /\ p # Len(t) + 1
        BY <1>2, <2>6
      <4>2. MeansFrom(t, g, p)
        BY <1>6, <4>1
      <4>3. ~(R!After(t, p) > Len(t) + 1)
        BY <1>2, <1>5, <2>6
      <4>4. <<>> \in Seq(R!Bytes)
        OBVIOUS
      <4>5. g[R!After(t, p)] = <<>> /\ g[R!After(t, p)] # Unreadable
        BY <1>2, <1>5, <1>7, <2>6, <3>2, <4>4
      <4>6. g[p] = R!Block(t, p) \o g[R!After(t, p)]
        BY ONLY <4>1, <4>2, <4>3, <4>5, Zenon DEF MeansFrom
      <4> QED
        BY <1>5, <2>6, <4>5, <4>6
    <3> QED
      BY <2>5, <3>1, <3>3, ConcatEmptySeq
  <2>7. CASE p # l + 1
    <3>1. p \in 1..l /\ p # Len(t) + 1 /\ p # Len(s) + 1
      BY <1>2, <2>4, <2>7
    <3>2. MeansFrom(s, f, p) /\ MeansFrom(t, g, p)
      BY <1>2, <1>6, <3>1
    <3>3. R!After(s, p) \in Nat /\ R!After(s, p) > p
          /\ (R!After(s, p) <= Len(s) + 1 => R!Block(s, p) \in Seq(R!Bytes))
      BY <1>2, <3>1, BlockFacts
    <3>4. ~(R!After(s, p) > Len(s) + 1) /\ f[R!After(s, p)] # Unreadable
      BY <1>7, <2>5, <3>1, <3>2 DEF MeansFrom
    <3>5. PICK a \in 1..l + 1 : a = R!After(s, p) /\ a > p /\ R!After(t, p) = a
                               /\ R!Block(t, p) = R!Block(s, p)
      <4>1. R!After(s, p) <= Len(s) + 1 /\ Len(t) >= Len(s)
        BY <1>2, <3>3, <3>4
      <4>2. R!After(t, p) = R!After(s, p) /\ R!Block(t, p) = R!Block(s, p)
        BY <1>2, <1>3, <3>1, <4>1, BlockOfMore
      <4> QED
        BY <1>2, <3>1, <3>3, <4>1, <4>2
    <3>6. PICK y \in Seq(R!Bytes), z \in Seq(R!Bytes) :
            y = R!Block(s, p) /\ z = f[a] /\ f[p] = y \o z
      <4>1. R!Block(s, p) \in Seq(R!Bytes)
        BY <1>2, <3>3, <3>5
      <4>2. f[a] \in Seq(R!Bytes)
        BY <1>6, <3>4, <3>5 DEF Meant
      <4>3. f[p] = R!Block(s, p) \o f[a]
        BY <3>1, <3>2, <3>4, <3>5 DEF MeansFrom
      <4> QED
        BY <4>1, <4>2, <4>3
    <3>7. g[a] = z \o x
      <4>1. PICK k : k = l + 1 - a
        OBVIOUS
      <4>2. h \in 0..l
        OBVIOUS
      <4>3. l \in Nat /\ a \in 1..l + 1 /\ a > p /\ p = l + 1 - h
        BY <2>4, <3>5
      <4>4. k \in 0..l /\ l + 1 - k = a /\ ~(h <= k)
        BY ONLY <4>1, <4>2, <4>3
      <4>5. k \notin Bad
        <5> HIDE DEF Bad
        <5> QED
          BY <2>3, <4>4
      <4> QED
        BY <3>6, <4>4, <4>5
    <3>8. g[p] = y \o g[a]
      <4>1. g[a] \in Seq(R!Bytes)
        BY <3>7, ConcatProperties
      <4>2. g[a] # Unreadable
        BY <1>7, <4>1
      <4>3. a <= (l + n) + 1
        BY ONLY <1>2, <3>5
      <4>4. ~(R!After(t, p) > Len(t) + 1)
        BY ONLY <1>2, <3>5, <4>3
      <4> QED
        BY <3>1, <3>2, <3>5, <3>6, <4>2, <4>4 DEF MeansFrom
    <3>9. (y \o z) \o x = y \o (z \o x)
      <4>1. x \in Seq(R!Bytes) /\ y \in Seq(R!Bytes) /\ z \in Seq(R!Bytes)
        OBVIOUS
      <4> QED
        BY <4>1, BytesAssociate, ZenonT(60)
    <3> QED
      BY <2>5, <3>6, <3>7, <3>8, <3>9
  <2> QED
    BY <2>6, <2>7
<1>9. g[1] = f[1] \o x
  <2>1. l \in 0..l /\ l + 1 - l = 1
    BY <1>2
  <2>0. l \notin Bad
    <3> HIDE DEF Bad
    <3> QED
      BY <1>8
  <2>2. f[1] \in Seq(R!Bytes)
    BY DEF f, R!Meaning
  <2> QED
    BY <2>0, <2>1, <2>2
<1> QED
  BY <1>1, <1>4, <1>9 DEF f, g, R!Meaning

\* The remainder of a number below the divisor, and of one that exceeds it once.
LEMMA SmallRemainder ==
  ASSUME NEW m \in Nat \ {0}, NEW k \in 0..m - 1
  PROVE  k % m = k /\ (m + k) % m = k
OBVIOUS

\* A block of literals stands for them.
LEMMA LiteralBlock ==
  ASSUME NEW w \in Seq(R!Bytes), NEW b, Len(w) >= 1, Len(w) <= MaxRun,
         b = <<Len(w) - 1>> \o w
  PROVE  /\ b \in Seq(R!Bytes) /\ Len(b) = Len(w) + 1
         /\ R!After(b, 1) = Len(b) + 1 /\ R!Block(b, 1) = w
<1>1. PICK n \in Nat : n = Len(w) /\ n >= 1 /\ n <= MaxRun
  OBVIOUS
<1>2. MaxRun \in Nat \ {0} /\ n - 1 \in 0..MaxRun - 1 /\ n - 1 \in R!Bytes
  BY <1>1, RunLengthAssumption DEF R!RunAssumption, R!Bytes
<1>3. PICK h \in Seq(R!Bytes) : h = <<n - 1>> /\ Len(h) = 1 /\ h[1] = n - 1
  <2>1. <<n - 1>> \in Seq(R!Bytes)
    BY <1>2
  <2>2. Len(<<n - 1>>) = 1 /\ <<n - 1>>[1] = n - 1
    OBVIOUS
  <2> QED
    BY <2>1, <2>2
<1>4. b \in Seq(R!Bytes) /\ Len(b) = n + 1 /\ b[1] = n - 1 /\ \A i \in 1..n : b[i + 1] = w[i]
  <2>1. b = h \o w
    BY <1>1, <1>3
  <2>2. b \in Seq(R!Bytes) /\ Len(b) = n + 1
    BY <1>1, <1>3, <2>1, ConcatProperties
  <2>3. b[1] = h[1]
    BY <1>1, <1>3, <2>1
  <2>4. ASSUME NEW i \in 1..n PROVE b[i + 1] = w[i]
    BY <1>1, <1>3, <2>1
  <2> QED
    BY <1>3, <2>2, <2>3, <2>4
<1>5. R!CountAt(b, 1) = n /\ ~(b[1] >= MaxRun)
  <2>1. (n - 1) % MaxRun = n - 1
    BY <1>2, SmallRemainder
  <2> QED
    BY <1>1, <1>2, <1>4, <2>1 DEF R!CountAt
<1>6. R!After(b, 1) = n + 2
  BY <1>1, <1>5 DEF R!After
<1>7. R!Block(b, 1) = SubSeq(b, 2, n + 1)
  BY <1>1, <1>5 DEF R!Block
<1>8. SubSeq(b, 2, n + 1) = [i \in 1..n |-> b[i + 1]]
  BY <1>1, <1>4
<1>9. w = [i \in 1..n |-> w[i]]
  BY <1>1
<1>10. R!Block(b, 1) = w
  <2>1. [i \in 1..n |-> b[i + 1]] = [i \in 1..n |-> w[i]]
    BY <1>4
  <2> QED
    BY <1>7, <1>8, <1>9, <2>1
<1> QED
  BY <1>1, <1>4, <1>6, <1>10

\* A block of a run stands for it.
LEMMA RunBlock ==
  ASSUME NEW n \in 1..MaxRun, NEW v \in R!Bytes, NEW b, b = <<MaxRun + n - 1, v>>
  PROVE  /\ b \in Seq(R!Bytes) /\ Len(b) = 2
         /\ R!After(b, 1) = Len(b) + 1 /\ R!Block(b, 1) = R!Repeat(v, n)
<1>1. MaxRun \in Nat \ {0} /\ n - 1 \in 0..MaxRun - 1 /\ MaxRun + n - 1 \in R!Bytes /\ n \in Nat
  BY RunLengthAssumption DEF R!RunAssumption, R!Bytes
<1>2. b \in Seq(R!Bytes) /\ Len(b) = 2 /\ b[1] = MaxRun + n - 1 /\ b[2] = v
  BY <1>1
<1>3. (MaxRun + (n - 1)) % MaxRun = n - 1 /\ MaxRun + (n - 1) = MaxRun + n - 1
  BY <1>1, SmallRemainder
<1>4. R!CountAt(b, 1) = n /\ b[1] >= MaxRun
  BY <1>1, <1>2, <1>3 DEF R!CountAt
<1> QED
  BY <1>2, <1>4 DEF R!After, R!Block

-----------------------------------------------------------------------------
\* n bytes of a stream stand for m bytes: one more for every full block of
\* literals, and d more.
Grown(m, n, d) == \E q \in Nat : n <= m + q + d /\ q * MaxRun <= m

\* A block of literals, a full one, a run; and what is allowed at the end.
LEMMA GrowthFacts ==
  ASSUME NEW m \in Nat, NEW n \in Nat, NEW k \in Nat
  PROVE  /\ Grown(m, n, 0) /\ k >= 1 => Grown(m + k, n + k + 1, 1)
         /\ Grown(m, n, 0) /\ k = MaxRun => Grown(m + k, n + k + 1, 0)
         /\ Grown(m, n, 1) /\ k >= 3 => Grown(m + k, n + 2, 0)
         /\ Grown(m, n, 0) => Grown(m, n, 1)
<1>1. PICK r \in Nat : r = MaxRun /\ r >= 1
  BY RunLengthAssumption DEF R!RunAssumption
<1>2. ASSUME NEW d \in 0..1, NEW q \in Nat, n <= m + q + d, q * MaxRun <= m
      PROVE  /\ d = 0 /\ k >= 1 => Grown(m + k, n + k + 1, 1)
             /\ d = 0 /\ k = MaxRun => Grown(m + k, n + k + 1, 0)
             /\ k >= 3 => Grown(m + k, n + 2, 0)
             /\ Grown(m, n, 1)
  <2>1. PICK z \in Nat : z = q * MaxRun /\ (q + 1) * MaxRun = z + r /\ z <= m /\ z <= m + k
    BY <1>1, <1>2
  <2>2. ASSUME d = 0, k >= 1 PROVE Grown(m + k, n + k + 1, 1)
    <3>1. n + k + 1 <= (m + k) + q + 1
      BY <1>2, <2>2
    <3> QED
      BY <2>1, <3>1 DEF Grown
  <2>3. ASSUME d = 0, k = MaxRun PROVE Grown(m + k, n + k + 1, 0)
    <3>1. n + k + 1 <= (m + k) + (q + 1) + 0 /\ z + r <= m + k /\ q + 1 \in Nat
      BY <1>1, <1>2, <2>1, <2>3
    <3>2. (q + 1) * MaxRun <= m + k
      BY <2>1, <3>1
    <3> QED
      BY <3>1, <3>2 DEF Grown
  <2>4. ASSUME k >= 3 PROVE Grown(m + k, n + 2, 0)
    <3>1. n + 2 <= (m + k) + q + 0
      BY <1>2, <2>4
    <3> QED
      BY <2>1, <3>1 DEF Grown
  <2>5. Grown(m, n, 1)
    <3>1. n <= m + q + 1
      BY <1>2
    <3> QED
      BY <1>2, <3>1 DEF Grown
  <2> QED
    BY <2>2, <2>3, <2>4, <2>5
<1>3. ASSUME NEW d \in 0..1, Grown(m, n, d)
      PROVE  /\ d = 0 /\ k >= 1 => Grown(m + k, n + k + 1, 1)
             /\ d = 0 /\ k = MaxRun => Grown(m + k, n + k + 1, 0)
             /\ k >= 3 => Grown(m + k, n + 2, 0)
             /\ Grown(m, n, 1)
  <2>1. PICK q \in Nat : n <= m + q + d /\ q * MaxRun <= m
    BY <1>3 DEF Grown
  <2> QED
    BY <1>2, <2>1
<1>4. 0 \in 0..1 /\ 1 \in 0..1
  OBVIOUS
<1> QED
  BY <1>3, <1>4

\* The blocks of a stream mean what is claimed at the end.
LEMMA GrowthAtEnd ==
  ASSUME NEW m \in Nat, NEW n \in Nat, NEW k \in Nat, NEW e \in Nat, Grown(m, n, 0),
         \/ k = 0 /\ e = n
         \/ k >= 1 /\ e = n + k + 1
  PROVE  e <= (m + k) + ((m + k) + MaxRun - 1) \div MaxRun
<1>1. PICK q \in Nat : n <= m + q /\ q * MaxRun <= m
  BY DEF Grown
<1>2. PICK r \in Nat : r = MaxRun /\ r >= 1
  BY RunLengthAssumption DEF R!RunAssumption
<1>3. PICK t \in Nat : t = m + k
  OBVIOUS
<1>4. PICK c \in Int : c = (t + r - 1) \div r
  BY <1>2
<1>5. /\ (t + r - 1) >= c * r /\ (t + r - 1) < c * r + r
  BY <1>2, <1>4
<1>6. PICK x \in Int : x = c * r
  BY <1>2
<1>7. PICK z \in Nat : z = q * r /\ z <= m
  BY <1>1, <1>2
<1>8. c >= q /\ (k >= 1 => c >= q + 1)
  <2>1. (c + 1) * r = x + r /\ (q + 1) * r = z + r
    BY <1>2, <1>6, <1>7
  <2>2. t <= x + r - r /\ t - 1 < x
    BY <1>2, <1>5, <1>6
  <2>3. c >= q
    <3> SUFFICES ASSUME c < q PROVE FALSE
      OBVIOUS
    <3>1. c + 1 <= q
      OBVIOUS
    <3>2. (c + 1) * r <= q * r
      BY <1>2, <3>1
    <3> QED
      BY <1>2, <1>3, <1>6, <1>7, <2>1, <2>2, <3>2
  <2>4. ASSUME k >= 1 PROVE c >= q + 1
    <3> SUFFICES ASSUME c <= q PROVE FALSE
      OBVIOUS
    <3>1. c * r <= q * r
      BY <1>2
    <3> QED
      BY <1>2, <1>3, <1>6, <1>7, <2>2, <2>4, <3>1
  <2> QED
    BY <2>3, <2>4
<1> QED
  BY <1>1, <1>2, <1>3, <1>4, <1>8

\* What has been written and what is pending stand for the input so far.
Stands(p) == R!Meaning(p.out) \o p.lits
Kept(p, d) ==
  R!Meaning(p.out) \in Seq(R!Bytes) /\ Grown(Len(R!Meaning(p.out)), Len(p.out), d)

\* The literals that may be flushed: a full block as well.
Flushable == [lits : {s \in Seq(R!Bytes) : Len(s) <= MaxRun}, out : Seq(R!Bytes)]

\* A pair is flushable.
LEMMA PairsFlush == Pairs \subseteq Flushable
<1>1. MaxRun \in Nat /\ \A s \in Seq(R!Bytes) : Len(s) < MaxRun => Len(s) <= MaxRun
  BY RunLengthAssumption DEF R!RunAssumption
<1> QED
  BY <1>1 DEF Pairs, Flushable

\* One block more is written, d bytes more than it costs.
LEMMA WriteBlock ==
  ASSUME NEW o \in Seq(R!Bytes), NEW b \in Seq(R!Bytes),
         R!Meaning(o) \in Seq(R!Bytes), Len(b) >= 1, R!After(b, 1) = Len(b) + 1
  PROVE  /\ o \o b \in Seq(R!Bytes) /\ Len(o \o b) = Len(o) + Len(b)
         /\ R!Meaning(o \o b) = R!Meaning(o) \o R!Block(b, 1)
         /\ R!Meaning(o \o b) \in Seq(R!Bytes)
         /\ Len(R!Meaning(o \o b)) = Len(R!Meaning(o)) + Len(R!Block(b, 1))
<1>1. PICK x \in Seq(R!Bytes) : x = R!Block(b, 1) /\ R!Meaning(o \o b) = R!Meaning(o) \o x
  BY MeaningOfMore
<1>2. o \o b \in Seq(R!Bytes) /\ Len(o \o b) = Len(o) + Len(b)
  BY ConcatProperties
<1>3. R!Meaning(o) \o x \in Seq(R!Bytes) /\ Len(R!Meaning(o) \o x) = Len(R!Meaning(o)) + Len(x)
  BY ConcatProperties
<1> QED
  BY <1>1, <1>2, <1>3

\* A flush changes nothing of what the pair stands for, and costs a byte.
LEMMA FlushMeans ==
  ASSUME NEW p \in Flushable, Kept(p, 0)
  PROVE  /\ R!Meaning(R!FlushLiterals(p).out) = Stands(p)
         /\ Kept(R!FlushLiterals(p), 1)
         /\ p.lits = <<>> \/ Len(p.lits) = MaxRun => Kept(R!FlushLiterals(p), 0)
         /\ IF p.lits = <<>> THEN Len(R!FlushLiterals(p).out) = Len(p.out)
            ELSE Len(R!FlushLiterals(p).out) = Len(p.out) + Len(p.lits) + 1
<1>1. PICK w \in Seq(R!Bytes), o \in Seq(R!Bytes) : w = p.lits /\ o = p.out /\ Len(w) <= MaxRun
  BY DEF Flushable
<1>2. R!Meaning(o) \in Seq(R!Bytes) /\ Grown(Len(R!Meaning(o)), Len(o), 0)
  BY <1>1 DEF Kept
<1>3. Len(R!Meaning(o)) \in Nat /\ Len(o) \in Nat /\ Len(w) \in Nat
  BY <1>2
<1>4. CASE w = <<>>
  <2>1. R!FlushLiterals(p) = p /\ Stands(p) = R!Meaning(o)
    BY <1>1, <1>2, <1>4, ConcatEmptySeq DEF R!FlushLiterals, Stands
  <2>2. Kept(p, 1)
    <3>1. Grown(Len(R!Meaning(o)), Len(o), 1)
      BY <1>2, <1>3, GrowthFacts
    <3> QED
      BY <1>1, <1>2, <3>1 DEF Kept
  <2> QED
    BY <1>1, <1>4, <2>1, <2>2
<1>5. CASE w # <<>>
  <2>1. Len(w) >= 1
    BY <1>3, <1>5
  <2>2. PICK b : b = <<Len(w) - 1>> \o w
    OBVIOUS
  <2>3. b \in Seq(R!Bytes) /\ Len(b) = Len(w) + 1 /\ R!After(b, 1) = Len(b) + 1 /\ R!Block(b, 1) = w
    BY <1>1, <2>1, <2>2, LiteralBlock
  <2>4. /\ o \o b \in Seq(R!Bytes) /\ Len(o \o b) = Len(o) + Len(b)
        /\ R!Meaning(o \o b) = R!Meaning(o) \o w
        /\ R!Meaning(o \o b) \in Seq(R!Bytes)
        /\ Len(R!Meaning(o \o b)) = Len(R!Meaning(o)) + Len(w)
    <3>1. Len(b) >= 1
      BY <1>3, <2>3
    <3>2. b \in Seq(R!Bytes) /\ o \in Seq(R!Bytes) /\ R!Meaning(o) \in Seq(R!Bytes)
          /\ R!After(b, 1) = Len(b) + 1
      BY <1>1, <1>2, <2>3
    <3>3. /\ o \o b \in Seq(R!Bytes) /\ Len(o \o b) = Len(o) + Len(b)
          /\ R!Meaning(o \o b) = R!Meaning(o) \o R!Block(b, 1)
          /\ R!Meaning(o \o b) \in Seq(R!Bytes)
          /\ Len(R!Meaning(o \o b)) = Len(R!Meaning(o)) + Len(R!Block(b, 1))
      BY ONLY <3>1, <3>2, WriteBlock
    <3> QED
      BY <2>3, <3>3
  <2>5. R!FlushLiterals(p) = [lits |-> <<>>, out |-> o \o b]
    <3>1. R!FlushLiterals(p) = [lits |-> <<>>, out |-> (o \o <<Len(w) - 1>>) \o w]
      BY <1>1, <1>5 DEF R!FlushLiterals
    <3>2. <<Len(w) - 1>> \in Seq(R!Bytes)
      <4>1. Len(w) - 1 \in R!Bytes
        BY <1>1, <1>3, <2>1, RunLengthAssumption DEF R!RunAssumption, R!Bytes
      <4> QED
        BY <4>1
    <3>3. (o \o <<Len(w) - 1>>) \o w = o \o (<<Len(w) - 1>> \o w)
      BY <3>2, BytesAssociate
    <3> QED
      BY <2>2, <3>1, <3>3
  <2>6. R!FlushLiterals(p).out = o \o b
    BY <2>5
  <2>7. PICK n : n = o \o b /\ n = R!FlushLiterals(p).out
    BY <2>6
  <2>8. PICK m \in Nat, k \in Nat, l \in Nat :
          m = Len(R!Meaning(o)) /\ k = Len(w) /\ l = Len(o)
    BY <1>3
  <2>9. Len(R!Meaning(n)) = m + k /\ Len(n) = l + k + 1
    BY <2>3, <2>4, <2>7, <2>8
  <2>10. Grown(m, l, 0) /\ k >= 1
    BY <1>2, <2>1, <2>8
  <2>11. Grown(m + k, l + k + 1, 1) /\ (k = MaxRun => Grown(m + k, l + k + 1, 0))
    BY <2>10, GrowthFacts
  <2>12. R!Meaning(n) \in Seq(R!Bytes) /\ R!Meaning(n) = R!Meaning(o) \o w
    BY <2>4, <2>7
  <2> QED
    BY <1>1, <1>5, <2>7, <2>8, <2>9, <2>11, <2>12 DEF Kept, Stands
<1> QED
  BY <1>4, <1>5

\* A literal more.
LEMMA AddMeans ==
  ASSUME NEW p \in Pairs, NEW v \in R!Bytes, Kept(p, 0)
  PROVE  /\ Stands(R!AddLiteral(p, v)) = Stands(p) \o <<v>>
         /\ Kept(R!AddLiteral(p, v), 0)
<1>1. PICK w \in Seq(R!Bytes), o \in Seq(R!Bytes) :
        w = p.lits /\ o = p.out /\ Len(w) < MaxRun /\ p = [lits |-> w, out |-> o]
  BY DEF Pairs
<1>2. R!Meaning(o) \in Seq(R!Bytes)
  BY <1>1 DEF Kept
<1>3. PICK x \in Seq(R!Bytes) : x = Append(w, v) /\ x = w \o <<v>> /\ Len(x) = Len(w) + 1
  <2>1. Append(w, v) \in Seq(R!Bytes) /\ Len(Append(w, v)) = Len(w) + 1
    BY AppendProperties
  <2>2. Append(w, v) = w \o <<v>>
    BY AppendIsConcat
  <2> QED
    BY <2>1, <2>2
<1>4. PICK q : q = [lits |-> x, out |-> o]
  OBVIOUS
<1>5. [p EXCEPT !.lits = Append(@, v)] = q
  <2>1. [p EXCEPT !.lits = Append(@, v)] = [p EXCEPT !.lits = x]
    BY <1>1, <1>3
  <2>2. [p EXCEPT !.lits = x] = [lits |-> x, out |-> o]
    BY ONLY <1>1
  <2> QED
    BY <1>4, <2>1, <2>2
<1>6. q \in Flushable /\ Kept(q, 0) /\ q.lits = x /\ q.out = o
  <2>1. Len(x) <= MaxRun
    BY <1>1, <1>3, RunLengthAssumption DEF R!RunAssumption
  <2> QED
    BY <1>1, <1>4, <2>1 DEF Flushable, Kept
<1>7. Stands(q) = Stands(p) \o <<v>>
  <2>0. <<v>> \in Seq(R!Bytes)
    OBVIOUS
  <2>1. PICK y \in Seq(R!Bytes) : y = <<v>>
    BY <2>0
  <2>2. (R!Meaning(o) \o w) \o y = R!Meaning(o) \o (w \o y)
    BY <1>2, BytesAssociate
  <2> QED
    BY <1>1, <1>3, <1>6, <2>1, <2>2 DEF Stands
<1>8. R!AddLiteral(p, v) = IF Len(x) = MaxRun THEN R!FlushLiterals(q) ELSE q
  BY <1>5, <1>6 DEF R!AddLiteral
<1>9. CASE Len(x) = MaxRun
  <2>1. PICK f : f = R!FlushLiterals(q)
    OBVIOUS
  <2>2. f.lits = <<>>
    BY <1>6, <2>1, FlushFacts DEF Flushable
  <2>3. R!Meaning(f.out) = Stands(q) /\ Kept(f, 0)
    BY <1>6, <1>9, <2>1, FlushMeans
  <2>4. R!Meaning(f.out) \in Seq(R!Bytes)
    BY <2>3 DEF Kept
  <2>5. Stands(f) = R!Meaning(f.out)
    BY <2>2, <2>4, ConcatEmptySeq DEF Stands
  <2> QED
    BY <1>7, <1>8, <1>9, <2>1, <2>3, <2>5
<1>10. CASE Len(x) # MaxRun
  BY <1>6, <1>7, <1>8, <1>10
<1> QED
  BY <1>9, <1>10

\* A run more, in either form.
LEMMA RunMeans ==
  ASSUME NEW p \in Pairs, NEW v \in R!Bytes, NEW n \in 1..MaxRun, Kept(p, 0)
  PROVE  /\ Stands(R!FlushRun(p, v, n)) = Stands(p) \o R!Repeat(v, n)
         /\ Kept(R!FlushRun(p, v, n), 0)
<1>0. Stands(p) \in Seq(R!Bytes)
  <2>1. R!Meaning(p.out) \in Seq(R!Bytes) /\ p.lits \in Seq(R!Bytes)
    BY DEF Pairs, Kept
  <2> QED
    BY <2>1, ConcatProperties DEF Stands
<1>1. CASE n >= 3
  <2>1. PICK f : f = R!FlushLiterals(p)
    OBVIOUS
  <2>2. f \in Pairs /\ f.lits = <<>> /\ R!Meaning(f.out) = Stands(p) /\ Kept(f, 1)
    BY <2>1, PairsFlush, FlushFacts, FlushMeans DEF Flushable
  <2>3. PICK b : b = <<MaxRun + n - 1, v>>
    OBVIOUS
  <2>4. PICK x : x = R!Repeat(v, n) /\ x \in Seq(R!Bytes) /\ Len(x) = n
    <3>1. n \in Nat
      BY RunLengthAssumption DEF R!RunAssumption
    <3>2. [j \in 1..n |-> v] \in Seq(R!Bytes) /\ Len([j \in 1..n |-> v]) = n
      BY <3>1
    <3> QED
      BY <3>2 DEF R!Repeat
  <2>5. b \in Seq(R!Bytes) /\ Len(b) = 2 /\ R!After(b, 1) = Len(b) + 1 /\ R!Block(b, 1) = x
    BY <2>3, <2>4, RunBlock
  <2>6. PICK o \in Seq(R!Bytes) : o = f.out /\ R!Meaning(o) \in Seq(R!Bytes)
    BY <2>2 DEF Pairs, Kept
  <2>7. /\ o \o b \in Seq(R!Bytes) /\ Len(o \o b) = Len(o) + Len(b)
        /\ R!Meaning(o \o b) = R!Meaning(o) \o x
        /\ R!Meaning(o \o b) \in Seq(R!Bytes)
        /\ Len(R!Meaning(o \o b)) = Len(R!Meaning(o)) + Len(x)
    <3>1. Len(b) >= 1
      BY <2>5
    <3>2. b \in Seq(R!Bytes) /\ o \in Seq(R!Bytes) /\ R!Meaning(o) \in Seq(R!Bytes)
          /\ R!After(b, 1) = Len(b) + 1
      BY <2>5, <2>6
    <3>3. /\ o \o b \in Seq(R!Bytes) /\ Len(o \o b) = Len(o) + Len(b)
          /\ R!Meaning(o \o b) = R!Meaning(o) \o R!Block(b, 1)
          /\ R!Meaning(o \o b) \in Seq(R!Bytes)
          /\ Len(R!Meaning(o \o b)) = Len(R!Meaning(o)) + Len(R!Block(b, 1))
      BY ONLY <3>1, <3>2, WriteBlock
    <3> QED
      BY <2>5, <3>3
  <2>8. PICK g : g = R!FlushRun(p, v, n) /\ g.out = o \o b /\ g.lits = <<>>
    <3>1. R!FlushRun(p, v, n) = [f EXCEPT !.out = @ \o b]
      BY <1>1, <2>1, <2>3 DEF R!FlushRun
    <3>2. f = [lits |-> <<>>, out |-> o]
      BY <2>2, <2>6 DEF Pairs
    <3> QED
      BY <3>1, <3>2
  <2>9. Stands(g) = Stands(p) \o x
    BY <2>2, <2>6, <2>7, <2>8, ConcatEmptySeq DEF Stands
  <2>10. PICK m \in Nat, l \in Nat, k \in Nat :
           m = Len(R!Meaning(o)) /\ l = Len(o) /\ k = n /\ Len(x) = k
    BY <2>4, <2>6
  <2>11. Grown(m, l, 1) /\ k >= 3
    BY <1>1, <2>2, <2>6, <2>10 DEF Kept
  <2>12. Grown(m + k, l + 2, 0)
    BY <2>11, GrowthFacts
  <2>13. Kept(g, 0)
    BY <2>5, <2>7, <2>8, <2>10, <2>12 DEF Kept
  <2> QED
    BY <2>4, <2>8, <2>9, <2>13
<1>2. CASE n = 2
  <2>1. PICK q : q = R!AddLiteral(p, v)
    OBVIOUS
  <2>2. q \in Pairs /\ Stands(q) = Stands(p) \o <<v>> /\ Kept(q, 0)
    BY <2>1, AddFacts, AddMeans
  <2>3. R!FlushRun(p, v, n) = R!AddLiteral(q, v)
    BY <1>2, <2>1 DEF R!FlushRun
  <2>4. Stands(R!AddLiteral(q, v)) = Stands(q) \o <<v>> /\ Kept(R!AddLiteral(q, v), 0)
    BY <2>2, AddMeans
  <2>5. (Stands(p) \o <<v>>) \o <<v>> = Stands(p) \o (<<v>> \o <<v>>)
    <3>1. <<v>> \in Seq(R!Bytes)
      OBVIOUS
    <3> QED
      BY <1>0, <3>1, BytesAssociate
  <2>6. <<v>> \o <<v>> = R!Repeat(v, n)
    BY <1>2 DEF R!Repeat
  <2> QED
    BY <2>2, <2>3, <2>4, <2>5, <2>6
<1>3. CASE n = 1
  <2>1. R!FlushRun(p, v, n) = R!AddLiteral(p, v)
    BY <1>3 DEF R!FlushRun
  <2>2. <<v>> = R!Repeat(v, n)
    BY <1>3 DEF R!Repeat
  <2> QED
    BY <2>1, <2>2, AddMeans
<1> QED
  <2>1. n \in Nat /\ n >= 1
    BY RunLengthAssumption DEF R!RunAssumption
  <2> QED
    BY <1>1, <1>2, <1>3, <2>1

\* One byte more of a sequence, and of a run.
LEMMA OneByteMore ==
  ASSUME NEW s \in Seq(R!Bytes), NEW n \in Nat, n < Len(s)
  PROVE  SubSeq(s, 1, n + 1) = SubSeq(s, 1, n) \o <<s[n + 1]>>
<1>1. /\ 1 \in 1..Len(s) /\ n + 1 \in 1..Len(s) /\ 1 <= n + 1 /\ (n + 1) - 1 = n
  OBVIOUS
<1> QED
  BY <1>1, SubSeqRecursiveSecond

\* One byte more of a run.
LEMMA RunMore ==
  ASSUME NEW v \in R!Bytes, NEW n \in Nat
  PROVE  R!Repeat(v, n) \in Seq(R!Bytes) /\ R!Repeat(v, n + 1) = R!Repeat(v, n) \o <<v>>
<1>1. PICK x, y : x = [j \in 1..n |-> v] /\ y = [j \in 1..n + 1 |-> v]
  OBVIOUS
<1>2. x \in Seq(R!Bytes) /\ Len(x) = n /\ y \in Seq(R!Bytes) /\ Len(y) = n + 1
  BY <1>1
<1>3. x \o <<v>> = y
  <2>1. PICK z \in Seq(R!Bytes) : z = Append(x, v) /\ Len(z) = n + 1 /\ (\A i \in 1..n : z[i] = x[i])
                                  /\ z[n + 1] = v
    BY <1>2, AppendProperties
  <2>2. \A i \in 1..n + 1 : z[i] = y[i]
    <3> TAKE i \in 1..n + 1
    <3>1. i = n + 1 \/ i \in 1..n
      OBVIOUS
    <3> QED
      BY <1>1, <2>1, <3>1
  <2>3. z = y
    BY ONLY <1>2, <2>1, <2>2, SeqEqual
  <2> QED
    BY <1>2, <2>1, <2>3, AppendIsConcat
<1> QED
  BY <1>1, <1>2, <1>3 DEF R!Repeat

-----------------------------------------------------------------------------
\* What is written so far stands for the input so far; in the end the stream
\* means the input.
RleMeans ==
  /\ pc = "encode" =>
       /\ written = TRUE
       /\ Kept(R!Pending, 0)
       /\ Stands(R!Pending) \o R!Repeat(runByte, runLength) = SubSeq(input, 1, at)
  /\ pc # "encode" /\ written => R!Meaning(stream) = input /\ declared = Len(input)
  /\ pc # "encode" /\ written =>
       Len(stream) <= Len(input) + (Len(input) + MaxRun - 1) \div MaxRun

\* The codec starts with nothing written.
LEMMA MeansInit == R!Init => RleMeans
<1> SUFFICES ASSUME R!Init PROVE RleMeans
  OBVIOUS
<1>1. at = 0 /\ runLength = 0 /\ literals = <<>>
  BY DEF R!Init
<1>2. CASE /\ written = TRUE /\ input \in R!UpTo(Values, MaxInput)
           /\ pc = "encode" /\ stream = <<>> /\ declared = 0
  <2>1. R!Pending.out = <<>> /\ R!Pending.lits = <<>>
    BY <1>1, <1>2 DEF R!Pending
  <2>2. R!Meaning(R!Pending.out) = <<>>
    BY <2>1, MeaningOfNothing
  <2>3. <<>> \in Seq(R!Bytes) /\ Len(<<>>) = 0 /\ <<>> \o <<>> = <<>>
    OBVIOUS
  <2>4. Grown(0, 0, 0)
    <3>1. 0 \in Nat /\ 0 <= 0 + 0 + 0 /\ 0 * MaxRun <= 0
      BY RunLengthAssumption DEF R!RunAssumption
    <3> QED
      BY <3>1 DEF Grown
  <2>5. Kept(R!Pending, 0) /\ Stands(R!Pending) = <<>>
    BY <2>1, <2>2, <2>3, <2>4 DEF Kept, Stands
  <2>6. R!Repeat(runByte, runLength) = <<>> /\ SubSeq(input, 1, at) = <<>>
    <3>1. MaxInput \in Nat
      BY RunLengthAssumption DEF R!BoundAssumption
    <3>2. input \in Seq(Values)
      BY <1>2, <3>1, InputFacts
    <3> QED
      BY <1>1, <3>2 DEF R!Repeat
  <2> QED
    BY <1>2, <2>3, <2>5, <2>6 DEF RleMeans
<1>3. CASE written = FALSE /\ pc = "decode"
  BY <1>3 DEF RleMeans
<1> QED
  BY <1>2, <1>3 DEF R!Init

\* A byte of the input: the run goes on, or is written.
LEMMA EncodeByteMeans ==
  ASSUME RleInv, RleMeans, R!EncodeByte
  PROVE  RleMeans'
<1>1. /\ UNCHANGED <<input, written, pc>> /\ pc = "encode" /\ at < Len(input) /\ at' = at + 1
  BY DEF R!EncodeByte
<1>2. /\ input \in Seq(Values) /\ Len(input) \in Nat /\ at \in Nat
      /\ MaxRun \in Nat \ {0} /\ Values \subseteq R!Bytes
      /\ runByte \in R!Bytes /\ runLength \in 0..MaxRun /\ R!Pending \in Pairs
  BY <1>1, RunLengthAssumption, InputFacts
     DEF RleInv, R!TypeOK, R!RunAssumption, R!BoundAssumption, R!Bytes, R!Pending, Pairs
<1>3. input \in Seq(R!Bytes)
  BY <1>2
<1>4. PICK v \in R!Bytes : v = input[at + 1]
  BY <1>1, <1>2, <1>3
<1>5. SubSeq(input, 1, at') = SubSeq(input, 1, at) \o <<v>>
  BY <1>1, <1>2, <1>3, <1>4, OneByteMore
<1>6. Kept(R!Pending, 0) /\ Stands(R!Pending) \o R!Repeat(runByte, runLength) = SubSeq(input, 1, at)
  BY <1>1 DEF RleMeans
<1>7. Stands(R!Pending) \in Seq(R!Bytes) /\ <<v>> \in Seq(R!Bytes)
  <2>1. R!Meaning(R!Pending.out) \in Seq(R!Bytes) /\ R!Pending.lits \in Seq(R!Bytes)
    BY <1>2, <1>6 DEF Kept, Pairs
  <2>2. <<v>> \in Seq(R!Bytes)
    OBVIOUS
  <2> QED
    BY <2>1, <2>2, ConcatProperties DEF Stands
<1>8. CASE runLength = 0 \/ (v = runByte /\ runLength < MaxRun)
  <2>1. runByte' = v /\ runLength' = runLength + 1 /\ UNCHANGED <<literals, stream>>
    BY <1>4, <1>8 DEF R!EncodeByte
  <2>2. R!Pending' = R!Pending
    BY <2>1 DEF R!Pending
  <2>3. R!Repeat(runByte, runLength) = R!Repeat(v, runLength)
    <3>1. CASE runLength = 0
      BY <3>1 DEF R!Repeat
    <3>2. CASE v = runByte
      BY <3>2
    <3> QED
      BY <1>8, <3>1, <3>2
  <2>4. runLength \in Nat
    BY <1>2
  <2>5. PICK x, y, z : x = Stands(R!Pending) /\ y = R!Repeat(v, runLength) /\ z = <<v>>
    OBVIOUS
  <2>6. x \in Seq(R!Bytes) /\ y \in Seq(R!Bytes) /\ z \in Seq(R!Bytes)
        /\ R!Repeat(v, runLength + 1) = y \o z
    BY <1>7, <2>4, <2>5, RunMore
  <2>7. (x \o y) \o z = x \o (y \o z)
    BY ONLY <2>6, BytesAssociate
  <2>8. x \o R!Repeat(v, runLength + 1) = SubSeq(input, 1, at')
    BY ONLY <1>5, <1>6, <2>3, <2>5, <2>6, <2>7
  <2>9. (Kept(R!Pending, 0))' /\ Stands(R!Pending)' = x
    BY <1>6, <2>2, <2>5 DEF Kept, Stands
  <2>10. (Stands(R!Pending) \o R!Repeat(runByte, runLength))' = x \o R!Repeat(v, runLength + 1)
    BY <2>1, <2>9 DEF R!Repeat
  <2>11. SubSeq(input, 1, at)' = SubSeq(input, 1, at')
    BY <1>1
  <2>12. pc' = "encode" /\ written' = TRUE
    BY <1>1 DEF RleMeans
  <2> QED
    BY <2>8, <2>9, <2>10, <2>11, <2>12 DEF RleMeans
<1>9. CASE ~(runLength = 0 \/ (v = runByte /\ runLength < MaxRun))
  <2>1. PICK p : p = R!FlushRun(R!Pending, runByte, runLength)
    OBVIOUS
  <2>2. literals' = p.lits /\ stream' = p.out /\ runByte' = v /\ runLength' = 1
    BY <1>4, <1>9, <2>1 DEF R!EncodeByte
  <2>3. runLength \in 1..MaxRun
    BY <1>2, <1>9
  <2>4. p \in Pairs /\ Stands(p) = SubSeq(input, 1, at) /\ Kept(p, 0)
    BY <1>2, <1>6, <2>1, <2>3, RunFacts, RunMeans
  <2>5. R!Pending' = p
    <3>1. p = [lits |-> p.lits, out |-> p.out]
      BY <2>4 DEF Pairs
    <3> QED
      BY <2>2, <3>1 DEF R!Pending
  <2>6. R!Repeat(v, 1) = <<v>>
    BY DEF R!Repeat
  <2>7. (Kept(R!Pending, 0))' /\ Stands(R!Pending)' = SubSeq(input, 1, at)
    BY <2>4, <2>5 DEF Kept, Stands
  <2>8. (Stands(R!Pending) \o R!Repeat(runByte, runLength))' = SubSeq(input, 1, at) \o <<v>>
    BY <2>2, <2>6, <2>7 DEF R!Repeat
  <2>9. SubSeq(input, 1, at)' = SubSeq(input, 1, at')
    BY <1>1
  <2>10. pc' = "encode" /\ written' = TRUE
    BY <1>1 DEF RleMeans
  <2> QED
    BY <1>5, <2>7, <2>8, <2>9, <2>10 DEF RleMeans
<1> QED
  BY <1>8, <1>9

\* The end of the input: all is written.
LEMMA EncodeEndMeans ==
  ASSUME RleInv, RleMeans, R!EncodeEnd
  PROVE  RleMeans'
<1>1. /\ UNCHANGED <<input, written>> /\ pc = "encode" /\ at = Len(input)
      /\ pc' = "decode" /\ declared' = Len(input)
  BY DEF R!EncodeEnd
<1>2. /\ input \in Seq(Values) /\ Len(input) \in Nat /\ at \in Nat
      /\ MaxRun \in Nat \ {0} /\ Values \subseteq R!Bytes
      /\ runByte \in R!Bytes /\ runLength \in 0..MaxRun /\ R!Pending \in Pairs
  BY <1>1, RunLengthAssumption, InputFacts
     DEF RleInv, R!TypeOK, R!RunAssumption, R!BoundAssumption, R!Bytes, R!Pending, Pairs
<1>3. SubSeq(input, 1, at) = input
  BY <1>1, <1>2
<1>4. Kept(R!Pending, 0) /\ Stands(R!Pending) \o R!Repeat(runByte, runLength) = input
  BY <1>1, <1>3 DEF RleMeans
<1>5. PICK p : p = IF runLength > 0 THEN R!FlushRun(R!Pending, runByte, runLength) ELSE R!Pending
  OBVIOUS
<1>6. p \in Pairs /\ Stands(p) = input /\ Kept(p, 0)
  <2>1. CASE runLength > 0
    <3>1. runLength \in 1..MaxRun
      BY <1>2, <2>1
    <3> QED
      BY <1>2, <1>4, <1>5, <2>1, <3>1, RunFacts, RunMeans
  <2>2. CASE ~(runLength > 0)
    <3>1. runLength = 0
      BY <1>2, <2>2
    <3>2. R!Repeat(runByte, runLength) = <<>>
      BY <3>1 DEF R!Repeat
    <3>3. R!Meaning(R!Pending.out) \in Seq(R!Bytes) /\ R!Pending.lits \in Seq(R!Bytes)
      BY <1>2, <1>4 DEF Kept, Pairs
    <3>4. Stands(R!Pending) \in Seq(R!Bytes)
      BY <3>3, ConcatProperties DEF Stands
    <3>5. Stands(R!Pending) = input
      BY <1>4, <3>2, <3>4, ConcatEmptySeq
    <3> QED
      BY <1>2, <1>4, <1>5, <2>2, <3>5
  <2> QED
    BY <2>1, <2>2
<1>7. PICK q : q = R!FlushLiterals(p)
  OBVIOUS
<1>8. stream' = q.out
  BY <1>5, <1>7 DEF R!EncodeEnd
<1>9. /\ R!Meaning(q.out) = input
      /\ IF p.lits = <<>> THEN Len(q.out) = Len(p.out) ELSE Len(q.out) = Len(p.out) + Len(p.lits) + 1
  BY <1>6, <1>7, PairsFlush, FlushMeans
<1>10. PICK m \in Nat, n \in Nat, k \in Nat :
         /\ m = Len(R!Meaning(p.out)) /\ n = Len(p.out) /\ k = Len(p.lits)
         /\ Grown(m, n, 0) /\ Len(input) = m + k /\ (k = 0) = (p.lits = <<>>)
  <2>1. /\ R!Meaning(p.out) \in Seq(R!Bytes) /\ p.lits \in Seq(R!Bytes) /\ p.out \in Seq(R!Bytes)
        /\ Grown(Len(R!Meaning(p.out)), Len(p.out), 0)
    BY <1>6 DEF Pairs, Kept
  <2>2. Len(R!Meaning(p.out) \o p.lits) = Len(R!Meaning(p.out)) + Len(p.lits)
    BY <2>1, ConcatProperties
  <2>3. (Len(p.lits) = 0) = (p.lits = <<>>)
    BY <2>1, EmptySeq
  <2>4. Len(input) = Len(R!Meaning(p.out)) + Len(p.lits)
    BY <1>6, <2>2 DEF Stands
  <2>5. PICK m, n, k : m = Len(R!Meaning(p.out)) /\ n = Len(p.out) /\ k = Len(p.lits)
    OBVIOUS
  <2>6. m \in Nat /\ n \in Nat /\ k \in Nat
    BY <2>1, <2>5
  <2> QED
    BY <2>1, <2>3, <2>4, <2>5, <2>6
<1>11. PICK e \in Nat : e = Len(q.out) /\ ((k = 0 /\ e = n) \/ (k >= 1 /\ e = n + k + 1))
  <2>1. CASE p.lits = <<>>
    <3>1. k = 0 /\ Len(q.out) = n
      BY <1>9, <1>10, <2>1
    <3> QED
      BY <3>1
  <2>2. CASE p.lits # <<>>
    <3>1. k # 0 /\ Len(q.out) = n + k + 1
      BY <1>9, <1>10, <2>2
    <3>2. k >= 1 /\ n + k + 1 \in Nat
      BY <3>1
    <3> QED
      BY <3>1, <3>2
  <2> QED
    BY <2>1, <2>2
<1>12. e <= (m + k) + ((m + k) + MaxRun - 1) \div MaxRun
  BY <1>10, <1>11, GrowthAtEnd
<1>13. R!Meaning(stream)' = R!Meaning(q.out)
  BY <1>8 DEF R!Meaning
<1> QED
  BY <1>1, <1>8, <1>9, <1>10, <1>11, <1>12, <1>13 DEF RleMeans

\* Decoding changes nothing of the stream.
LEMMA MeansStep == RleInv /\ RleMeans /\ R!Next => RleMeans'
<1> SUFFICES ASSUME RleInv, RleMeans, R!Next PROVE RleMeans'
  OBVIOUS
<1>1. CASE R!Decode \/ R!DecodeError
  <2>1. pc # "encode" /\ pc' # "encode" /\ UNCHANGED <<input, written, stream, declared>>
    BY <1>1 DEF R!Decode, R!DecodeRun, R!DecodeLiterals, R!DecodeEnd, R!DecodeError
  <2>2. R!Meaning(stream)' = R!Meaning(stream)
    BY <2>1 DEF R!Meaning
  <2> QED
    BY <2>1, <2>2 DEF RleMeans
<1> QED
  BY <1>1, EncodeByteMeans, EncodeEndMeans DEF R!Next

\* Nor does standing still break it.
LEMMA MeansStill == RleMeans /\ UNCHANGED R!vars => RleMeans'
<1> SUFFICES ASSUME RleMeans, UNCHANGED R!vars PROVE RleMeans'
  OBVIOUS
<1>1. UNCHANGED <<input, written, pc, at, runByte, runLength, literals, stream, declared>>
  BY DEF R!vars
<1>2. R!Meaning(stream)' = R!Meaning(stream) /\ R!Pending' = R!Pending
      /\ R!Repeat(runByte, runLength)' = R!Repeat(runByte, runLength)
  BY <1>1 DEF R!Meaning, R!Pending, R!Repeat
<1>3. Stands(R!Pending)' = Stands(R!Pending) /\ (Kept(R!Pending, 0))' = Kept(R!Pending, 0)
  BY <1>1, <1>2 DEF Stands, Kept, R!Meaning
<1> QED
  BY <1>1, <1>2, <1>3 DEF RleMeans

\* What the stream means decides what the decoder does.
LEMMA RleReturns == RleInv /\ RleMeans => R!RoundTrip /\ R!GrowthIsBounded
<1> SUFFICES ASSUME RleInv, RleMeans PROVE R!RoundTrip /\ R!GrowthIsBounded
  OBVIOUS
<1>1. ASSUME written, pc = "failed" PROVE FALSE
  <2>1. R!Meaning(stream) = input /\ declared = Len(input)
    BY <1>1 DEF RleMeans
  <2>2. MaxInput \in Nat /\ input \in R!UpTo(Values, MaxInput)
        /\ Values \subseteq R!Bytes /\ Unreadable \notin Seq(R!Bytes)
    BY RunLengthAssumption DEF RleInv, R!TypeOK, R!RunAssumption, R!BoundAssumption, R!Bytes
  <2>3. input \in Seq(Values)
    BY <2>2, InputFacts
  <2>4. input \in Seq(R!Bytes)
    BY <2>2, <2>3
  <2> QED
    BY <1>1, <2>1, <2>2, <2>4 DEF RleInv, R!AcceptsExactlyTheValid
<1>2. ASSUME written, pc = "done" PROVE output = input
  BY <1>2 DEF RleInv, RleMeans, R!AcceptsExactlyTheValid
<1> QED
  BY <1>1, <1>2 DEF RleMeans, R!RoundTrip, R!GrowthIsBounded

-----------------------------------------------------------------------------
(* Huffman.                                                                *)

\* A remainder is unique.
LEMMA Remainder ==
  ASSUME NEW b \in Nat \ {0}, NEW q \in Int, NEW r \in 0..b - 1
  PROVE  (b * q + r) % b = r
<1> DEFINE x == b * q + r
<1>1. x \in Int
  OBVIOUS
<1>2. PICK p \in Int, t \in 0..b - 1 : x = b * p + t /\ t = x % b
  BY <1>1
<1>3. b * (q - p) = t - r
  BY <1>2
<1>4. CASE q - p >= 1
  <2>1. b * (q - p) >= b
    BY <1>4
  <2> QED
    BY <1>3, <2>1
<1>5. CASE p - q >= 1
  <2>1. b * (p - q) >= b
    BY <1>5
  <2>2. b * (p - q) = r - t
    BY <1>3
  <2> QED
    BY <2>1, <2>2
<1>6. CASE p = q
  BY <1>2, <1>3, <1>6
<1> QED
  BY <1>4, <1>5, <1>6

\* Padding fills the last byte, and less than a byte of it can be padding.
LEMMA PaddingFacts ==
  ASSUME NEW b \in Nat \ {0}, NEW n \in Nat
  PROVE  /\ (-n) % b \in 0..b - 1
         /\ (n + ((-n) % b)) % b = 0
         /\ \A r \in 0..b - 1 : (n + r) % b = 0 => (-n) % b = r
<1>0. PICK x \in Int : x = -n
  OBVIOUS
<1>1. PICK p \in Int, t \in 0..b - 1 : x = b * p + t /\ t = x % b
  OBVIOUS
<1>2. n + t = b * (-p) + 0 /\ -p \in Int /\ 0 \in 0..b - 1
  <2>1. b * (-p) = -(b * p)
    OBVIOUS
  <2> QED
    BY <1>0, <1>1, <2>1
<1>3. (n + t) % b = 0
  BY ONLY <1>2, Remainder, b \in Nat \ {0}
<1>4. ASSUME NEW r \in 0..b - 1, (n + r) % b = 0 PROVE (-n) % b = r
  <2>1. PICK q \in Int : n + r = b * q
    BY <1>4
  <2>2. -n = b * (-q) + r /\ -q \in Int
    <3>1. b * (-q) = -(b * q)
      OBVIOUS
    <3> QED
      BY <2>1, <3>1
  <2> QED
    BY ONLY <1>4, <2>2, Remainder, b \in Nat \ {0}
<1> QED
  BY <1>0, <1>1, <1>3, <1>4

\* FlattenSeq, one sequence more.
IsFlat(seqs, f) == f = [i \in 1..Len(seqs) |-> IF i = 1 THEN seqs[i] ELSE f[i - 1] \o seqs[i]]

FlatTo(S, seqs, n) ==
  \E f \in [1..n -> Seq(S)] :
    \A i \in 1..n : f[i] = IF i = 1 THEN seqs[i] ELSE f[i - 1] \o seqs[i]

\* The recursion of FlattenSeq has a solution.
LEMMA FlatExists ==
  ASSUME NEW S, NEW seqs \in Seq(Seq(S)), NEW n \in 0..Len(seqs)
  PROVE  FlatTo(S, seqs, n)
<1> DEFINE Good(m) == \E f \in [1..m -> Seq(S)] :
                        \A i \in 1..m : f[i] = IF i = 1 THEN seqs[i] ELSE f[i - 1] \o seqs[i]
           Bad == {m \in 0..Len(seqs) : ~Good(m)}
<1>1. Len(seqs) \in Nat /\ Bad \in SUBSET Nat
  OBVIOUS
<1>2. SUFFICES Bad = {}
  <2>1. Good(n)
    BY <1>2
  <2> QED
    BY <2>1 DEF FlatTo
<1>3. SUFFICES ASSUME Bad # {} PROVE FALSE
  OBVIOUS
<1>4. PICK m \in Bad : \A h \in Bad : m <= h
  <2> HIDE DEF Bad
  <2> QED
    BY <1>1, <1>3, LeastNatural
<1>5. CASE m = 0
  <2> DEFINE f == [i \in 1..0 |-> <<>>]
  <2>1. f \in [1..0 -> Seq(S)] /\ \A i \in 1..0 : FALSE
    OBVIOUS
  <2>2. Good(0)
    BY <2>1
  <2> QED
    BY <1>5, <2>2
<1>6. CASE m # 0
  <2>1. m \in Nat /\ m - 1 \in 0..Len(seqs) /\ m \in 1..Len(seqs) /\ ~(m <= m - 1)
    BY <1>1, <1>6
  <2>2. Good(m - 1)
    BY <1>4, <2>1
  <2>3. PICK f \in [1..m - 1 -> Seq(S)] :
             \A i \in 1..m - 1 : f[i] = IF i = 1 THEN seqs[i] ELSE f[i - 1] \o seqs[i]
    BY <2>2
  <2> DEFINE next == IF m = 1 THEN seqs[m] ELSE f[m - 1] \o seqs[m]
             more == [i \in 1..m |-> IF i = m THEN next ELSE f[i]]
  <2>4. next \in Seq(S)
    <3>1. seqs[m] \in Seq(S)
      BY <2>1
    <3>2. m # 1 => f[m - 1] \in Seq(S)
      BY <2>1, <2>3
    <3> QED
      BY <3>1, <3>2, ConcatProperties
  <2>5. more \in [1..m -> Seq(S)]
    <3>1. \A i \in 1..m : i # m => f[i] \in Seq(S)
      BY <2>1
    <3> HIDE DEF next
    <3> QED
      BY <2>4, <3>1
  <2>6. ASSUME NEW i \in 1..m PROVE more[i] = IF i = 1 THEN seqs[i] ELSE more[i - 1] \o seqs[i]
    <3>1. m \in 1..m /\ more[m] = next /\ (\A j \in 1..m : j # m => more[j] = f[j])
      BY <2>1
    <3> HIDE DEF more
    <3>2. CASE i = m
      <4>1. m # 1 => m - 1 \in 1..m /\ m - 1 # m
        BY <2>1
      <4> QED
        BY <3>1, <3>2, <4>1
    <3>3. CASE i # m
      <4>1. i \in 1..m - 1 /\ (i # 1 => i - 1 \in 1..m /\ i - 1 # m)
        BY <2>1, <3>3
      <4> QED
        BY <2>3, <3>1, <3>3, <4>1
    <3> QED
      BY <3>2, <3>3
  <2>7. Good(m)
    <3> HIDE DEF more
    <3> QED
      BY <2>5, <2>6
  <2> QED
    BY <2>7
<1> QED
  BY <1>5, <1>6

\* What FlattenSeq computes.
LEMMA FlatFacts ==
  ASSUME NEW S, NEW seqs \in Seq(Seq(S)), seqs # <<>>
  PROVE  \E f \in [1..Len(seqs) -> Seq(S)] :
           /\ H!FlattenSeq(seqs) = f[Len(seqs)]
           /\ \A i \in 1..Len(seqs) : f[i] = IF i = 1 THEN seqs[i] ELSE f[i - 1] \o seqs[i]
<1>1. Len(seqs) \in Nat /\ Len(seqs) # 0 /\ Len(seqs) \in 0..Len(seqs) /\ Len(seqs) \in 1..Len(seqs)
  OBVIOUS
<1>2. PICK f \in [1..Len(seqs) -> Seq(S)] :
           \A i \in 1..Len(seqs) : f[i] = IF i = 1 THEN seqs[i] ELSE f[i - 1] \o seqs[i]
  <2>1. FlatTo(S, seqs, Len(seqs))
    BY <1>1, FlatExists
  <2> QED
    BY <2>1 DEF FlatTo
<1> DEFINE c == CHOOSE g : IsFlat(seqs, g)
<1>3. IsFlat(seqs, f)
  BY <1>2 DEF IsFlat
<1>4. IsFlat(seqs, c)
  BY <1>3
<1>5. H!FlattenSeq(seqs) = c[Len(seqs)]
  BY <1>1 DEF H!FlattenSeq, IsFlat
<1> HIDE DEF c
<1>6. ASSUME NEW i \in 1..Len(seqs) PROVE c[i] = IF i = 1 THEN seqs[i] ELSE c[i - 1] \o seqs[i]
  BY ONLY <1>4, <1>6, Zenon DEF IsFlat
<1> DEFINE Bad == {i \in 1..Len(seqs) : c[i] # f[i]}
<1>7. Bad = {}
  <2>1. SUFFICES ASSUME Bad # {} PROVE FALSE
    OBVIOUS
  <2>2. Bad \in SUBSET Nat
    OBVIOUS
  <2>3. PICK m \in Bad : \A h \in Bad : m <= h
    <3> HIDE DEF Bad
    <3> QED
      BY <2>1, <2>2, LeastNatural
  <2>4. m \in 1..Len(seqs) /\ c[m] # f[m]
    OBVIOUS
  <2>5. m # 1 => m - 1 \in 1..Len(seqs) /\ m - 1 \notin Bad
    BY <2>2, <2>3
  <2>6. m # 1 => c[m - 1] = f[m - 1]
    BY <2>5
  <2> QED
    BY <1>2, <1>6, <2>4, <2>6
<1>8. c[Len(seqs)] = f[Len(seqs)]
  BY <1>1, <1>7
<1> QED
  BY <1>2, <1>5, <1>8

\* One sequence more is appended to the flattened ones.
LEMMA FlattenMore ==
  ASSUME NEW S, NEW seqs \in Seq(Seq(S)), NEW s \in Seq(S)
  PROVE  /\ H!FlattenSeq(seqs) \in Seq(S)
         /\ H!FlattenSeq(Append(seqs, s)) = H!FlattenSeq(seqs) \o s
<1>1. PICK n \in Nat : n = Len(seqs)
  OBVIOUS
<1>2. PICK more : more = Append(seqs, s)
  OBVIOUS
<1>3. /\ more \in Seq(Seq(S)) /\ Len(more) = n + 1 /\ more # <<>> /\ more[n + 1] = s
      /\ \A i \in 1..n : more[i] = seqs[i]
  BY ONLY <1>1, <1>2, AppendProperties, seqs \in Seq(Seq(S)), s \in Seq(S)
<1>4. PICK g \in [1..n + 1 -> Seq(S)] :
        /\ H!FlattenSeq(more) = g[n + 1]
        /\ \A i \in 1..n + 1 : g[i] = IF i = 1 THEN more[i] ELSE g[i - 1] \o more[i]
  <2>1. \E g \in [1..Len(more) -> Seq(S)] :
           /\ H!FlattenSeq(more) = g[Len(more)]
           /\ \A i \in 1..Len(more) : g[i] = IF i = 1 THEN more[i] ELSE g[i - 1] \o more[i]
    <3>1. more \in Seq(Seq(S)) /\ more # <<>>
      BY <1>3
    <3> QED
      BY ONLY <3>1, FlatFacts, Zenon
  <2> QED
    BY <1>3, <2>1
<1>5. CASE seqs = <<>>
  <2>1. n = 0
    BY <1>1, <1>5
  <2>2. H!FlattenSeq(seqs) = <<>>
    BY <1>1, <1>5, <2>1 DEF H!FlattenSeq
  <2>3. H!FlattenSeq(more) = s
    BY <1>3, <1>4, <2>1
  <2>4. <<>> \in Seq(S) /\ <<>> \o s = s
    BY ConcatEmptySeq
  <2> QED
    BY <1>2, <2>2, <2>3, <2>4
<1>6. CASE seqs # <<>>
  <2>1. PICK f \in [1..n -> Seq(S)] :
          /\ H!FlattenSeq(seqs) = f[n]
          /\ \A i \in 1..n : f[i] = IF i = 1 THEN seqs[i] ELSE f[i - 1] \o seqs[i]
    <3>1. \E f \in [1..Len(seqs) -> Seq(S)] :
             /\ H!FlattenSeq(seqs) = f[Len(seqs)]
             /\ \A i \in 1..Len(seqs) : f[i] = IF i = 1 THEN seqs[i] ELSE f[i - 1] \o seqs[i]
      BY ONLY seqs \in Seq(Seq(S)), <1>6, FlatFacts, Zenon
    <3> QED
      BY ONLY <1>1, <3>1, Zenon
  <2>2. n # 0 /\ n \in 1..n /\ n + 1 \in 1..n + 1 /\ n + 1 # 1 /\ n + 1 - 1 = n
    BY <1>1, <1>6
  <2> DEFINE Bad == {i \in 1..n : g[i] # f[i]}
  <2>3. Bad = {}
    <3>1. SUFFICES ASSUME Bad # {} PROVE FALSE
      OBVIOUS
    <3>2. Bad \in SUBSET Nat
      OBVIOUS
    <3>3. PICK m \in Bad : \A h \in Bad : m <= h
      <4> HIDE DEF Bad
      <4> QED
        BY <3>1, <3>2, LeastNatural
    <3>4. m \in 1..n /\ g[m] # f[m] /\ m \in 1..n + 1
      OBVIOUS
    <3>5. m # 1 => m - 1 \in 1..n /\ m - 1 \notin Bad
      BY <3>2, <3>3
    <3>6. m # 1 => g[m - 1] = f[m - 1]
      BY <3>5
    <3>7. more[m] = seqs[m]
      BY <1>3, <3>4
    <3>8. g[m] = IF m = 1 THEN more[m] ELSE g[m - 1] \o more[m]
      BY <1>4, <3>4
    <3>9. f[m] = IF m = 1 THEN seqs[m] ELSE f[m - 1] \o seqs[m]
      BY <2>1, <3>4
    <3> HIDE DEF Bad
    <3> QED
      BY <3>4, <3>6, <3>7, <3>8, <3>9
  <2>4. g[n] = f[n] /\ f[n] \in Seq(S)
    BY <2>1, <2>2, <2>3
  <2>5. g[n + 1] = g[n] \o s
    <3>1. PICK k \in 1..n + 1 : k = n + 1 /\ k # 1 /\ k - 1 = n
      BY <2>2
    <3>2. g[k] = IF k = 1 THEN more[k] ELSE g[k - 1] \o more[k]
      BY <1>4
    <3>3. more[k] = s
      BY <1>3, <3>1
    <3> QED
      BY ONLY <3>1, <3>2, <3>3
  <2> QED
    BY <1>2, <1>4, <2>1, <2>4, <2>5
<1> QED
  BY <1>5, <1>6

\* Two codes that differ where both have a bit are no prefixes of one another.
LEMMA DifferentCodes ==
  ASSUME NEW S, NEW s \in Seq(S), NEW t \in Seq(S), NEW i \in 1..Len(s), i \in 1..Len(t), s[i] # t[i]
  PROVE  ~H!IsPrefix(s, t) /\ ~H!IsPrefix(t, s)
<1>1. \A u, v \in Seq(S) : i \in 1..Len(u) /\ i \in 1..Len(v) /\ H!IsPrefix(u, v) => u[i] = v[i]
  <2> SUFFICES ASSUME NEW u \in Seq(S), NEW v \in Seq(S), i \in 1..Len(u), i \in 1..Len(v), H!IsPrefix(u, v)
               PROVE  u[i] = v[i]
    OBVIOUS
  <2>1. Len(u) <= Len(v) /\ SubSeq(u, 1, Len(u)) = SubSeq(v, 1, Len(u))
    BY DEF H!IsPrefix
  <2>2. PICK n \in Nat : n = Len(u)
    OBVIOUS
  <2>3. /\ \A j \in 1..n : u[j] \in S /\ v[j] \in S
        /\ 1 \in Int /\ n \in Int /\ i \in 1..n - 1 + 1 /\ 1 + i - 1 = i
    BY <2>1, <2>2
  <2>4. SubSeq(u, 1, n)[i] = u[1 + i - 1] /\ SubSeq(v, 1, n)[i] = v[1 + i - 1]
    BY <2>3, SubSeqProperties
  <2> QED
    BY <2>1, <2>2, <2>3, <2>4
<1> QED
  BY <1>1

\* A tree of the queue has a depth for each of its symbols.
IsTree(t) == DOMAIN t.depth \in (SUBSET Symbols) \ {{}} /\ t.depth \in [DOMAIN t.depth -> Nat]

\* One code is below another: they differ first where it has a 0.
Below(c, d) ==
  \E i \in 1..Len(c) : /\ i <= Len(d) /\ c[i] = 0 /\ d[i] = 1
                      /\ \A j \in 1..i - 1 : c[j] = d[j]

\* Codes are given in the order of their lengths, each above those before it.
CodesOK ==
  /\ current \in Seq({0, 1})
  /\ current = <<>> => \A s \in Symbols : codes[s] = <<>>
  /\ \A s \in Symbols : lengths[s] > 0 /\ codes[s] = <<>> => Len(current) <= lengths[s]
  /\ \A s \in Symbols : codes[s] # <<>> => codes[s] = current \/ Below(codes[s], current)
  /\ H!PrefixFree

\* What has been read are the codes of the output, and a part of one more.
WholeBytes == Len(stream) % ByteBits = 0
ReadOK ==
  /\ WholeBytes /\ Len(output) <= declared /\ (Len(output) = declared => prefix = <<>>)
  /\ prefix \in Seq({0, 1})
  /\ SubSeq(stream, 1, read) = H!FlattenSeq([i \in DOMAIN output |-> codes[output[i]]]) \o prefix

HuffmanInv ==
  /\ H!TypeOK /\ input \in Seq(Symbols) /\ (\A t \in queue : IsTree(t))
  /\ CodesOK
  /\ pc = "merge" => current = <<>> /\ ~decoding
  /\ pc \in {"merge", "codes", "write"} => read = 0 /\ prefix = <<>> /\ output = <<>>
  /\ pc = "codes" /\ decoding => WholeBytes
  /\ pc \in {"read", "done"} => ReadOK
  /\ H!AcceptedIsCanonical

\* The canonical order has a first element.
LEMMA FirstFacts ==
  ASSUME lengths \in [Symbols -> Nat], H!Pending # {}
  PROVE  /\ H!First \in H!Pending /\ H!First \in Symbols
         /\ \A x \in H!Pending : lengths[H!First] <= lengths[x]
<1> DEFINE Ls == {lengths[s] : s \in H!Pending}
<1>1. H!Pending \subseteq Symbols /\ Symbols \subseteq Nat
  BY HuffmanAssumption DEF H!Pending, H!SymbolsAssumption
<1>2. PICK m \in Ls : \A h \in Ls : m <= h
  <2>1. Ls \in SUBSET Nat /\ Ls # {}
    BY <1>1
  <2> HIDE DEF Ls
  <2> QED
    BY <2>1, LeastNatural
<1> DEFINE Ss == {s \in H!Pending : lengths[s] = m}
<1>3. PICK s \in Ss : \A h \in Ss : s <= h
  <2>1. Ss \in SUBSET Nat /\ Ss # {}
    BY <1>1
  <2> HIDE DEF Ss
  <2> QED
    BY <2>1, LeastNatural
<1>4. s \in H!Pending /\ lengths[s] = m
  OBVIOUS
<1>5. \A x \in H!Pending \ {s} :
        lengths[s] < lengths[x] \/ (lengths[s] = lengths[x] /\ s < x)
  <2> SUFFICES ASSUME NEW x \in H!Pending, x # s
               PROVE  lengths[s] < lengths[x] \/ (lengths[s] = lengths[x] /\ s < x)
    OBVIOUS
  <2>1. lengths[x] \in Nat /\ m \in Nat /\ x \in Nat /\ s \in Nat /\ m <= lengths[x]
    BY <1>1, <1>2, <1>4
  <2>2. lengths[x] = m => s <= x
    BY <1>3
  <2> QED
    BY <1>4, <2>1, <2>2
<1>6. /\ H!First \in H!Pending
      /\ \A x \in H!Pending \ {H!First} :
           lengths[H!First] < lengths[x] \/ (lengths[H!First] = lengths[x] /\ H!First < x)
  <2> HIDE DEF Ss, Ls
  <2> QED
    BY <1>4, <1>5 DEF H!First
<1>7. ASSUME NEW x \in H!Pending PROVE lengths[H!First] <= lengths[x]
  <2>1. lengths[x] \in Nat /\ lengths[H!First] \in Nat
    BY <1>1, <1>6
  <2> QED
    BY <1>6, <2>1
<1> QED
  BY <1>1, <1>6, <1>7

\* The successor of a code is above it, with everything below it.
LEMMA SuccessorFacts ==
  ASSUME NEW c \in Seq({0, 1}), ~H!AllOnes(c)
  PROVE  /\ H!Successor(c) \in Seq({0, 1}) /\ Len(H!Successor(c)) = Len(c)
         /\ Below(c, H!Successor(c))
         /\ \A d \in Seq({0, 1}) : Below(d, c) => Below(d, H!Successor(c))
<1> DEFINE Z == {0} \cup {i \in DOMAIN c : c[i] = 0}
           p == H!Max(Z)
           n == Len(c)
           u == H!Successor(c)
<1>1. n \in Nat /\ DOMAIN c = 1..n /\ \A i \in 1..n : c[i] \in {0, 1}
  OBVIOUS
<1>2. PICK k \in 1..n : c[k] = 0
  BY <1>1 DEF H!AllOnes
<1>3. p \in Z /\ \A x \in Z : p >= x
  <2>1. Z \in SUBSET (0..n) /\ Z # {}
    BY <1>1
  <2> HIDE DEF Z
  <2> QED
    BY <1>1, <2>1, MaximumFacts
<1>4. k \in Z
  BY <1>1, <1>2
<1>5. p \in 1..n /\ c[p] = 0
  <2>1. p >= k
    BY <1>3, <1>4
  <2> HIDE DEF p
  <2>2. p # 0
    BY <1>1, <2>1
  <2> QED
    BY <1>1, <1>3, <2>2
<1>6. u = [i \in 1..n |-> IF i < p THEN c[i] ELSE IF i = p THEN 1 ELSE 0]
  BY <1>1 DEF H!Successor
<1> HIDE DEF p, u
<1>7. u \in [1..n -> {0, 1}]
  BY <1>1, <1>6
<1>8. u \in Seq({0, 1}) /\ Len(u) = n
  BY <1>1, <1>7
<1>9. u[p] = 1 /\ \A i \in 1..n : i < p => u[i] = c[i]
  BY <1>1, <1>5, <1>6
<1>10. Below(c, u)
  <2>1. \A j \in 1..p - 1 : c[j] = u[j]
    BY <1>1, <1>5, <1>9
  <2> QED
    BY <1>1, <1>5, <1>8, <1>9, <2>1 DEF Below
<1>11. ASSUME NEW d \in Seq({0, 1}), Below(d, c) PROVE Below(d, u)
  <2>1. PICK i \in 1..Len(d) : i <= n /\ d[i] = 0 /\ c[i] = 1 /\ \A j \in 1..i - 1 : d[j] = c[j]
    BY <1>11 DEF Below
  <2>2. i \in 1..n /\ i # p /\ i \in Nat /\ Len(d) \in Nat
    BY <1>1, <1>5, <2>1
  <2>3. CASE i < p
    <3>1. u[i] = 1 /\ \A j \in 1..i - 1 : d[j] = u[j]
      BY <1>1, <1>5, <1>9, <2>1, <2>2, <2>3
    <3> QED
      BY <1>8, <2>1, <3>1 DEF Below
  <2>4. CASE p < i
    <3>1. p \in 1..i - 1 /\ p \in 1..Len(d)
      BY <1>5, <2>2, <2>4
    <3>2. d[p] = 0 /\ \A j \in 1..p - 1 : d[j] = u[j]
      BY <1>1, <1>5, <1>9, <2>1, <2>2, <2>4, <3>1
    <3> QED
      BY <1>5, <1>8, <1>9, <3>1, <3>2 DEF Below
  <2> QED
    BY <1>5, <2>2, <2>3, <2>4
<1> QED
  BY <1>8, <1>10, <1>11 DEF u

\* A code is filled up with zeros.
Filled(c, n) == c \o [i \in 1..n - Len(c) |-> 0]

\* It has that length, and begins with the code.
LEMMA FilledFacts ==
  ASSUME NEW c \in Seq({0, 1}), NEW n \in Nat, Len(c) <= n
  PROVE  /\ Filled(c, n) \in Seq({0, 1}) /\ Len(Filled(c, n)) = n
         /\ \A i \in 1..Len(c) : Filled(c, n)[i] = c[i]
<1>0. PICK full : full = Filled(c, n)
  OBVIOUS
<1>1. PICK m \in Nat : m = n - Len(c)
  OBVIOUS
<1>2. PICK z : z = [i \in 1..m |-> 0]
  OBVIOUS
<1>3. z \in Seq({0, 1}) /\ Len(z) = m
  BY <1>2
<1>4. /\ c \o z \in Seq({0, 1}) /\ Len(c \o z) = Len(c) + Len(z)
      /\ \A i \in 1..Len(c) + Len(z) : (c \o z)[i] = IF i <= Len(c) THEN c[i] ELSE z[i - Len(c)]
  BY <1>3, ConcatProperties
<1>5. full = c \o z
  BY <1>0, <1>1, <1>2 DEF Filled
<1>6. Len(c) \in Nat
  OBVIOUS
<1>7. Len(full) = n
  BY ONLY <1>1, <1>3, <1>4, <1>5, <1>6, n \in Nat
<1>8. \A i \in 1..Len(c) : full[i] = c[i]
  BY ONLY <1>1, <1>3, <1>4, <1>5, <1>6
<1> QED
  BY <1>0, <1>4, <1>5, <1>7, <1>8

\* The constants of the codec.
LEMMA SymbolFacts ==
  /\ Symbols \subseteq Nat /\ IsFiniteSet(Symbols) /\ ByteBits \in Nat \ {0}
  /\ H!Bit = {0, 1} /\ H!None = <<>>
BY HuffmanAssumption DEF H!SymbolsAssumption, H!Bit, H!None, H!IsFiniteSet, IsFiniteSet

\* Nothing is given a code yet.
LEMMA NoCodes ==
  ASSUME codes = [s \in Symbols |-> <<>>], current = <<>>, lengths \in [Symbols -> Nat]
  PROVE  /\ CodesOK /\ codes \in [Symbols -> Seq({0, 1})]
         /\ \A s \in Symbols : Len(codes[s]) \in {0, lengths[s]}
<1>1. <<>> \in Seq({0, 1}) /\ Len(<<>>) = 0
  OBVIOUS
<1>2. \A s \in Symbols : codes[s] = <<>> /\ Len(codes[s]) = 0 /\ lengths[s] \in Nat
  BY <1>1
<1>3. codes \in [Symbols -> Seq({0, 1})]
  BY <1>1
<1>4. H!PrefixFree
  BY <1>2 DEF H!PrefixFree, H!Given, H!None
<1> QED
  BY <1>1, <1>2, <1>3, <1>4 DEF CodesOK

\* The Huffman codec starts in the invariant.
LEMMA HuffmanInit == H!Init => HuffmanInv
<1> SUFFICES ASSUME H!Init PROVE HuffmanInv
  OBVIOUS
<1>1. /\ codes = [s \in Symbols |-> <<>>] /\ current = <<>>
      /\ at = 0 /\ read = 0 /\ prefix = <<>> /\ output = <<>> /\ pc \in {"merge", "codes"}
  BY DEF H!Init, H!None
<1>2. CASE written = TRUE
  <2>1. /\ input \in Words /\ pc = "merge" /\ decoding = FALSE
        /\ queue = {H!Leaf(s) : s \in {x \in Symbols : H!Frequency(x) > 0}}
        /\ lengths = [s \in Symbols |-> 0] /\ declared = Len(input) /\ stream = <<>>
    BY <1>2 DEF H!Init
  <2>2. input \in Seq(Symbols) /\ Len(input) \in Nat
    BY <2>1, HuffmanAssumption DEF H!DataAssumption
  <2>3. \A s \in Symbols : DOMAIN H!Leaf(s).depth = {s} /\ H!Leaf(s).minimum = s
                           /\ H!Leaf(s).depth \in [{s} -> Nat]
    BY DEF H!Leaf
  <2>4. \A t \in queue : \E s \in Symbols : t = H!Leaf(s)
    BY <2>1
  <2>5. ASSUME NEW s \in Symbols PROVE H!Min({s}) = s
    <3>1. {s} \in SUBSET Nat /\ s \in {s} /\ \A x \in {s} : s <= x
      BY SymbolFacts
    <3> HIDE DEF H!Min
    <3> QED
      BY <3>1, MinimumFacts
  <2>6. ASSUME NEW t \in queue PROVE IsTree(t) /\ t.minimum = H!Min(DOMAIN t.depth)
    <3>1. PICK s \in Symbols : t = H!Leaf(s)
      BY <2>4
    <3>2. DOMAIN t.depth = {s} /\ t.minimum = s /\ t.depth \in [{s} -> Nat]
      BY <2>3, <3>1
    <3> QED
      BY <2>5, <3>2 DEF IsTree
  <2>7. ASSUME NEW t \in queue, NEW u \in queue PROVE t = u \/ DOMAIN t.depth \cap DOMAIN u.depth = {}
    <3>1. PICK s \in Symbols, x \in Symbols : t = H!Leaf(s) /\ u = H!Leaf(x)
      BY <2>4
    <3>2. DOMAIN t.depth = {s} /\ DOMAIN u.depth = {x}
      BY <2>3, <3>1
    <3> QED
      BY <3>1, <3>2
  <2>8. lengths \in [Symbols -> Nat] /\ stream \in Seq({0, 1})
    BY <2>1
  <2>9. CodesOK /\ codes \in [Symbols -> Seq({0, 1})] /\ \A s \in Symbols : Len(codes[s]) \in {0, lengths[s]}
    BY <1>1, <2>8, NoCodes
  <2>10. H!TypeOK
    <3>0. decoding \in BOOLEAN
      BY <2>1, Zenon
    <3>1. declared \in Nat /\ output \in Seq(Symbols)
          /\ at \in 0..Len(input) /\ Len(stream) = 0 /\ read \in 0..Len(stream)
      BY <1>1, <2>1, <2>2
    <3>2. H!Bit = {0, 1}
      BY DEF H!Bit
    <3> QED
      BY ONLY <1>1, <2>1, <2>2, <2>6, <2>7, <2>8, <2>9, <3>0, <3>1, <3>2, Zenon DEF H!TypeOK
  <2> QED
    BY <1>1, <2>1, <2>2, <2>6, <2>9, <2>10 DEF HuffmanInv, H!AcceptedIsCanonical
<1>3. CASE written # TRUE
  <2>1. input = <<>> /\ pc = "codes" /\ decoding = TRUE /\ queue = {}
    BY <1>3 DEF H!Init
  <2>2. PICK x \in Tables : lengths = x.lengths /\ declared = x.declared /\ stream = x.bits
    BY <1>3 DEF H!Init
  <2>3. /\ lengths \in [Symbols -> Nat] /\ declared \in Nat /\ stream \in Seq({0, 1})
        /\ Len(stream) % ByteBits = 0
    BY <2>2, HuffmanAssumption DEF H!DataAssumption
  <2>4. CodesOK /\ codes \in [Symbols -> Seq({0, 1})] /\ \A s \in Symbols : Len(codes[s]) \in {0, lengths[s]}
    BY <1>1, <2>3, NoCodes
  <2>5. input \in Seq(Symbols) /\ output \in Seq(Symbols) /\ Len(input) \in Nat /\ Len(stream) \in Nat
    BY <1>1, <2>1, <2>3
  <2>6. H!TypeOK
    BY <1>1, <2>1, <2>3, <2>4, <2>5 DEF H!TypeOK, H!Bit
  <2> QED
    BY <1>1, <2>1, <2>3, <2>4, <2>5, <2>6 DEF HuffmanInv, WholeBytes, H!AcceptedIsCanonical
<1> QED
  BY <1>2, <1>3

\* Two trees of different symbols become one.
LEMMA JoinedIsTree ==
  ASSUME NEW t, NEW u, IsTree(t), IsTree(u),
         t.minimum = H!Min(DOMAIN t.depth), u.minimum = H!Min(DOMAIN u.depth)
  PROVE  /\ IsTree(H!Joined(t, u))
         /\ DOMAIN H!Joined(t, u).depth = DOMAIN t.depth \cup DOMAIN u.depth
         /\ H!Joined(t, u).minimum = H!Min(DOMAIN t.depth \cup DOMAIN u.depth)
<1>1. PICK D : D = DOMAIN t.depth
  OBVIOUS
<1>2. PICK E : E = DOMAIN u.depth
  OBVIOUS
<1>3. /\ D \in SUBSET Symbols /\ E \in SUBSET Symbols /\ D # {} /\ E # {}
      /\ D \in SUBSET Nat /\ E \in SUBSET Nat /\ D \cup E \in SUBSET Nat /\ D \cup E # {}
      /\ t.depth \in [D -> Nat] /\ u.depth \in [E -> Nat]
  BY <1>1, <1>2, SymbolFacts DEF IsTree
<1>4. PICK j : j = H!Joined(t, u)
  OBVIOUS
<1>5. /\ j.minimum = H!Min({H!Min(D), H!Min(E)})
      /\ j.depth = [s \in D \cup E |-> 1 + IF s \in D THEN t.depth[s] ELSE u.depth[s]]
  BY <1>1, <1>2, <1>4 DEF H!Joined
<1>6. DOMAIN j.depth = D \cup E /\ j.depth \in [D \cup E -> Nat]
  <2>1. \A s \in D \cup E : 1 + (IF s \in D THEN t.depth[s] ELSE u.depth[s]) \in Nat
    BY <1>3
  <2> QED
    BY <1>5, <2>1
<1>7. PICK m \in D : m = H!Min(D) /\ \A x \in D : m <= x
  BY <1>3, MinimumFacts
<1>8. PICK n \in E : n = H!Min(E) /\ \A x \in E : n <= x
  BY <1>3, MinimumFacts
<1>9. PICK k \in {m, n} : k = H!Min({m, n}) /\ \A x \in {m, n} : k <= x
  <2>1. {m, n} \in SUBSET Nat /\ {m, n} # {}
    BY <1>3
  <2> QED
    BY <2>1, MinimumFacts
<1>10. k \in D \cup E /\ \A x \in D \cup E : k <= x
  <2>1. k \in D \cup E /\ k \in Nat /\ m \in Nat /\ n \in Nat /\ k <= m /\ k <= n
    BY <1>3, <1>9
  <2>2. ASSUME NEW x \in D \cup E PROVE k <= x
    <3>1. x \in Nat /\ (m <= x \/ n <= x)
      BY <1>3, <1>7, <1>8
    <3> QED
      BY <2>1, <3>1
  <2> QED
    BY <2>1, <2>2
<1>11. k = H!Min(D \cup E)
  BY <1>3, <1>10, MinimumFacts
<1>12. j.minimum = H!Min(D \cup E)
  BY <1>5, <1>7, <1>8, <1>9, <1>11
<1>13. D \cup E \in SUBSET Symbols
  BY <1>3
<1>14. IsTree(j)
  BY <1>3, <1>6, <1>13 DEF IsTree
<1> QED
  BY <1>1, <1>2, <1>4, <1>6, <1>12, <1>14

\* The two rarest trees are joined.
LEMMA MergeKeeps ==
  ASSUME HuffmanInv, H!Merge
  PROVE  HuffmanInv'
<1>1. /\ pc = "merge"
      /\ UNCHANGED <<input, written, pc, decoding, lengths, declared, stream, codes, current, at, read, prefix, output>>
  BY DEF H!Merge, H!file, H!table, H!reader
<1>2. PICK t \in queue, u \in queue : queue' = (queue \ {t, u}) \cup {H!Joined(t, u)}
  BY DEF H!Merge
<1>3. /\ \A v \in queue : IsTree(v) /\ v.minimum = H!Min(DOMAIN v.depth)
      /\ \A v, w \in queue : v = w \/ DOMAIN v.depth \cap DOMAIN w.depth = {}
  BY DEF HuffmanInv, H!TypeOK
<1>4. PICK j : j = H!Joined(t, u)
  OBVIOUS
<1>5. /\ IsTree(j) /\ DOMAIN j.depth = DOMAIN t.depth \cup DOMAIN u.depth
      /\ j.minimum = H!Min(DOMAIN j.depth)
  <2>1. /\ IsTree(t) /\ t.minimum = H!Min(DOMAIN t.depth)
        /\ IsTree(u) /\ u.minimum = H!Min(DOMAIN u.depth)
    BY <1>3
  <2>2. /\ IsTree(H!Joined(t, u))
        /\ DOMAIN H!Joined(t, u).depth = DOMAIN t.depth \cup DOMAIN u.depth
        /\ H!Joined(t, u).minimum = H!Min(DOMAIN t.depth \cup DOMAIN u.depth)
    BY ONLY <2>1, JoinedIsTree, Zenon
  <2> QED
    BY ONLY <1>4, <2>2
<1>6. ASSUME NEW v \in queue' PROVE IsTree(v) /\ v.minimum = H!Min(DOMAIN v.depth)
  BY <1>2, <1>3, <1>4, <1>5
<1>7. ASSUME NEW v \in queue', NEW w \in queue' PROVE v = w \/ DOMAIN v.depth \cap DOMAIN w.depth = {}
  <2>1. ASSUME NEW x \in queue, x # t, x # u PROVE DOMAIN x.depth \cap DOMAIN j.depth = {}
    <3>1. DOMAIN x.depth \cap DOMAIN t.depth = {} /\ DOMAIN x.depth \cap DOMAIN u.depth = {}
      BY <1>3, <2>1
    <3> QED
      BY <1>5, <3>1
  <2>2. /\ v = j \/ (v \in queue /\ v # t /\ v # u)
        /\ w = j \/ (w \in queue /\ w # t /\ w # u)
    BY <1>2, <1>4
  <2>3. CASE v = j
    BY <2>1, <2>2, <2>3
  <2>4. CASE w = j
    BY <2>1, <2>2, <2>4
  <2>5. CASE v # j /\ w # j
    BY <1>3, <2>2, <2>5
  <2> QED
    BY <2>3, <2>4, <2>5
<1>8. H!TypeOK'
  BY <1>1, <1>6, <1>7 DEF HuffmanInv, H!TypeOK
<1>9. CodesOK'
  BY <1>1 DEF HuffmanInv, CodesOK, H!PrefixFree, H!Given
<1> QED
  BY <1>1, <1>6, <1>8, <1>9 DEF HuffmanInv, H!AcceptedIsCanonical

\* The depths of the tree become the lengths of the table.
LEMMA TakeLengthsKeeps ==
  ASSUME HuffmanInv, H!TakeLengths
  PROVE  HuffmanInv'
<1>1. /\ pc = "merge" /\ queue' = {} /\ pc' = "codes"
      /\ UNCHANGED <<input, written, decoding, declared, stream, codes, current, at, read, prefix, output>>
  BY DEF H!TakeLengths, H!table, H!reader
<1>2. lengths' = [s \in Symbols |->
        IF \E t \in queue : s \in DOMAIN t.depth
        THEN H!Bits((CHOOSE t \in queue : TRUE).depth[s]) ELSE 0]
  BY DEF H!TakeLengths
<1>3. \A t, u \in queue : t = u
  BY DEF H!TakeLengths
<1>4. ASSUME NEW d \in Nat PROVE H!Bits(d) \in Nat
  <2>1. PICK n \in Nat : n = d + 1
    OBVIOUS
  <2>2. {d, 1} \in SUBSET (0..n) /\ {d, 1} # {}
    BY <2>1
  <2>3. H!Max({d, 1}) \in {d, 1}
    BY <2>2, MaximumFacts
  <2> QED
    BY <2>3 DEF H!Bits
<1>5. ASSUME NEW s \in Symbols, \E t \in queue : s \in DOMAIN t.depth
      PROVE  (CHOOSE t \in queue : TRUE).depth[s] \in Nat
  <2>1. PICK t \in queue : s \in DOMAIN t.depth
    BY <1>5
  <2>2. (CHOOSE v \in queue : TRUE) = t
    BY <1>3
  <2>3. t.depth[s] \in Nat
    BY <2>1 DEF HuffmanInv, IsTree
  <2> QED
    BY <2>2, <2>3
<1>6. lengths' \in [Symbols -> Nat]
  <2>1. \A s \in Symbols : (IF \E t \in queue : s \in DOMAIN t.depth
                            THEN H!Bits((CHOOSE t \in queue : TRUE).depth[s]) ELSE 0) \in Nat
    BY <1>4, <1>5
  <2> QED
    BY <1>2, <2>1
<1>7. current = <<>> /\ codes = [s \in Symbols |-> <<>>]
  <2>1. current = <<>> /\ codes \in [Symbols -> Seq({0, 1})]
    BY <1>1 DEF HuffmanInv, H!TypeOK, H!Bit
  <2>2. \A s \in Symbols : codes[s] = <<>>
    BY <2>1 DEF HuffmanInv, CodesOK
  <2> QED
    BY <2>1, <2>2
<1>8. codes' = [s \in Symbols |-> <<>>] /\ current' = <<>>
  BY <1>1, <1>7
<1>9. CodesOK' /\ codes' \in [Symbols -> Seq({0, 1})] /\ \A s \in Symbols : Len(codes'[s]) \in {0, lengths'[s]}
  <2>1. \A s \in Symbols : codes'[s] = <<>> /\ Len(codes'[s]) = 0 /\ lengths'[s] \in Nat
    BY <1>6, <1>8
  <2>2. H!PrefixFree'
    BY <2>1 DEF H!PrefixFree, H!Given, H!None
  <2>3. codes' \in [Symbols -> Seq({0, 1})] /\ current' \in Seq({0, 1}) /\ Len(current') = 0
    <3>1. <<>> \in Seq({0, 1}) /\ Len(<<>>) = 0
      OBVIOUS
    <3> QED
      BY <1>8, <3>1
  <2> QED
    BY <1>6, <1>8, <2>1, <2>2, <2>3 DEF CodesOK
<1>10. H!TypeOK'
  BY <1>1, <1>6, <1>9 DEF HuffmanInv, H!TypeOK, H!Bit
<1>11. decoding' => WholeBytes'
  <2>1. ~decoding
    BY <1>1 DEF HuffmanInv
  <2> QED
    BY <1>1, <2>1
<1> QED
  BY <1>1, <1>9, <1>10, <1>11 DEF HuffmanInv, H!AcceptedIsCanonical

\* The codes a table has got keep apart when one more is given.
LEMMA AssignCodeKeeps ==
  ASSUME HuffmanInv, H!AssignCode
  PROVE  HuffmanInv'
<1> DEFINE code == IF current = <<>> THEN <<>> ELSE H!Successor(current)
           new == code \o [i \in 1..lengths[H!First] - Len(code) |-> 0]
<1>1. /\ pc = "codes" /\ H!Pending # {} /\ ~H!Overflows
      /\ codes' = [codes EXCEPT ![H!First] = new] /\ current' = new
      /\ UNCHANGED <<input, written, pc, decoding, queue, lengths, declared, stream, at, read, prefix, output>>
  BY DEF H!AssignCode, H!file, H!reader
<1>2. /\ lengths \in [Symbols -> Nat] /\ codes \in [Symbols -> Seq({0, 1})]
      /\ \A s \in Symbols : Len(codes[s]) \in {0, lengths[s]}
  BY DEF HuffmanInv, H!TypeOK, H!Bit
<1>3. /\ current \in Seq({0, 1})
      /\ current = <<>> => \A s \in Symbols : codes[s] = <<>>
      /\ \A s \in Symbols : lengths[s] > 0 /\ codes[s] = <<>> => Len(current) <= lengths[s]
      /\ \A s \in Symbols : codes[s] # <<>> => codes[s] = current \/ Below(codes[s], current)
      /\ H!PrefixFree
  BY DEF HuffmanInv, CodesOK
<1>4. PICK f \in Symbols : f = H!First
  BY <1>1, <1>2, FirstFacts
<1>5. /\ lengths[f] > 0 /\ codes[f] = <<>> /\ lengths[f] \in Nat
      /\ \A x \in H!Pending : lengths[f] <= lengths[x]
  <2>1. f \in H!Pending /\ \A x \in H!Pending : lengths[f] <= lengths[x]
    BY <1>1, <1>2, <1>4, FirstFacts
  <2> QED
    BY <1>2, <2>1 DEF H!Pending, H!None
<1>6. /\ code \in Seq({0, 1}) /\ Len(code) = Len(current)
      /\ \A s \in Symbols : codes[s] # <<>> => Below(codes[s], code)
  <2>1. CASE current = <<>>
    BY <1>3, <2>1
  <2>2. CASE current # <<>>
    <3>1. ~H!AllOnes(current)
      BY <1>1, <2>2 DEF H!Overflows
    <3>2. /\ H!Successor(current) \in Seq({0, 1}) /\ Len(H!Successor(current)) = Len(current)
          /\ Below(current, H!Successor(current))
          /\ \A d \in Seq({0, 1}) : Below(d, current) => Below(d, H!Successor(current))
      BY <1>3, <3>1, SuccessorFacts
    <3>3. code = H!Successor(current)
      BY <2>2
    <3> HIDE DEF code
    <3>4. ASSUME NEW s \in Symbols, codes[s] # <<>> PROVE Below(codes[s], code)
      <4>1. codes[s] \in Seq({0, 1}) /\ (codes[s] = current \/ Below(codes[s], current))
        BY <1>2, <1>3, <3>4
      <4> QED
        BY <3>2, <3>3, <4>1
    <3> QED
      BY <3>2, <3>3, <3>4
  <2> QED
    BY <2>1, <2>2
<1> HIDE DEF code
<1>7. Len(code) <= lengths[f]
  BY <1>3, <1>5, <1>6
<1>8. /\ new \in Seq({0, 1}) /\ Len(new) = lengths[f]
      /\ \A i \in 1..Len(code) : new[i] = code[i]
  <2>1. PICK n \in Nat : n = lengths[f]
    BY <1>5
  <2>2. PICK c \in Seq({0, 1}) : c = code
    BY <1>6
  <2>3. new = Filled(c, n)
    BY <1>4, <2>1, <2>2 DEF Filled
  <2> HIDE DEF new
  <2>4. Len(c) <= n
    BY ONLY <1>7, <2>1, <2>2
  <2>5. /\ Filled(c, n) \in Seq({0, 1}) /\ Len(Filled(c, n)) = n
        /\ \A i \in 1..Len(c) : Filled(c, n)[i] = c[i]
    BY <2>4, FilledFacts, Zenon
  <2> QED
    BY ONLY <2>1, <2>2, <2>3, <2>5
<1> HIDE DEF new
<1>9. new # <<>>
  BY <1>5, <1>8
<1>10. ASSUME NEW s \in Symbols, codes[s] # <<>> PROVE Below(codes[s], new)
  <2>1. PICK i \in 1..Len(codes[s]) :
          /\ i <= Len(code) /\ codes[s][i] = 0 /\ code[i] = 1
          /\ \A j \in 1..i - 1 : codes[s][j] = code[j]
    BY <1>6, <1>10 DEF Below
  <2>2. Len(code) \in Nat /\ i \in 1..Len(code) /\ Len(code) <= Len(new) /\ Len(new) \in Nat
    BY <1>6, <1>7, <1>8, <2>1
  <2>3. new[i] = 1 /\ \A j \in 1..i - 1 : codes[s][j] = new[j]
    BY <1>8, <2>1, <2>2
  <2>4. i <= Len(new)
    BY <2>2
  <2> QED
    BY <2>1, <2>3, <2>4 DEF Below
<1>11. /\ codes' \in [Symbols -> Seq({0, 1})] /\ codes'[f] = new
       /\ \A s \in Symbols : s # f => codes'[s] = codes[s]
  BY <1>1, <1>2, <1>4, <1>8
<1>12. \A s \in Symbols : Len(codes'[s]) \in {0, lengths'[s]}
  BY <1>1, <1>2, <1>8, <1>11
<1>13. H!PrefixFree'
  <2> SUFFICES ASSUME NEW s \in Symbols, NEW x \in Symbols, codes'[s] # <<>>, codes'[x] # <<>>, s # x
               PROVE  ~H!IsPrefix(codes'[s], codes'[x])
    BY DEF H!PrefixFree, H!Given, H!None
  <2>1. ASSUME NEW y \in Symbols, codes[y] # <<>>
        PROVE  ~H!IsPrefix(codes[y], new) /\ ~H!IsPrefix(new, codes[y])
    <3>1. PICK i \in 1..Len(codes[y]) : i <= Len(new) /\ codes[y][i] = 0 /\ new[i] = 1
      BY <1>10, <2>1 DEF Below
    <3>2. i \in 1..Len(new) /\ codes[y] \in Seq({0, 1}) /\ codes[y][i] # new[i]
      BY <1>2, <1>8, <3>1
    <3> QED
      BY <1>8, <3>1, <3>2, DifferentCodes
  <2>2. CASE s = f
    BY <1>11, <2>1, <2>2
  <2>3. CASE x = f
    BY <1>11, <2>1, <2>3
  <2>4. CASE s # f /\ x # f
    <3>1. codes[s] # <<>> /\ codes[x] # <<>> /\ codes'[s] = codes[s] /\ codes'[x] = codes[x]
      BY <1>11, <2>4
    <3> QED
      BY <1>3, <3>1 DEF H!PrefixFree, H!Given, H!None
  <2> QED
    BY <2>2, <2>3, <2>4
<1>14. CodesOK'
  <2>1. current' \in Seq({0, 1}) /\ current' # <<>> /\ Len(current') = lengths[f]
    BY <1>1, <1>8, <1>9
  <2>2. ASSUME NEW s \in Symbols, lengths'[s] > 0, codes'[s] = <<>> PROVE Len(current') <= lengths'[s]
    <3>1. s # f /\ codes[s] = <<>> /\ lengths[s] > 0
      BY <1>1, <1>9, <1>11, <2>2
    <3>2. s \in H!Pending
      BY <3>1 DEF H!Pending, H!None
    <3> QED
      BY <1>1, <1>5, <2>1, <3>2
  <2>3. ASSUME NEW s \in Symbols, codes'[s] # <<>> PROVE codes'[s] = current' \/ Below(codes'[s], current')
    BY <1>1, <1>10, <1>11, <2>3
  <2> QED
    BY <1>13, <2>1, <2>2, <2>3 DEF CodesOK
<1>15. H!TypeOK'
  <2>1. /\ codes' \in [Symbols -> Seq(H!Bit)] /\ \A s \in Symbols : Len(codes'[s]) \in {0, lengths'[s]}
    BY <1>11, <1>12 DEF H!Bit
  <2> QED
    BY <1>1, <2>1 DEF HuffmanInv, H!TypeOK
<1> QED
  BY <1>1, <1>14, <1>15 DEF HuffmanInv, WholeBytes, H!AcceptedIsCanonical

\* Only the phase changes.
LEMMA RefuseKeeps ==
  ASSUME HuffmanInv, H!RefuseLengths \/ H!ReadError \/ H!StartWriting
  PROVE  HuffmanInv'
<1>1. /\ pc \in {"codes", "read"} /\ pc' \in {"failed", "write"} /\ (pc' = "write" => pc = "codes")
      /\ UNCHANGED <<input, written, decoding, queue, lengths, declared, stream,
                     codes, current, at, read, prefix, output>>
  BY DEF H!RefuseLengths, H!ReadError, H!StartWriting, H!file, H!table, H!reader
<1>2. H!TypeOK'
  BY <1>1 DEF HuffmanInv, H!TypeOK
<1>3. CodesOK'
  BY <1>1 DEF HuffmanInv, CodesOK, H!PrefixFree, H!Given
<1> QED
  BY <1>1, <1>2, <1>3 DEF HuffmanInv, H!AcceptedIsCanonical

\* The decoder has its trie and has read nothing.
LEMMA StartReadingKeeps ==
  ASSUME HuffmanInv, H!StartReading
  PROVE  HuffmanInv'
<1>1. /\ pc = "codes" /\ decoding /\ pc' \in {"read", "failed"}
      /\ UNCHANGED <<input, written, decoding, queue, lengths, declared, stream,
                     codes, current, at, read, prefix, output>>
  BY DEF H!StartReading, H!file, H!table, H!reader
<1>2. H!TypeOK'
  BY <1>1 DEF HuffmanInv, H!TypeOK
<1>3. CodesOK'
  BY <1>1 DEF HuffmanInv, CodesOK, H!PrefixFree, H!Given
<1>4. read = 0 /\ prefix = <<>> /\ output = <<>> /\ WholeBytes /\ declared \in Nat
  BY <1>1 DEF HuffmanInv, H!TypeOK
<1>5. SubSeq(stream, 1, read) = H!FlattenSeq([i \in DOMAIN output |-> codes[output[i]]]) \o prefix
  <2>1. SubSeq(stream, 1, 0) = <<>>
    BY SubSeqEmpty
  <2>2. [i \in DOMAIN output |-> codes[output[i]]] = <<>>
    BY <1>4
  <2>3. H!FlattenSeq([i \in DOMAIN output |-> codes[output[i]]]) = <<>>
    BY <2>2 DEF H!FlattenSeq
  <2>4. <<>> \o <<>> = <<>>
    OBVIOUS
  <2> QED
    BY <1>4, <2>1, <2>3, <2>4
<1>6. ReadOK
  <2>1. prefix \in Seq({0, 1}) /\ Len(output) <= declared
    BY <1>4
  <2> QED
    BY <1>4, <1>5, <2>1 DEF ReadOK
<1>7. ReadOK'
  BY <1>1, <1>6 DEF ReadOK, WholeBytes
<1> QED
  BY <1>1, <1>2, <1>3, <1>7 DEF HuffmanInv, H!AcceptedIsCanonical

\* The code of a symbol is written.
LEMMA WriteSymbolKeeps ==
  ASSUME HuffmanInv, H!WriteSymbol
  PROVE  HuffmanInv'
<1>1. /\ pc = "write" /\ at < Len(input) /\ stream' = stream \o codes[input[at + 1]] /\ at' = at + 1
      /\ UNCHANGED <<input, written, pc, decoding, queue, lengths, declared,
                     codes, current, read, prefix, output>>
  BY DEF H!WriteSymbol, H!table, H!reader
<1>2. /\ input \in Seq(Symbols) /\ at \in 0..Len(input) /\ Len(input) \in Nat
      /\ codes \in [Symbols -> Seq({0, 1})] /\ stream \in Seq({0, 1})
      /\ read = 0
  BY <1>1 DEF HuffmanInv, H!TypeOK, H!Bit
<1>3. at' \in 0..Len(input')
  BY <1>1, <1>2
<1>4. at + 1 \in 1..Len(input)
  BY <1>1, <1>2
<1>5. codes[input[at + 1]] \in Seq({0, 1})
  BY <1>2, <1>4
<1>6. stream' \in Seq({0, 1})
  BY ONLY <1>1, <1>2, <1>5, ConcatProperties
<1>7. read' \in 0..Len(stream') /\ Len(stream') \in Nat
  BY <1>1, <1>2, <1>6
<1>8. H!TypeOK'
  <2>1. stream' \in Seq(H!Bit)
    BY <1>6 DEF H!Bit
  <2> HIDE <1>6
  <2> QED
    BY <1>1, <1>3, <1>7, <2>1 DEF HuffmanInv, H!TypeOK
<1>9. CodesOK'
  BY <1>1 DEF HuffmanInv, CodesOK, H!PrefixFree, H!Given
<1> QED
  BY <1>1, <1>8, <1>9 DEF HuffmanInv, H!AcceptedIsCanonical

\* The last byte is filled up, and the stream is read back.
LEMMA FinishWritingKeeps ==
  ASSUME HuffmanInv, H!FinishWriting
  PROVE  HuffmanInv'
<1>1. /\ pc = "write" /\ stream' = H!Padding(stream) /\ pc' = "codes" /\ decoding' = TRUE
      /\ codes' = [s \in Symbols |-> <<>>] /\ current' = <<>>
      /\ UNCHANGED <<input, written, queue, lengths, declared, at, read, prefix, output>>
  BY DEF H!FinishWriting, H!reader, H!None
<1>2. /\ stream \in Seq({0, 1}) /\ Len(stream) \in Nat /\ lengths \in [Symbols -> Nat] /\ read = 0
      /\ ByteBits \in Nat \ {0}
  BY <1>1, SymbolFacts DEF HuffmanInv, H!TypeOK, H!Bit
<1>3. PICK k \in 0..ByteBits - 1 : k = (-Len(stream)) % ByteBits /\ (Len(stream) + k) % ByteBits = 0
  BY <1>2, PaddingFacts
<1>4. PICK z : z = [i \in 1..k |-> 0]
  OBVIOUS
<1>5. z \in Seq({0, 1}) /\ Len(z) = k
  BY <1>2, <1>3, <1>4
<1>6. stream' = stream \o z
  BY <1>1, <1>3, <1>4 DEF H!Padding
<1>7. stream' \in Seq({0, 1}) /\ Len(stream') = Len(stream) + k
  <2>1. stream \o z \in Seq({0, 1}) /\ Len(stream \o z) = Len(stream) + Len(z)
    BY ONLY <1>2, <1>5, ConcatProperties
  <2> QED
    BY ONLY <1>5, <1>6, <2>1
<1>8. WholeBytes' /\ read' \in 0..Len(stream')
  BY <1>1, <1>2, <1>3, <1>7 DEF WholeBytes
<1>9. /\ codes' \in [Symbols -> Seq({0, 1})] /\ \A s \in Symbols : Len(codes'[s]) \in {0, lengths'[s]}
      /\ CodesOK'
  <2>1. \A s \in Symbols : codes'[s] = <<>> /\ Len(codes'[s]) = 0 /\ lengths'[s] \in Nat
    BY <1>1, <1>2
  <2>2. H!PrefixFree'
    BY <2>1 DEF H!PrefixFree, H!Given, H!None
  <2>3. codes' \in [Symbols -> Seq({0, 1})] /\ current' \in Seq({0, 1}) /\ Len(current') = 0
    <3>1. <<>> \in Seq({0, 1}) /\ Len(<<>>) = 0
      OBVIOUS
    <3> QED
      BY <1>1, <3>1
  <2> QED
    BY <1>1, <2>1, <2>2, <2>3 DEF CodesOK
<1>10. H!TypeOK'
  <2>1. stream' \in Seq(H!Bit) /\ codes' \in [Symbols -> Seq(H!Bit)]
    BY <1>7, <1>9 DEF H!Bit
  <2>2. decoding' \in BOOLEAN
    BY <1>1, Zenon
  <2> HIDE <1>6, <1>7
  <2>3. pc' \in {"merge", "codes", "write", "read", "done", "failed"}
    BY <1>1
  <2>4. UNCHANGED <<input, queue, lengths, declared, at, output>>
    BY <1>1
  <2> QED
    BY <1>8, <1>9, <2>1, <2>2, <2>3, <2>4 DEF HuffmanInv, H!TypeOK
<1>11. \A t \in queue' : IsTree(t)
  BY <1>1 DEF HuffmanInv
<1>12. /\ input' \in Seq(Symbols) /\ read' = 0 /\ prefix' = <<>> /\ output' = <<>>
  BY <1>1 DEF HuffmanInv
<1> QED
  BY <1>1, <1>8, <1>9, <1>10, <1>11, <1>12 DEF HuffmanInv, H!AcceptedIsCanonical

\* A bit is read: the trie goes on, or a symbol is complete.
LEMMA ReadBitKeeps ==
  ASSUME HuffmanInv, H!ReadBit
  PROVE  HuffmanInv'
<1> DEFINE found == {s \in H!Used : codes[s] = H!NextBits}
           of == [i \in DOMAIN output |-> codes[output[i]]]
<1>1. /\ pc = "read" /\ Len(output) < declared /\ read < Len(stream) /\ read' = read + 1
      /\ UNCHANGED <<input, written, pc, decoding, queue, lengths, declared, stream, codes, current, at>>
  BY DEF H!ReadBit, H!BitComes, H!file, H!table
<1>2. \/ found = {} /\ prefix' = H!NextBits /\ output' = output
      \/ found # {} /\ prefix' = <<>> /\ output' = Append(output, CHOOSE s \in found : TRUE)
  BY DEF H!ReadBit
<1>3. /\ output \in Seq(Symbols) /\ Len(output) \in Nat /\ declared \in Nat
      /\ stream \in Seq({0, 1}) /\ Len(stream) \in Nat /\ read \in 0..Len(stream)
      /\ codes \in [Symbols -> Seq({0, 1})]
  BY DEF HuffmanInv, H!TypeOK, H!Bit
<1>4. WholeBytes /\ prefix \in Seq({0, 1}) /\ SubSeq(stream, 1, read) = H!FlattenSeq(of) \o prefix
  BY <1>1 DEF HuffmanInv, ReadOK
<1>5. PICK b \in {0, 1} : b = stream[read + 1]
  BY <1>1, <1>3
<1>6. H!NextBits = prefix \o <<b>> /\ H!NextBits \in Seq({0, 1}) /\ <<b>> \in Seq({0, 1})
  <2>1. Append(prefix, b) = prefix \o <<b>> /\ Append(prefix, b) \in Seq({0, 1})
    BY ONLY <1>4, AppendIsConcat, AppendProperties, b \in {0, 1}
  <2>2. <<b>> \in Seq({0, 1})
    OBVIOUS
  <2>3. H!NextBits = Append(prefix, b)
    BY <1>5 DEF H!NextBits
  <2> QED
    BY ONLY <2>1, <2>2, <2>3
<1>7. of \in Seq(Seq({0, 1})) /\ Len(of) = Len(output)
  <2>1. \A i \in 1..Len(output) : codes[output[i]] \in Seq({0, 1})
    BY <1>3
  <2>2. DOMAIN output = 1..Len(output)
    BY <1>3
  <2> QED
    BY <1>3, <2>1, <2>2
<1> HIDE DEF of
<1>8. H!FlattenSeq(of) \in Seq({0, 1})
  BY ONLY <1>7, FlattenMore, <<>> \in Seq({0, 1})
<1>9. SubSeq(stream, 1, read + 1) = H!FlattenSeq(of) \o H!NextBits
  <2>1. PICK k \in 1..Len(stream) : k = read + 1 /\ k - 1 = read
    BY <1>1, <1>3
  <2>2. SubSeq(stream, 1, k) = SubSeq(stream, 1, k - 1) \o <<stream[k]>>
    <3>1. 1 \in 1..Len(stream) /\ k \in 1..Len(stream)
      BY <1>3
    <3> QED
      BY ONLY <1>3, <3>1, SubSeqRecursiveSecond
  <2>3. SubSeq(stream, 1, read + 1) = (H!FlattenSeq(of) \o prefix) \o <<b>>
    BY ONLY <1>4, <1>5, <2>1, <2>2
  <2>4. (H!FlattenSeq(of) \o prefix) \o <<b>> = H!FlattenSeq(of) \o (prefix \o <<b>>)
    BY ONLY <1>4, <1>6, <1>8, ConcatAssociative
  <2> QED
    BY ONLY <1>6, <2>3, <2>4
<1>10. read' \in 0..Len(stream')
  BY <1>1, <1>3
<1>11. CodesOK'
  BY <1>1 DEF HuffmanInv, CodesOK, H!PrefixFree, H!Given
<1>12. /\ output' \in Seq(Symbols) /\ prefix' \in Seq({0, 1})
       /\ Len(output') <= declared' /\ (Len(output') = declared' => prefix' = <<>>)
       /\ SubSeq(stream', 1, read')
            = H!FlattenSeq([i \in DOMAIN output' |-> codes'[output'[i]]]) \o prefix'
  <2>1. CASE found = {}
    <3>1. prefix' = H!NextBits /\ output' = output
      BY <1>2, <2>1
    <3>2. of = [i \in DOMAIN output' |-> codes'[output'[i]]]
      BY <1>1, <3>1 DEF of
    <3>3. Len(output') < declared' /\ Len(output') # declared' /\ Len(output') <= declared'
      BY <1>1, <1>3, <3>1
    <3> QED
      BY ONLY <1>1, <1>3, <1>6, <1>9, <3>1, <3>2, <3>3
  <2>2. CASE found # {}
    <3>1. PICK s \in Symbols : codes[s] = H!NextBits /\ output' = Append(output, s)
      <4>1. (CHOOSE s \in found : TRUE) \in found
        BY <2>2
      <4>2. \A s \in found : s \in Symbols /\ codes[s] = H!NextBits
        BY DEF H!Used
      <4> HIDE DEF found
      <4> QED
        BY <1>2, <2>2, <4>1, <4>2
    <3>2. prefix' = <<>>
      BY <1>2, <2>2
    <3>3. /\ output' \in Seq(Symbols) /\ Len(output') = Len(output) + 1
          /\ \A i \in 1..Len(output) : output'[i] = output[i]
          /\ output'[Len(output) + 1] = s
      BY ONLY <1>3, <3>1, AppendProperties, s \in Symbols
    <3>4. [i \in DOMAIN output' |-> codes'[output'[i]]] = Append(of, codes[s])
      <4>1. PICK new : new = [i \in DOMAIN output' |-> codes'[output'[i]]]
        OBVIOUS
      <4>2. DOMAIN output' = 1..Len(output')
        BY <3>3
      <4>3. PICK n \in Nat : n = Len(output)
        BY <1>3
      <4>4. \A i \in 1..n + 1 : codes'[output'[i]] \in Seq({0, 1})
        BY <1>1, <1>3, <3>3, <4>2, <4>3
      <4>5. new = [i \in 1..n + 1 |-> codes'[output'[i]]]
        BY <3>3, <4>1, <4>2, <4>3
      <4>6. new \in Seq(Seq({0, 1})) /\ Len(new) = n + 1
        BY <4>4, <4>5
      <4>7. \A i \in 1..n : new[i] = codes[output[i]] /\ of[i] = codes[output[i]]
        <5>1. \A i \in 1..n : i \in 1..n + 1 /\ i \in DOMAIN output
          BY <1>3, <4>3
        <5> QED
          BY <1>1, <3>3, <4>3, <4>5, <5>1 DEF of
      <4>8. new[n + 1] = codes[s]
        BY <1>1, <3>3, <4>3, <4>5
      <4>9. PICK more : more = Append(of, codes[s])
        OBVIOUS
      <4>10. /\ more \in Seq(Seq({0, 1})) /\ Len(more) = n + 1 /\ more[n + 1] = codes[s]
             /\ \A i \in 1..n : more[i] = of[i]
        <5>1. codes[s] \in Seq({0, 1})
          BY <1>3
        <5> QED
          BY ONLY <1>7, <4>3, <4>9, <5>1, AppendProperties
      <4>11. \A i \in 1..n + 1 : i \in 1..n \/ i = n + 1
        OBVIOUS
      <4>12. \A i \in 1..n + 1 : new[i] = more[i]
        BY ONLY <4>7, <4>8, <4>10, <4>11
      <4>13. new = more
        BY ONLY <4>6, <4>10, <4>12, SeqEqual
      <4> QED
        BY <4>1, <4>9, <4>13
    <3>5. H!FlattenSeq(Append(of, codes[s])) = H!FlattenSeq(of) \o codes[s]
      <4>1. codes[s] \in Seq({0, 1})
        BY <1>3
      <4> QED
        BY ONLY <1>7, <4>1, FlattenMore
    <3>6. SubSeq(stream, 1, read + 1) \in Seq({0, 1})
      <4>1. PICK x \in Seq({0, 1}), y \in Seq({0, 1}) : x = H!FlattenSeq(of) /\ y = H!NextBits
        BY <1>6, <1>8
      <4>2. x \o y \in Seq({0, 1})
        BY ONLY ConcatProperties, x \in Seq({0, 1}), y \in Seq({0, 1})
      <4> QED
        BY ONLY <1>9, <4>1, <4>2
    <3>7. SubSeq(stream, 1, read + 1) \o <<>> = SubSeq(stream, 1, read + 1)
      BY ONLY <3>6, ConcatEmptySeq
    <3>8. SubSeq(stream', 1, read')
            = H!FlattenSeq([i \in DOMAIN output' |-> codes'[output'[i]]]) \o prefix'
      BY ONLY <1>1, <1>9, <3>1, <3>2, <3>4, <3>5, <3>7
    <3>9. Len(output') <= declared'
      BY <1>1, <1>3, <3>3
    <3>10. <<>> \in Seq({0, 1})
      OBVIOUS
    <3> QED
      BY ONLY <3>2, <3>3, <3>8, <3>9, <3>10
  <2> QED
    BY <2>1, <2>2
<1>13. ReadOK'
  BY <1>1, <1>4, <1>12 DEF ReadOK, WholeBytes
<1>14. H!TypeOK'
  BY <1>1, <1>10, <1>12 DEF HuffmanInv, H!TypeOK
<1>15. /\ input' \in Seq(Symbols) /\ \A t \in queue' : IsTree(t)
  BY <1>1 DEF HuffmanInv
<1> QED
  BY <1>1, <1>11, <1>13, <1>14, <1>15 DEF HuffmanInv, H!AcceptedIsCanonical

\* The decoder accepts: what it has read is the padded encoding of its output.
LEMMA FinishReadingKeeps ==
  ASSUME HuffmanInv, H!FinishReading
  PROVE  HuffmanInv'
<1>1. /\ pc = "read" /\ pc' = "done" /\ Len(output) >= declared /\ H!OnlyPadding
      /\ UNCHANGED <<input, written, decoding, queue, lengths, declared, stream,
                     codes, current, at, read, prefix, output>>
  BY DEF H!FinishReading, H!Complete, H!file, H!table, H!reader
<1>2. /\ output \in Seq(Symbols) /\ Len(output) \in Nat /\ declared \in Nat
      /\ stream \in Seq({0, 1}) /\ Len(stream) \in Nat /\ read \in 0..Len(stream)
      /\ ByteBits \in Nat \ {0}
  BY SymbolFacts DEF HuffmanInv, H!TypeOK, H!Bit
<1>3. ReadOK
  BY <1>1 DEF HuffmanInv
<1>4. Len(output) = declared /\ prefix = <<>>
  BY <1>1, <1>2, <1>3 DEF ReadOK
<1>5. PICK F : F = H!FlattenSeq([i \in DOMAIN output |-> codes[output[i]]])
  OBVIOUS
<1>6. PICK r \in Nat : r = Len(stream) - read /\ r \in 0..ByteBits - 1
  BY <1>1, <1>2 DEF H!OnlyPadding
<1>7. SubSeq(stream, 1, read) \in Seq({0, 1}) /\ Len(SubSeq(stream, 1, read)) = read
      /\ \A i \in 1..read : SubSeq(stream, 1, read)[i] = stream[i]
  <2>1. \A i \in 1..read : stream[i] \in {0, 1} /\ 1 + i - 1 = i
    BY <1>2
  <2>2. 1 \in Int /\ read \in Int /\ read - 1 + 1 = read
    BY <1>2
  <2>3. /\ SubSeq(stream, 1, read) \in Seq({0, 1})
        /\ Len(SubSeq(stream, 1, read)) = IF 1 <= read THEN read - 1 + 1 ELSE 0
        /\ \A i \in 1..read - 1 + 1 : SubSeq(stream, 1, read)[i] = stream[1 + i - 1]
    BY ONLY <2>1, <2>2, SubSeqProperties
  <2>4. Len(SubSeq(stream, 1, read)) = read
    BY ONLY <1>2, <2>2, <2>3
  <2> QED
    BY ONLY <2>1, <2>2, <2>3, <2>4
<1>8. F = SubSeq(stream, 1, read)
  <2>1. SubSeq(stream, 1, read) = F \o <<>>
    BY <1>3, <1>4, <1>5 DEF ReadOK
  <2>2. F \in Seq({0, 1})
    <3>1. [i \in DOMAIN output |-> codes[output[i]]] \in Seq(Seq({0, 1}))
      <4>1. codes \in [Symbols -> Seq({0, 1})] /\ DOMAIN output = 1..Len(output)
        BY <1>2 DEF HuffmanInv, H!TypeOK, H!Bit
      <4>2. \A i \in 1..Len(output) : codes[output[i]] \in Seq({0, 1})
        BY <1>2, <4>1
      <4> QED
        BY <1>2, <4>1, <4>2
    <3> QED
      BY ONLY <1>5, <3>1, FlattenMore, <<>> \in Seq({0, 1})
  <2> QED
    BY ONLY <2>1, <2>2, ConcatEmptySeq
<1>9. (-read) % ByteBits = r
  <2>1. read \in Nat /\ read + r = Len(stream)
    BY <1>2, <1>6
  <2>2. (read + r) % ByteBits = 0
    BY <1>3, <2>1 DEF ReadOK, WholeBytes
  <2> QED
    BY ONLY <1>2, <1>6, <2>1, <2>2, PaddingFacts
<1>10. PICK z : z = [i \in 1..r |-> 0]
  OBVIOUS
<1>11. z \in Seq({0, 1}) /\ Len(z) = r /\ \A i \in 1..r : z[i] = 0
  BY <1>10
<1>12. /\ F \o z \in Seq({0, 1}) /\ Len(F \o z) = read + r
       /\ \A i \in 1..read + r : (F \o z)[i] = IF i <= read THEN F[i] ELSE z[i - read]
  <2>1. F \in Seq({0, 1}) /\ Len(F) = read
    BY ONLY <1>7, <1>8
  <2>2. /\ F \o z \in Seq({0, 1}) /\ Len(F \o z) = Len(F) + Len(z)
        /\ \A i \in 1..Len(F) + Len(z) : (F \o z)[i] = IF i <= Len(F) THEN F[i] ELSE z[i - Len(F)]
    BY ONLY <1>11, <2>1, ConcatProperties
  <2> QED
    BY ONLY <1>11, <2>1, <2>2
<1>13. stream = F \o z
  <2>1. Len(stream) = read + r
    BY <1>2, <1>6
  <2>2. ASSUME NEW i \in 1..Len(stream) PROVE stream[i] = (F \o z)[i]
    <3>1. i \in 1..read + r
      BY <2>1
    <3>2. CASE i <= read
      <4>1. i \in 1..read
        BY <1>2, <3>2
      <4> QED
        BY ONLY <1>7, <1>8, <1>12, <3>1, <3>2, <4>1
    <3>3. CASE ~(i <= read)
      <4>1. i \in read + 1..Len(stream) /\ i - read \in 1..r
        BY <1>2, <1>6, <3>3
      <4>2. stream[i] = 0
        BY <1>1, <4>1 DEF H!OnlyPadding
      <4> QED
        BY ONLY <1>11, <1>12, <3>1, <3>3, <4>1, <4>2
    <3> QED
      BY <3>2, <3>3
  <2> QED
    BY ONLY <1>2, <1>12, <2>1, <2>2, SeqEqual
<1>14. Len(F) = read
  BY ONLY <1>7, <1>8
<1>15. stream = H!Padding(F)
  BY <1>9, <1>10, <1>13, <1>14 DEF H!Padding
<1>16. H!AcceptedIsCanonical'
  <2>1. Len(output') = declared' /\ stream' = H!Padding(H!FlattenSeq([i \in DOMAIN output' |-> codes'[output'[i]]]))
    BY <1>1, <1>4, <1>5, <1>15
  <2> QED
    BY <2>1 DEF H!AcceptedIsCanonical, H!Padding
<1>17. H!TypeOK'
  BY <1>1 DEF HuffmanInv, H!TypeOK
<1>18. CodesOK'
  BY <1>1 DEF HuffmanInv, CodesOK, H!PrefixFree, H!Given
<1>19. ReadOK'
  BY <1>1, <1>3 DEF ReadOK, WholeBytes
<1> QED
  BY <1>1, <1>16, <1>17, <1>18, <1>19 DEF HuffmanInv

\* Every step of the Huffman codec keeps the invariant.
LEMMA HuffmanStep == HuffmanInv /\ H!Next => HuffmanInv'
BY MergeKeeps, TakeLengthsKeeps, AssignCodeKeeps, RefuseKeeps, StartReadingKeeps,
   WriteSymbolKeeps, FinishWritingKeeps, ReadBitKeeps, FinishReadingKeeps DEF H!Next

\* Nor does standing still break it.
LEMMA HuffmanStill == HuffmanInv /\ UNCHANGED H!vars => HuffmanInv'
<1> SUFFICES ASSUME HuffmanInv, UNCHANGED H!vars PROVE HuffmanInv'
  OBVIOUS
<1>1. UNCHANGED <<input, written, pc, decoding, queue, lengths, declared, stream,
                  codes, current, at, read, prefix, output>>
  BY DEF H!vars, H!file, H!table, H!reader
<1>2. H!TypeOK'
  BY <1>1 DEF HuffmanInv, H!TypeOK
<1>3. CodesOK'
  BY <1>1 DEF HuffmanInv, CodesOK, H!PrefixFree, H!Given
<1>4. H!AcceptedIsCanonical'
  BY <1>1 DEF HuffmanInv, H!AcceptedIsCanonical
<1>5. WholeBytes' = WholeBytes /\ ReadOK' = ReadOK
  BY <1>1 DEF WholeBytes, ReadOK
<1> QED
  BY <1>1, <1>2, <1>3, <1>4, <1>5 DEF HuffmanInv

-----------------------------------------------------------------------------
(* Sums over finite sets.                                                  *)

\* What holds of the empty set and of one element more holds of a finite set.
LEMMA FiniteInduction ==
  ASSUME NEW D, IsFiniteSet(D), NEW G, {} \in G,
         \A S \in SUBSET D : S \in G => \A x \in D \ S : S \cup {x} \in G
  PROVE  \A S \in SUBSET D : S \in G
<1> DEFINE Bad == {n \in Nat : \E S \in SUBSET D : S \notin G /\ Cardinality(S) = n}
<1>1. \A S \in SUBSET D : IsFiniteSet(S) /\ Cardinality(S) \in Nat
  BY FS_Subset, FS_CardinalityType
<1>2. SUFFICES ASSUME NEW S \in SUBSET D, S \notin G PROVE FALSE
  OBVIOUS
<1>3. Bad \in SUBSET Nat /\ Bad # {}
  BY <1>1, <1>2
<1>4. PICK n \in Bad : \A h \in Bad : n <= h
  <2> HIDE DEF Bad
  <2> QED
    BY <1>3, LeastNatural
<1>5. PICK T \in SUBSET D : T \notin G /\ Cardinality(T) = n
  OBVIOUS
<1>6. PICK x \in T : TRUE
  BY <1>5
<1>7. Cardinality(T \ {x}) = n - 1 /\ n - 1 \in Nat
  <2>1. IsFiniteSet(T) /\ T \ {x} \in SUBSET D
    BY <1>1, <1>5
  <2>2. Cardinality(T \ {x}) = Cardinality(T) - 1 /\ Cardinality(T \ {x}) \in Nat
    BY <1>1, <1>6, <2>1, FS_RemoveElement
  <2> QED
    BY <1>5, <2>2
<1>8. n - 1 \notin Bad
  BY <1>3, <1>4, <1>7
<1>9. T \ {x} \in G
  BY <1>7, <1>8
<1>10. (T \ {x}) \cup {x} = T /\ x \in D \ (T \ {x}) /\ T \ {x} \in SUBSET D
  OBVIOUS
<1>11. (T \ {x}) \cup {x} \in G
  BY <1>9, <1>10
<1> QED
  BY <1>5, <1>10, <1>11

\* The weights of the elements of a finite set.
Weights(w) == IsFiniteSet(DOMAIN w) /\ w \in [DOMAIN w -> Nat]
Chosen(S) == CHOOSE x \in S : TRUE
Summed(w, D, g) ==
  g = [S \in SUBSET D |-> IF S = {} THEN 0 ELSE w[Chosen(S)] + g[S \ {Chosen(S)}]]
\* The sum of the weights of the elements of a set.
Total(w, S) == (CHOOSE g : Summed(w, DOMAIN w, g))[S]

\* The recursion of such a sum has a solution.
LEMMA SummedExists ==
  ASSUME NEW w, Weights(w)
  PROVE  \E g : Summed(w, DOMAIN w, g) /\ g \in [SUBSET DOMAIN w -> Nat]
<1> DEFINE D == DOMAIN w
           Good(n) == \E g \in [SUBSET D -> Nat] : \A S \in SUBSET D : Cardinality(S) < n =>
                        g[S] = IF S = {} THEN 0 ELSE w[Chosen(S)] + g[S \ {Chosen(S)}]
           Bad == {n \in Nat : ~Good(n)}
<1>1. \A S \in SUBSET D : IsFiniteSet(S) /\ Cardinality(S) \in Nat
  BY FS_Subset, FS_CardinalityType DEF Weights
<1>2. \A S \in SUBSET D : S # {} => Chosen(S) \in S
  BY DEF Chosen
<1>3. ASSUME NEW n \in Nat, Good(n) PROVE Good(n + 1)
  <2>1. PICK g \in [SUBSET D -> Nat] : \A S \in SUBSET D : Cardinality(S) < n =>
               g[S] = IF S = {} THEN 0 ELSE w[Chosen(S)] + g[S \ {Chosen(S)}]
    BY <1>3
  <2> DEFINE h == [S \in SUBSET D |-> IF S = {} THEN 0 ELSE w[Chosen(S)] + g[S \ {Chosen(S)}]]
  <2>2. h \in [SUBSET D -> Nat]
    <3>1. ASSUME NEW S \in SUBSET D, S # {} PROVE w[Chosen(S)] + g[S \ {Chosen(S)}] \in Nat
      <4>1. Chosen(S) \in D /\ S \ {Chosen(S)} \in SUBSET D
        BY <1>2, <3>1
      <4>2. w[Chosen(S)] \in Nat /\ g[S \ {Chosen(S)}] \in Nat
        BY <2>1, <4>1 DEF Weights
      <4> QED
        BY <4>2
    <3> QED
      BY <3>1
  <2>3. ASSUME NEW S \in SUBSET D, Cardinality(S) < n + 1, S # {}
        PROVE  h[S] = w[Chosen(S)] + h[S \ {Chosen(S)}]
    <3>1. PICK T : T = S \ {Chosen(S)}
      OBVIOUS
    <3>2. Chosen(S) \in S /\ T \in SUBSET D
      BY <1>2, <2>3, <3>1
    <3>3. Cardinality(T) = Cardinality(S) - 1 /\ Cardinality(T) \in Nat /\ Cardinality(S) \in Nat
      BY <1>1, <3>1, <3>2, FS_RemoveElement
    <3>4. Cardinality(T) < n
      BY <2>3, <3>3
    <3>5. g[T] = IF T = {} THEN 0 ELSE w[Chosen(T)] + g[T \ {Chosen(T)}]
      BY <2>1, <3>2, <3>4
    <3>6. h[T] = g[T]
      BY <3>2, <3>5
    <3>7. h[S] = w[Chosen(S)] + g[T]
      BY <2>3, <3>1
    <3> QED
      BY <3>1, <3>6, <3>7
  <2>4. \A S \in SUBSET D : S = {} => h[S] = 0
    OBVIOUS
  <2> HIDE DEF h
  <2> QED
    BY <2>2, <2>3, <2>4
<1>4. Good(0)
  <2> DEFINE z == [S \in SUBSET D |-> 0]
  <2>1. z \in [SUBSET D -> Nat]
    OBVIOUS
  <2>2. \A S \in SUBSET D : ~(Cardinality(S) < 0)
    BY <1>1
  <2> HIDE DEF z
  <2> QED
    BY <2>1, <2>2
<1>5. \A n \in Nat : Good(n)
  <2> SUFFICES ASSUME Bad # {} PROVE FALSE
    OBVIOUS
  <2>1. Bad \in SUBSET Nat
    OBVIOUS
  <2>2. PICK n \in Bad : \A h \in Bad : n <= h
    <3> HIDE DEF Bad
    <3> QED
      BY <2>1, LeastNatural
  <2>3. ~Good(n) /\ n \in Nat
    OBVIOUS
  <2> HIDE DEF Good
  <2>4. n # 0
    BY <1>4, <2>3
  <2>5. n - 1 \in Nat /\ ~(n <= n - 1)
    BY <2>3, <2>4
  <2>6. n - 1 \notin Bad
    BY <2>2, <2>5
  <2>7. Good(n - 1)
    BY <2>5, <2>6
  <2>8. Good(n - 1 + 1) /\ n - 1 + 1 = n
    BY <1>3, <2>5, <2>7
  <2> QED
    BY <2>3, <2>8
<1>6. PICK n \in Nat : n = Cardinality(D) + 1
  BY <1>1
<1>7. \A S \in SUBSET D : Cardinality(S) < n
  <2> SUFFICES ASSUME NEW S \in SUBSET D PROVE Cardinality(S) < n
    OBVIOUS
  <2>1. IsFiniteSet(D)
    BY DEF Weights
  <2>2. Cardinality(S) <= Cardinality(D) /\ Cardinality(S) \in Nat /\ Cardinality(D) \in Nat
    BY <1>1, <2>1, FS_Subset
  <2> QED
    BY <1>6, <2>2
<1>8. PICK g \in [SUBSET D -> Nat] : \A S \in SUBSET D :
               g[S] = IF S = {} THEN 0 ELSE w[Chosen(S)] + g[S \ {Chosen(S)}]
  BY <1>5, <1>7
<1>9. Summed(w, D, g)
  BY <1>8 DEF Summed
<1> QED
  BY <1>8, <1>9

\* There is only one.
LEMMA SummedOnce ==
  ASSUME NEW w, Weights(w), NEW g, NEW h, Summed(w, DOMAIN w, g), Summed(w, DOMAIN w, h)
  PROVE  g = h
<1> DEFINE D == DOMAIN w
           Bad == {n \in Nat : \E S \in SUBSET D : g[S] # h[S] /\ Cardinality(S) = n}
<1>1. \A S \in SUBSET D : IsFiniteSet(S) /\ Cardinality(S) \in Nat
  BY FS_Subset, FS_CardinalityType DEF Weights
<1>2. /\ \A S \in SUBSET D : g[S] = IF S = {} THEN 0 ELSE w[Chosen(S)] + g[S \ {Chosen(S)}]
      /\ \A S \in SUBSET D : h[S] = IF S = {} THEN 0 ELSE w[Chosen(S)] + h[S \ {Chosen(S)}]
  <2>1. g = [S \in SUBSET D |-> IF S = {} THEN 0 ELSE w[Chosen(S)] + g[S \ {Chosen(S)}]]
    BY DEF Summed
  <2>2. h = [S \in SUBSET D |-> IF S = {} THEN 0 ELSE w[Chosen(S)] + h[S \ {Chosen(S)}]]
    BY DEF Summed
  <2> QED
    BY ONLY <2>1, <2>2, Zenon
<1>3. Bad = {}
  <2> SUFFICES ASSUME Bad # {} PROVE FALSE
    OBVIOUS
  <2>1. Bad \in SUBSET Nat
    OBVIOUS
  <2>2. PICK n \in Bad : \A k \in Bad : n <= k
    <3> HIDE DEF Bad
    <3> QED
      BY <2>1, LeastNatural
  <2>3. PICK S \in SUBSET D : g[S] # h[S] /\ Cardinality(S) = n
    OBVIOUS
  <2>4. S # {}
    BY <1>2, <2>3
  <2>5. PICK T : T = S \ {Chosen(S)}
    OBVIOUS
  <2>6. Chosen(S) \in S /\ T \in SUBSET D
    BY <2>4, <2>5 DEF Chosen
  <2>7. Cardinality(T) = n - 1 /\ Cardinality(T) \in Nat
    BY <1>1, <2>3, <2>5, <2>6, FS_RemoveElement
  <2>8. n \in Nat /\ ~(n <= Cardinality(T))
    BY <2>1, <2>7
  <2>9. g[T] = h[T]
    BY <2>2, <2>6, <2>7, <2>8
  <2> QED
    BY <1>2, <2>3, <2>4, <2>5, <2>9
<1>4. \A S \in SUBSET D : g[S] = h[S]
  BY <1>1, <1>3
<1> QED
  <2>1. g = [S \in SUBSET D |-> IF S = {} THEN 0 ELSE w[Chosen(S)] + g[S \ {Chosen(S)}]]
    BY DEF Summed
  <2>2. h = [S \in SUBSET D |-> IF S = {} THEN 0 ELSE w[Chosen(S)] + h[S \ {Chosen(S)}]]
    BY DEF Summed
  <2>3. g = [S \in SUBSET D |-> g[S]] /\ h = [S \in SUBSET D |-> h[S]]
    BY ONLY <2>1, <2>2, <1>2, Zenon
  <2> QED
    BY ONLY <1>4, <2>3, Zenon

\* The sum is a number, and the order in which it is taken does not matter.
LEMMA TotalFacts ==
  ASSUME NEW w, Weights(w)
  PROVE  /\ Total(w, {}) = 0
         /\ \A S \in SUBSET DOMAIN w : Total(w, S) \in Nat
         /\ \A S \in SUBSET DOMAIN w : \A x \in DOMAIN w \ S :
              Total(w, S \cup {x}) = Total(w, S) + w[x]
<1>1. PICK g : g = CHOOSE h : Summed(w, DOMAIN w, h)
  OBVIOUS
<1>2. Summed(w, DOMAIN w, g) /\ g \in [SUBSET DOMAIN w -> Nat]
  BY <1>1, SummedExists, SummedOnce
<1>3. \A S : Total(w, S) = g[S]
  BY <1>1 DEF Total
<1> DEFINE D == DOMAIN w
<1>4. \A S \in SUBSET D : g[S] = IF S = {} THEN 0 ELSE w[Chosen(S)] + g[S \ {Chosen(S)}]
  <2>1. g = [S \in SUBSET D |-> IF S = {} THEN 0 ELSE w[Chosen(S)] + g[S \ {Chosen(S)}]]
    BY <1>2 DEF Summed
  <2> QED
    BY ONLY <2>1, Zenon
<1> DEFINE Bad == {n \in Nat : \E S \in SUBSET D : \E x \in D \ S :
                     g[S \cup {x}] # g[S] + w[x] /\ Cardinality(S) = n}
<1>5. \A S \in SUBSET D : IsFiniteSet(S) /\ Cardinality(S) \in Nat
  BY FS_Subset, FS_CardinalityType DEF Weights
<1>6. Bad = {}
  <2> SUFFICES ASSUME Bad # {} PROVE FALSE
    OBVIOUS
  <2>1. Bad \in SUBSET Nat
    OBVIOUS
  <2>2. PICK n \in Bad : \A k \in Bad : n <= k
    <3> HIDE DEF Bad
    <3> QED
      BY <2>1, LeastNatural
  <2>03. PICK S \in SUBSET D : \E x \in D \ S : g[S \cup {x}] # g[S] + w[x] /\ Cardinality(S) = n
    OBVIOUS
  <2>3. PICK x \in D \ S : g[S \cup {x}] # g[S] + w[x] /\ Cardinality(S) = n
    BY <2>03
  <2>4. PICK T \in SUBSET D : T = S \cup {x} /\ T # {}
    BY <2>3
  <2>5. PICK y : y = Chosen(T)
    OBVIOUS
  <2>6. y \in T /\ g[T] = w[y] + g[T \ {y}]
    BY <1>4, <2>4, <2>5 DEF Chosen
  <2>7. \A z \in D : w[z] \in Nat
    BY DEF Weights
  <2>8. CASE y = x
    <3>1. T \ {y} = S
      BY <2>4, <2>8
    <3>2. g[S] \in Nat /\ w[x] \in Nat
      BY <1>2, <2>3, <2>7
    <3>3. g[T] = w[x] + g[S]
      BY <2>6, <2>8, <3>1
    <3>4. g[T] # g[S] + w[x]
      BY <2>3, <2>4
    <3> QED
      BY ONLY <3>2, <3>3, <3>4
  <2>9. CASE y # x
    <3>1. PICK Others \in SUBSET D : Others = S \ {y} /\ y \in S
      BY <2>4, <2>6, <2>9
    <3>2. /\ Others \cup {y} = S /\ Others \cup {x} = T \ {y} /\ y \in D \ Others /\ x \in D \ Others
      BY <2>4, <2>9, <3>1
    <3>3. Cardinality(Others) = n - 1 /\ Cardinality(Others) \in Nat
      BY <1>5, <2>3, <3>1, FS_RemoveElement
    <3>4. n \in Nat /\ ~(n <= Cardinality(Others))
      BY <2>1, <3>3
    <3>5. Cardinality(Others) \notin Bad
      BY <2>2, <3>4
    <3>6. g[Others \cup {y}] = g[Others] + w[y] /\ g[Others \cup {x}] = g[Others] + w[x]
      BY <3>2, <3>3, <3>5
    <3>7. g[Others] \in Nat /\ w[x] \in Nat /\ w[y] \in Nat
      BY <1>2, <2>7, <3>2
    <3>8. g[S] = g[Others] + w[y] /\ g[T] = w[y] + (g[Others] + w[x])
      BY <2>6, <3>2, <3>6
    <3> QED
      BY <2>3, <2>4, <3>7, <3>8
  <2> QED
    BY <2>8, <2>9
<1>7. \A S \in SUBSET D : \A x \in D \ S : g[S \cup {x}] = g[S] + w[x]
  BY <1>5, <1>6
<1>8. g[{}] = 0
  BY <1>4
<1> QED
  BY <1>2, <1>3, <1>7, <1>8

\* Weights of the elements of a set, as a function of its own.
LEMMA WeightsOf ==
  ASSUME NEW D, IsFiniteSet(D), NEW w \in [D -> Nat]
  PROVE  Weights(w) /\ DOMAIN w = D
BY DEF Weights

\* Sums are linear.
LEMMA TotalLinear ==
  ASSUME NEW w, Weights(w), NEW v, Weights(v), NEW u, Weights(u), NEW k \in Nat,
         NEW S \in SUBSET DOMAIN w, S \in SUBSET DOMAIN v, S \in SUBSET DOMAIN u,
         \A x \in S : u[x] = k * w[x] + v[x]
  PROVE  Total(u, S) = k * Total(w, S) + Total(v, S)
<1> DEFINE G == {T \in SUBSET S : Total(u, T) = k * Total(w, T) + Total(v, T)}
<1>1. IsFiniteSet(S)
  BY FS_Subset DEF Weights
<1>2. {} \in G
  <2>1. Total(u, {}) = 0 /\ Total(w, {}) = 0 /\ Total(v, {}) = 0
    BY TotalFacts
  <2> QED
    BY <2>1
<1>3. ASSUME NEW T \in SUBSET S, T \in G, NEW x \in S \ T PROVE T \cup {x} \in G
  <2>1. /\ Total(u, T \cup {x}) = Total(u, T) + u[x]
        /\ Total(w, T \cup {x}) = Total(w, T) + w[x]
        /\ Total(v, T \cup {x}) = Total(v, T) + v[x]
    <3>1. /\ T \in SUBSET DOMAIN u /\ x \in DOMAIN u \ T
          /\ T \in SUBSET DOMAIN w /\ x \in DOMAIN w \ T
          /\ T \in SUBSET DOMAIN v /\ x \in DOMAIN v \ T
      OBVIOUS
    <3> QED
      BY <3>1, TotalFacts
  <2>2. PICK a \in Nat, b \in Nat, c \in Nat, d \in Nat, e \in Nat :
          a = Total(w, T) /\ b = Total(v, T) /\ c = w[x] /\ d = v[x] /\ e = k
    <3>1. Total(w, T) \in Nat /\ Total(v, T) \in Nat
      BY TotalFacts
    <3>2. w[x] \in Nat /\ v[x] \in Nat
      BY DEF Weights
    <3> QED
      BY <3>1, <3>2
  <2>3. Total(u, T) = k * a + b /\ u[x] = k * c + d
    BY <1>3, <2>2
  <2>4. k * (a + c) = k * a + k * c /\ k * a \in Nat /\ k * c \in Nat
    BY ONLY <2>2, k \in Nat
  <2>5. Total(u, T \cup {x}) = k * (a + c) + (b + d)
    BY ONLY <2>1, <2>2, <2>3, <2>4
  <2>6. Total(w, T \cup {x}) = a + c /\ Total(v, T \cup {x}) = b + d
    BY ONLY <2>1, <2>2
  <2> QED
    BY <2>5, <2>6
<1> HIDE DEF G
<1>4. \A T \in SUBSET S : T \in G
  BY ONLY <1>1, <1>2, <1>3, FiniteInduction
<1>5. S \in G
  BY <1>4
<1> QED
  BY <1>5 DEF G

\* Sums of the same weights are the same.
LEMMA TotalSame ==
  ASSUME NEW w, Weights(w), NEW u, Weights(u), NEW S \in SUBSET DOMAIN w, S \in SUBSET DOMAIN u,
         \A x \in S : u[x] = w[x]
  PROVE  Total(u, S) = Total(w, S)
<1>1. \A x \in S : u[x] = 0 * w[x] + w[x]
  BY DEF Weights
<1>2. Total(u, S) = 0 * Total(w, S) + Total(w, S)
  BY ONLY <1>1, TotalLinear, Weights(w), Weights(u), S \in SUBSET DOMAIN w, S \in SUBSET DOMAIN u, 0 \in Nat
<1>3. Total(w, S) \in Nat
  BY TotalFacts
<1> QED
  BY <1>2, <1>3

\* A sum of zeros.
LEMMA TotalZero ==
  ASSUME NEW w, Weights(w), NEW S \in SUBSET DOMAIN w, \A x \in S : w[x] = 0
  PROVE  Total(w, S) = 0
<1>1. \A x \in S : w[x] = 1 * w[x] + w[x]
  OBVIOUS
<1>2. Total(w, S) = 1 * Total(w, S) + Total(w, S)
  BY ONLY <1>1, TotalLinear, Weights(w), S \in SUBSET DOMAIN w, 1 \in Nat
<1>3. PICK a \in Nat : a = Total(w, S)
  BY TotalFacts
<1>4. a = 1 * a + a
  BY ONLY <1>2, <1>3, Zenon
<1>5. a = 0
  BY ONLY <1>4, a \in Nat
<1> QED
  BY ONLY <1>3, <1>5

\* The sum over two sets without a common element.
LEMMA TotalUnion ==
  ASSUME NEW w, Weights(w), NEW S \in SUBSET DOMAIN w, NEW Others \in SUBSET DOMAIN w, S \cap Others = {}
  PROVE  Total(w, S \cup Others) = Total(w, S) + Total(w, Others)
<1> DEFINE G == {T \in SUBSET Others : Total(w, S \cup T) = Total(w, S) + Total(w, T)}
<1>1. IsFiniteSet(Others)
  BY FS_Subset DEF Weights
<1>0. \A T \in SUBSET DOMAIN w : Total(w, T) \in Nat
  BY TotalFacts
<1>2. {} \in G
  <2>1. Total(w, {}) = 0 /\ S \cup {} = S
    BY TotalFacts
  <2> QED
    BY <1>0, <2>1
<1>3. ASSUME NEW T \in SUBSET Others, T \in G, NEW x \in Others \ T PROVE T \cup {x} \in G
  <2>1. /\ S \cup T \in SUBSET DOMAIN w /\ T \in SUBSET DOMAIN w
        /\ x \in DOMAIN w \ (S \cup T) /\ x \in DOMAIN w \ T
        /\ S \cup (T \cup {x}) = (S \cup T) \cup {x}
    OBVIOUS
  <2>2. /\ Total(w, (S \cup T) \cup {x}) = Total(w, S \cup T) + w[x]
        /\ Total(w, T \cup {x}) = Total(w, T) + w[x]
    BY <2>1, TotalFacts
  <2>3. Total(w, S) \in Nat /\ Total(w, T) \in Nat /\ w[x] \in Nat
    BY <1>0, <2>1 DEF Weights
  <2>4. Total(w, S \cup T) = Total(w, S) + Total(w, T)
    BY <1>3
  <2>5. Total(w, S \cup (T \cup {x})) = Total(w, S) + Total(w, T \cup {x})
    <3>1. PICK a \in Nat, b \in Nat, c \in Nat : a = Total(w, S) /\ b = Total(w, T) /\ c = w[x]
      BY <2>3
    <3>2. Total(w, S \cup (T \cup {x})) = (a + b) + c /\ Total(w, T \cup {x}) = b + c
      BY ONLY <2>1, <2>2, <2>4, <3>1, Zenon
    <3>3. (a + b) + c = a + (b + c)
      BY ONLY <3>1
    <3> QED
      BY ONLY <3>1, <3>2, <3>3, Zenon
  <2>6. T \cup {x} \in SUBSET Others
    OBVIOUS
  <2> QED
    BY <2>5, <2>6
<1> HIDE DEF G
<1>4. \A T \in SUBSET Others : T \in G
  BY ONLY <1>1, <1>2, <1>3, FiniteInduction
<1>5. Others \in G
  BY <1>4
<1> QED
  BY <1>5 DEF G

\* Greater weights have a greater sum.
LEMMA TotalMono ==
  ASSUME NEW w, Weights(w), NEW v, Weights(v), NEW S \in SUBSET DOMAIN w, S \in SUBSET DOMAIN v,
         \A x \in S : w[x] <= v[x]
  PROVE  Total(w, S) <= Total(v, S)
<1> DEFINE G == {T \in SUBSET S : Total(w, T) <= Total(v, T)}
<1>1. IsFiniteSet(S)
  BY FS_Subset DEF Weights
<1>2. {} \in G
  <2>1. Total(w, {}) = 0 /\ Total(v, {}) = 0
    BY TotalFacts
  <2> QED
    BY <2>1
<1>3. ASSUME NEW T \in SUBSET S, T \in G, NEW x \in S \ T PROVE T \cup {x} \in G
  <2>1. /\ T \in SUBSET DOMAIN w /\ x \in DOMAIN w \ T
        /\ T \in SUBSET DOMAIN v /\ x \in DOMAIN v \ T
    OBVIOUS
  <2>2. /\ Total(w, T \cup {x}) = Total(w, T) + w[x] /\ Total(w, T) \in Nat
        /\ Total(v, T \cup {x}) = Total(v, T) + v[x] /\ Total(v, T) \in Nat
    BY <2>1, TotalFacts
  <2>3. w[x] \in Nat /\ v[x] \in Nat /\ w[x] <= v[x]
    BY <2>1 DEF Weights
  <2>4. Total(w, T) <= Total(v, T)
    BY <1>3
  <2>5. Total(w, T \cup {x}) <= Total(v, T \cup {x})
    BY ONLY <2>2, <2>3, <2>4
  <2> QED
    BY <2>5
<1> HIDE DEF G
<1>4. \A T \in SUBSET S : T \in G
  BY ONLY <1>1, <1>2, <1>3, FiniteInduction
<1>5. S \in G
  BY <1>4
<1> QED
  BY <1>5 DEF G

\* A part of a set has a part of its sum.
LEMMA TotalPart ==
  ASSUME NEW w, Weights(w), NEW S \in SUBSET DOMAIN w, NEW Others \in SUBSET S
  PROVE  Total(w, Others) <= Total(w, S)
<1>1. /\ S \ Others \in SUBSET DOMAIN w /\ Others \in SUBSET DOMAIN w /\ Others \cap (S \ Others) = {}
      /\ Others \cup (S \ Others) = S
  OBVIOUS
<1>2. Total(w, Others \cup (S \ Others)) = Total(w, Others) + Total(w, S \ Others)
  BY <1>1, TotalUnion
<1>3. PICK a \in Nat, b \in Nat : a = Total(w, Others) /\ b = Total(w, S \ Others)
  BY <1>1, TotalFacts
<1>4. Total(w, S) = a + b
  BY ONLY <1>1, <1>2, <1>3, Zenon
<1> QED
  BY ONLY <1>3, <1>4

-----------------------------------------------------------------------------
(* Powers of two.                                                          *)

\* The powers of two.
LEMMA Powers ==
  /\ 2 ^ 0 = 1
  /\ \A n \in Nat : 2 ^ n \in Nat /\ 2 ^ n >= 1 /\ 2 ^ (n + 1) = 2 * 2 ^ n
<1>1. 2 ^ 0 = 1
  OBVIOUS
<1>2. ASSUME NEW n \in Nat
      PROVE  /\ IsFiniteSet(SUBSET (1..n)) /\ Cardinality(SUBSET (1..n)) = 2 ^ n
             /\ 2 ^ n \in Nat /\ 2 ^ n >= 1
  <2>1. IsFiniteSet(1..n) /\ Cardinality(1..n) = n
    BY FS_Interval
  <2>2. IsFiniteSet(SUBSET (1..n)) /\ Cardinality(SUBSET (1..n)) = 2 ^ n
    BY <2>1, FS_SUBSET
  <2>3. Cardinality(SUBSET (1..n)) \in Nat
    BY <2>2, FS_CardinalityType
  <2>4. Cardinality(SUBSET (1..n)) # 0
    <3>1. SUBSET (1..n) # {}
      OBVIOUS
    <3> QED
      BY <2>2, <3>1, FS_EmptySet
  <2> QED
    BY <2>2, <2>3, <2>4
<1>3. ASSUME NEW n \in Nat PROVE 2 ^ (n + 1) = 2 * 2 ^ n
  <2> DEFINE Low == SUBSET (1..n)
             B == {T \in SUBSET (1..n + 1) : n + 1 \in T}
             f == [T \in Low |-> T \cup {n + 1}]
  <2>1. IsFiniteSet(Low) /\ Cardinality(Low) = 2 ^ n /\ 2 ^ n \in Nat
    BY <1>2
  <2>2. ExistsBijection(Low, B)
    <3>1. n + 1 \notin 1..n /\ 1..n + 1 = (1..n) \cup {n + 1}
      OBVIOUS
    <3>2. f \in [Low -> B]
      BY <3>1
    <3>3. ASSUME NEW S \in Low, NEW T \in Low, f[S] = f[T] PROVE S = T
      BY <3>1, <3>3
    <3>4. ASSUME NEW T \in B PROVE \E S \in Low : f[S] = T
      <4>1. T \ {n + 1} \in Low /\ f[T \ {n + 1}] = T
        BY <3>1
      <4> QED
        BY <4>1
    <3>5. f \in Bijection(Low, B)
      <4> HIDE DEF f, Low, B
      <4> QED
        BY <3>2, <3>3, <3>4 DEF Bijection, Injection, Surjection, IsInjective
    <3> QED
      BY <3>5 DEF ExistsBijection
  <2>3. IsFiniteSet(B) /\ Cardinality(B) = Cardinality(Low)
    BY <2>1, <2>2, FS_Bijection
  <2>4. Low \cap B = {} /\ Low \cup B = SUBSET (1..n + 1)
    <3>1. n + 1 \notin 1..n /\ 1..n + 1 = (1..n) \cup {n + 1}
      OBVIOUS
    <3>2. Low \cap B = {}
      BY <3>1
    <3>3. \A T \in SUBSET (1..n + 1) : T \in Low \/ T \in B
      BY <3>1
    <3> QED
      BY <3>1, <3>2, <3>3
  <2>5. Cardinality(Low \cup B) = Cardinality(Low) + Cardinality(B) - Cardinality(Low \cap B)
    <3> HIDE DEF Low, B
    <3> QED
      BY <2>1, <2>3, FS_Union
  <2>6. Cardinality(Low \cap B) = 0
    BY <2>4, FS_EmptySet
  <2>7. Cardinality(Low \cup B) = 2 ^ (n + 1)
    BY <1>2, <2>4
  <2> HIDE DEF Low, B
  <2> QED
    BY <2>1, <2>3, <2>5, <2>6, <2>7
<1> QED
  BY <1>1, <1>2, <1>3

\* The power of a sum.
LEMMA PowerSum ==
  ASSUME NEW m \in Nat, NEW n \in Nat
  PROVE  2 ^ (m + n) = 2 ^ m * 2 ^ n
<1> DEFINE Bad == {k \in Nat : 2 ^ (m + k) # 2 ^ m * 2 ^ k}
<1>1. SUFFICES ASSUME Bad # {} PROVE FALSE
  OBVIOUS
<1>2. Bad \in SUBSET Nat
  OBVIOUS
<1>3. PICK k \in Bad : \A h \in Bad : k <= h
  <2> HIDE DEF Bad
  <2> QED
    BY <1>1, <1>2, LeastNatural
<1>4. k \in Nat /\ 2 ^ (m + k) # 2 ^ m * 2 ^ k
  OBVIOUS
<1>5. PICK p \in Nat : p = 2 ^ m
  BY Powers
<1>6. k # 0
  <2>1. 2 ^ 0 = 1 /\ m + 0 = m /\ p * 1 = p
    BY Powers
  <2>2. 2 ^ (m + 0) = 2 ^ m * 2 ^ 0
    BY ONLY <1>5, <2>1, Zenon
  <2> QED
    BY <1>4, <2>2
<1>7. PICK h \in Nat : k = h + 1 /\ h \notin Bad
  <2>1. k - 1 \in Nat /\ ~(k <= k - 1) /\ k = (k - 1) + 1
    BY <1>4, <1>6
  <2> QED
    BY <1>3, <2>1
<1>8. 2 ^ (m + h) = p * 2 ^ h
  BY <1>5, <1>7
<1>9. /\ 2 ^ (h + 1) = 2 * 2 ^ h /\ 2 ^ h \in Nat
      /\ 2 ^ ((m + h) + 1) = 2 * 2 ^ (m + h) /\ m + k = (m + h) + 1
  BY <1>7, Powers
<1>10. PICK q \in Nat : q = 2 ^ h
  BY <1>9
<1>11. p * (2 * q) = 2 * (p * q)
  BY ONLY <1>5, <1>10
<1> QED
  BY <1>4, <1>5, <1>7, <1>8, <1>9, <1>10, <1>11

-----------------------------------------------------------------------------
(* The number a code is written for.                                       *)

Places2(c) == [i \in 1..Len(c) |-> c[i] * 2 ^ (Len(c) - i)]
Value(c) == Total(Places2(c), 1..Len(c))

\* The places of a code are natural numbers.
LEMMA PlacesFacts ==
  ASSUME NEW c \in Seq({0, 1})
  PROVE  /\ Weights(Places2(c)) /\ DOMAIN Places2(c) = 1..Len(c) /\ Len(c) \in Nat
         /\ \A i \in 1..Len(c) : c[i] \in {0, 1} /\ Len(c) - i \in Nat /\ 2 ^ (Len(c) - i) \in Nat
                                 /\ Places2(c)[i] = c[i] * 2 ^ (Len(c) - i)
         /\ Value(c) \in Nat
<1>1. Len(c) \in Nat /\ \A i \in 1..Len(c) : c[i] \in {0, 1} /\ Len(c) - i \in Nat
  OBVIOUS
<1>2. \A i \in 1..Len(c) : 2 ^ (Len(c) - i) \in Nat
  BY <1>1, Powers
<1>3. ASSUME NEW i \in 1..Len(c) PROVE c[i] * 2 ^ (Len(c) - i) \in Nat
  <2>1. PICK a \in Nat, b \in Nat : a = c[i] /\ b = 2 ^ (Len(c) - i)
    BY <1>1, <1>2
  <2>2. a * b \in Nat
    OBVIOUS
  <2> QED
    BY ONLY <2>1, <2>2, Zenon
<1>4. Places2(c) \in [1..Len(c) -> Nat]
  BY <1>3 DEF Places2
<1>5. IsFiniteSet(1..Len(c))
  BY <1>1, FS_Interval
<1>6. Weights(Places2(c)) /\ DOMAIN Places2(c) = 1..Len(c)
  BY ONLY <1>4, <1>5, WeightsOf
<1>7. Value(c) \in Nat
  BY <1>6, TotalFacts DEF Value
<1> QED
  BY <1>1, <1>2, <1>6, <1>7 DEF Places2

\* The ones at the end of a code.
LEMMA TailOnes ==
  ASSUME NEW m \in Nat, NEW w, Weights(w), DOMAIN w = 1..m, NEW j \in 0..m,
         \A i \in j + 1..m : w[i] = 2 ^ (m - i)
  PROVE  Total(w, j + 1..m) + 1 = 2 ^ (m - j)
<1> DEFINE Good(k) == Total(w, (m - k) + 1..m) + 1 = 2 ^ k
           Bad == {k \in 0..m - j : ~Good(k)}
<1>1. SUFFICES Bad = {}
  <2>1. m - j \in 0..m - j /\ m - (m - j) = j
    OBVIOUS
  <2>2. Good(m - j)
    BY <1>1, <2>1
  <2> QED
    BY <2>1, <2>2
<1>2. SUFFICES ASSUME Bad # {} PROVE FALSE
  OBVIOUS
<1>3. Bad \in SUBSET Nat
  OBVIOUS
<1>4. PICK k \in Bad : \A h \in Bad : k <= h
  <2> HIDE DEF Bad
  <2> QED
    BY <1>2, <1>3, LeastNatural
<1>5. k \in 0..m - j /\ ~Good(k)
  OBVIOUS
<1>6. k # 0
  <2>1. (m - 0) + 1..m = {}
    OBVIOUS
  <2>2. Total(w, {}) = 0
    BY TotalFacts
  <2>3. Good(0)
    BY <2>1, <2>2, Powers
  <2> QED
    BY <1>5, <2>3
<1>7. PICK h \in Nat : k = h + 1 /\ h \in 0..m - j /\ h \notin Bad
  <2>1. k - 1 \in 0..m - j /\ ~(k <= k - 1) /\ k = (k - 1) + 1 /\ k - 1 \in Nat
    BY <1>5, <1>6
  <2> QED
    BY <1>4, <2>1
<1>8. Total(w, (m - h) + 1..m) + 1 = 2 ^ h
  BY <1>7
<1>9. PICK T : T = (m - h) + 1..m
  OBVIOUS
<1>10. /\ (m - k) + 1..m = T \cup {m - h} /\ T \in SUBSET DOMAIN w /\ m - h \in DOMAIN w \ T
       /\ m - h \in j + 1..m /\ m - (m - h) = h
  BY <1>5, <1>7, <1>9
<1>11. Total(w, T \cup {m - h}) = Total(w, T) + w[m - h] /\ Total(w, T) \in Nat
  BY <1>10, TotalFacts
<1>12. w[m - h] = 2 ^ h /\ 2 ^ h \in Nat /\ 2 ^ (h + 1) = 2 * 2 ^ h
  BY <1>10, Powers
<1>13. Total(w, T \cup {m - h}) + 1 = 2 * 2 ^ h
  <2>1. PICK a \in Nat, b \in Nat : a = Total(w, T) /\ b = 2 ^ h
    BY <1>11, <1>12
  <2>2. Total(w, T \cup {m - h}) = a + b /\ a + 1 = b
    BY <1>8, <1>9, <1>11, <1>12, <2>1
  <2> QED
    BY ONLY <2>1, <2>2
<1>14. Good(k)
  BY <1>7, <1>10, <1>12, <1>13
<1> QED
  BY <1>5, <1>14

\* The greatest code of a length.
LEMMA ValueBound ==
  ASSUME NEW c \in Seq({0, 1})
  PROVE  Value(c) + 1 <= 2 ^ Len(c) /\ (H!AllOnes(c) => Value(c) + 1 = 2 ^ Len(c))
<1>1. PICK m \in Nat : m = Len(c)
  OBVIOUS
<1>2. PICK w : w = Places2(c)
  OBVIOUS
<1>3. /\ Weights(w) /\ DOMAIN w = 1..m /\ Value(c) = Total(w, 1..m)
      /\ \A i \in 1..m : c[i] \in {0, 1} /\ m - i \in Nat /\ 2 ^ (m - i) \in Nat
                         /\ w[i] = c[i] * 2 ^ (m - i)
  BY <1>1, <1>2, PlacesFacts DEF Value
<1>4. PICK o : o = [i \in 1..m |-> 2 ^ (m - i)]
  OBVIOUS
<1>5. o \in [1..m -> Nat]
  BY <1>3, <1>4
<1>6. IsFiniteSet(1..m)
  BY FS_Interval
<1>7. Weights(o) /\ DOMAIN o = 1..m
  BY ONLY <1>5, <1>6, WeightsOf
<1>8. Total(o, 1..m) + 1 = 2 ^ m
  <2>1. 0 \in 0..m /\ 0 + 1 = 1 /\ m - 0 = m /\ \A i \in 0 + 1..m : o[i] = 2 ^ (m - i)
    BY <1>4
  <2>2. Total(o, 0 + 1..m) + 1 = 2 ^ (m - 0)
    BY ONLY <1>7, <2>1, TailOnes, m \in Nat
  <2> QED
    BY <2>1, <2>2
<1>9. \A i \in 1..m : w[i] <= o[i]
  <2> SUFFICES ASSUME NEW i \in 1..m PROVE w[i] <= o[i]
    OBVIOUS
  <2>1. PICK b \in Nat : b = 2 ^ (m - i)
    BY <1>3
  <2>2. w[i] = c[i] * b /\ o[i] = b /\ c[i] \in {0, 1}
    BY <1>3, <1>4, <2>1
  <2>3. 0 * b <= b /\ 1 * b <= b
    OBVIOUS
  <2> QED
    BY ONLY <2>2, <2>3
<1>10. 1..m \in SUBSET DOMAIN w /\ 1..m \in SUBSET DOMAIN o
  BY <1>3, <1>7
<1>11. Total(w, 1..m) <= Total(o, 1..m) /\ Total(w, 1..m) \in Nat /\ Total(o, 1..m) \in Nat
  BY <1>3, <1>7, <1>9, <1>10, TotalMono, TotalFacts
<1>12. ASSUME H!AllOnes(c) PROVE Value(c) + 1 = 2 ^ m
  <2>1. \A i \in 1..m : c[i] = 1
    BY <1>1, <1>12 DEF H!AllOnes
  <2>2. ASSUME NEW i \in 1..m PROVE o[i] = w[i]
    <3>1. PICK b \in Nat : b = 2 ^ (m - i)
      BY <1>3
    <3>2. w[i] = 1 * b /\ o[i] = b
      BY <1>3, <1>4, <2>1, <3>1
    <3> QED
      BY ONLY <3>1, <3>2
  <2>3. Total(o, 1..m) = Total(w, 1..m)
    BY ONLY <1>3, <1>7, <1>10, <2>2, TotalSame
  <2> QED
    BY <1>3, <1>8, <2>3
<1> QED
  BY <1>1, <1>3, <1>8, <1>11, <1>12

\* The successor changes the last zero and what follows it.
LEMMA SuccessorIs ==
  ASSUME NEW c \in Seq({0, 1}), ~H!AllOnes(c)
  PROVE  \E p \in 1..Len(c) :
           /\ c[p] = 0 /\ \A i \in p + 1..Len(c) : c[i] = 1
           /\ H!Successor(c) =
                [i \in 1..Len(c) |-> IF i < p THEN c[i] ELSE IF i = p THEN 1 ELSE 0]
<1> DEFINE Z == {0} \cup {i \in DOMAIN c : c[i] = 0}
           p == H!Max(Z)
           n == Len(c)
<1>1. n \in Nat /\ DOMAIN c = 1..n /\ \A i \in 1..n : c[i] \in {0, 1}
  OBVIOUS
<1>2. PICK k \in 1..n : c[k] = 0
  BY <1>1 DEF H!AllOnes
<1>3. p \in Z /\ \A x \in Z : p >= x
  <2>1. Z \in SUBSET (0..n) /\ Z # {}
    BY <1>1
  <2> HIDE DEF Z
  <2> QED
    BY <1>1, <2>1, MaximumFacts
<1>4. k \in Z
  BY <1>1, <1>2
<1>5. p \in 1..n /\ c[p] = 0
  <2>1. p >= k
    BY <1>3, <1>4
  <2> HIDE DEF p
  <2>2. p # 0
    BY <1>1, <2>1
  <2> QED
    BY <1>1, <1>3, <2>2
<1>6. H!Successor(c) = [i \in 1..n |-> IF i < p THEN c[i] ELSE IF i = p THEN 1 ELSE 0]
  BY <1>1 DEF H!Successor
<1>7. ASSUME NEW i \in p + 1..n PROVE c[i] = 1
  <2> HIDE DEF p
  <2>1. i \in 1..n /\ ~(p >= i)
    BY <1>1, <1>5
  <2>2. i \notin Z
    BY <1>3, <2>1
  <2> QED
    BY <1>1, <2>1, <2>2
<1> HIDE DEF p
<1> QED
  BY <1>5, <1>6, <1>7

\* The successor of a code is the number after its own.
LEMMA ValueSuccessor ==
  ASSUME NEW c \in Seq({0, 1}), ~H!AllOnes(c)
  PROVE  Value(H!Successor(c)) = Value(c) + 1
<1>1. PICK m \in Nat : m = Len(c)
  OBVIOUS
<1>2. PICK p \in 1..m :
        /\ c[p] = 0 /\ \A i \in p + 1..m : c[i] = 1
        /\ H!Successor(c) = [i \in 1..m |-> IF i < p THEN c[i] ELSE IF i = p THEN 1 ELSE 0]
  BY <1>1, SuccessorIs
<1>3. PICK u \in Seq({0, 1}) : u = H!Successor(c) /\ Len(u) = m
  BY <1>1, SuccessorFacts
<1>4. PICK w : w = Places2(c)
  OBVIOUS
<1>5. PICK v : v = Places2(u)
  OBVIOUS
<1>6. /\ Weights(w) /\ DOMAIN w = 1..m /\ Value(c) = Total(w, 1..m)
      /\ \A i \in 1..m : c[i] \in {0, 1} /\ m - i \in Nat /\ 2 ^ (m - i) \in Nat
                         /\ w[i] = c[i] * 2 ^ (m - i)
  BY <1>1, <1>4, PlacesFacts DEF Value
<1>7. /\ Weights(v) /\ DOMAIN v = 1..m /\ Value(u) = Total(v, 1..m)
      /\ \A i \in 1..m : v[i] = u[i] * 2 ^ (m - i)
  BY <1>3, <1>5, PlacesFacts DEF Value
<1>8. /\ \A i \in 1..p - 1 : u[i] = c[i]
      /\ u[p] = 1 /\ \A i \in p + 1..m : u[i] = 0
  BY <1>2, <1>3
<1>9. PICK Low, B : Low = 1..p - 1 /\ B = p + 1..m
  OBVIOUS
<1>10. /\ 1..m = (Low \cup {p}) \cup B /\ p \notin Low /\ (Low \cup {p}) \cap B = {}
       /\ Low \in SUBSET (1..m) /\ Low \cup {p} \in SUBSET (1..m) /\ B \in SUBSET (1..m) /\ p \in (1..m) \ Low
  BY <1>9
<1>11. PICK a \in Nat, b \in Nat, x \in Nat, y \in Nat :
         /\ a = Total(w, Low) /\ b = Total(w, B) /\ x = Total(v, Low) /\ y = Total(v, B)
         /\ Total(w, Low \cup {p}) = a + w[p] /\ Total(v, Low \cup {p}) = x + v[p]
  <2>1. Low \in SUBSET DOMAIN w /\ B \in SUBSET DOMAIN w /\ p \in DOMAIN w \ Low
    BY <1>6, <1>10
  <2>2. Low \in SUBSET DOMAIN v /\ B \in SUBSET DOMAIN v /\ p \in DOMAIN v \ Low
    BY <1>7, <1>10
  <2>3. /\ Total(w, Low) \in Nat /\ Total(w, B) \in Nat
        /\ Total(w, Low \cup {p}) = Total(w, Low) + w[p]
    BY ONLY <1>6, <2>1, TotalFacts
  <2>4. /\ Total(v, Low) \in Nat /\ Total(v, B) \in Nat
        /\ Total(v, Low \cup {p}) = Total(v, Low) + v[p]
    BY ONLY <1>7, <2>2, TotalFacts
  <2> QED
    BY ONLY <2>3, <2>4
<1>12. Total(w, 1..m) = (a + w[p]) + b /\ Total(v, 1..m) = (x + v[p]) + y
  <2>1. /\ Total(w, (Low \cup {p}) \cup B) = Total(w, Low \cup {p}) + Total(w, B)
        /\ Total(v, (Low \cup {p}) \cup B) = Total(v, Low \cup {p}) + Total(v, B)
    BY <1>6, <1>7, <1>10, TotalUnion
  <2> QED
    BY ONLY <1>10, <1>11, <2>1, Zenon
<1>13. x = a
  <2>1. \A i \in Low : v[i] = w[i]
    BY <1>6, <1>7, <1>8, <1>9
  <2>2. Low \in SUBSET DOMAIN w /\ Low \in SUBSET DOMAIN v
    BY <1>6, <1>7, <1>10
  <2>3. Total(v, Low) = Total(w, Low)
    BY ONLY <1>6, <1>7, <2>1, <2>2, TotalSame
  <2> QED
    BY <1>11, <2>3
<1>14. y = 0
  <2>1. ASSUME NEW i \in B PROVE v[i] = 0
    <3>1. i \in 1..m /\ u[i] = 0
      BY <1>8, <1>9
    <3>2. PICK h \in Nat : h = 2 ^ (m - i)
      BY <1>6, <3>1
    <3>3. v[i] = 0 * h
      BY <1>7, <3>1, <3>2
    <3> QED
      BY ONLY <3>2, <3>3
  <2>2. B \in SUBSET DOMAIN v
    BY <1>7, <1>10
  <2>3. Total(v, B) = 0
    BY ONLY <1>7, <2>1, <2>2, TotalZero
  <2> QED
    BY <1>11, <2>3
<1>15. PICK h \in Nat : h = 2 ^ (m - p)
  BY <1>6
<1>16. b + 1 = h
  <2>1. ASSUME NEW i \in p + 1..m PROVE w[i] = 2 ^ (m - i)
    <3>1. i \in 1..m /\ c[i] = 1
      BY <1>2
    <3>2. PICK g \in Nat : g = 2 ^ (m - i)
      BY <1>6, <3>1
    <3>3. w[i] = 1 * g
      BY <1>6, <3>1, <3>2
    <3> QED
      BY ONLY <3>2, <3>3
  <2>2. p \in 0..m
    OBVIOUS
  <2>3. Total(w, p + 1..m) + 1 = 2 ^ (m - p)
    BY ONLY <1>6, <2>1, <2>2, TailOnes, m \in Nat
  <2> QED
    BY <1>9, <1>11, <1>15, <2>3
<1>17. w[p] = 0 /\ v[p] = h
  <2>1. w[p] = 0 * h /\ v[p] = 1 * h
    BY <1>2, <1>6, <1>7, <1>8, <1>15
  <2> QED
    BY ONLY <1>15, <2>1
<1>18. Total(v, 1..m) = Total(w, 1..m) + 1
  BY ONLY <1>11, <1>12, <1>13, <1>14, <1>15, <1>16, <1>17
<1> QED
  BY <1>3, <1>6, <1>7, <1>18

\* Zeros are filled in.
LEMMA ValueFilled ==
  ASSUME NEW c \in Seq({0, 1}), NEW n \in Nat, Len(c) <= n
  PROVE  Value(Filled(c, n)) = 2 ^ (n - Len(c)) * Value(c)
<1>1. PICK m \in Nat : m = Len(c) /\ m <= n
  OBVIOUS
<1>2. PICK u \in Seq({0, 1}) : u = Filled(c, n) /\ Len(u) = n /\ \A i \in 1..m : u[i] = c[i]
  BY <1>1, FilledFacts
<1>3. PICK w : w = Places2(c)
  OBVIOUS
<1>4. PICK v : v = Places2(u)
  OBVIOUS
<1>5. /\ Weights(w) /\ DOMAIN w = 1..m /\ Value(c) = Total(w, 1..m)
      /\ \A i \in 1..m : c[i] \in {0, 1} /\ m - i \in Nat /\ 2 ^ (m - i) \in Nat
                         /\ w[i] = c[i] * 2 ^ (m - i)
  BY <1>1, <1>3, PlacesFacts DEF Value
<1>6. /\ Weights(v) /\ DOMAIN v = 1..n /\ Value(u) = Total(v, 1..n)
      /\ \A i \in 1..n : v[i] = u[i] * 2 ^ (n - i) /\ 2 ^ (n - i) \in Nat
  BY <1>2, <1>4, PlacesFacts DEF Value
<1>7. PICK k \in Nat : k = 2 ^ (n - m)
  BY <1>1, Powers
<1>8. PICK Low, B : Low = 1..m /\ B = m + 1..n
  OBVIOUS
<1>9. 1..n = Low \cup B /\ Low \cap B = {} /\ Low \in SUBSET (1..n) /\ B \in SUBSET (1..n)
  BY <1>1, <1>8
<1>10. \A i \in B : u[i] = 0
  <2> SUFFICES ASSUME NEW i \in B PROVE u[i] = 0
    OBVIOUS
  <2>1. PICK r \in Nat : r = n - m
    BY <1>1
  <2>2. PICK z : z = [h \in 1..r |-> 0]
    OBVIOUS
  <2>3. z \in Seq({0, 1}) /\ Len(z) = r
    BY <2>2
  <2>4. u = c \o z
    BY <1>1, <1>2, <2>1, <2>2 DEF Filled
  <2>5. i \in 1..Len(c) + Len(z) /\ ~(i <= Len(c)) /\ i - Len(c) \in 1..r
    BY <1>1, <1>8, <2>1, <2>3
  <2>6. (c \o z)[i] = z[i - Len(c)]
    BY <2>3, <2>5, ConcatProperties
  <2> QED
    BY <2>2, <2>4, <2>5, <2>6
<1>11. Total(v, B) = 0
  <2>1. ASSUME NEW i \in B PROVE v[i] = 0
    <3>1. PICK h \in Nat : h = 2 ^ (n - i) /\ v[i] = u[i] * h
      BY <1>6, <1>9
    <3>2. v[i] = 0 * h
      BY <1>10, <3>1
    <3> QED
      BY ONLY <3>1, <3>2
  <2>2. B \in SUBSET DOMAIN v
    BY <1>6, <1>9
  <2> QED
    BY ONLY <1>6, <2>1, <2>2, TotalZero
<1>12. PICK z : z = [i \in 1..m |-> 0]
  OBVIOUS
<1>13. Weights(z) /\ DOMAIN z = 1..m /\ \A i \in 1..m : z[i] = 0
  <2>1. z \in [1..m -> Nat] /\ IsFiniteSet(1..m)
    BY <1>12, FS_Interval
  <2> QED
    BY <1>12, <2>1, WeightsOf
<1>14. Total(z, Low) = 0
  BY <1>8, <1>13, TotalZero
<1>15. \A i \in Low : v[i] = k * w[i] + z[i]
  <2> SUFFICES ASSUME NEW i \in Low PROVE v[i] = k * w[i] + z[i]
    OBVIOUS
  <2>1. i \in 1..m /\ i \in 1..n
    BY <1>8, <1>9
  <2>2. PICK h \in Nat : h = 2 ^ (m - i)
    BY <1>5, <2>1
  <2>3. 2 ^ (n - i) = k * h
    <3>1. n - m \in Nat /\ m - i \in Nat /\ (n - m) + (m - i) = n - i
      BY <1>1, <2>1
    <3>2. 2 ^ ((n - m) + (m - i)) = 2 ^ (n - m) * 2 ^ (m - i)
      BY ONLY <3>1, PowerSum
    <3> QED
      BY <1>7, <2>2, <3>1, <3>2
  <2>4. c[i] \in {0, 1} /\ w[i] = c[i] * h /\ v[i] = c[i] * (k * h) /\ z[i] = 0
    BY <1>2, <1>5, <1>6, <1>13, <2>1, <2>2, <2>3
  <2>5. PICK b \in {0, 1} : b = c[i]
    BY <2>4
  <2>6. b * (k * h) = k * (b * h) + 0
    BY ONLY <1>7, <2>2, <2>5
  <2> QED
    BY ONLY <2>4, <2>5, <2>6, Zenon
<1>16. Low \in SUBSET DOMAIN w /\ Low \in SUBSET DOMAIN v /\ Low \in SUBSET DOMAIN z
  BY <1>5, <1>6, <1>8, <1>9, <1>13
<1>17. Total(v, Low) = k * Total(w, Low) + Total(z, Low)
  <2>1. Weights(v) /\ Weights(w) /\ Weights(z)
    BY <1>5, <1>6, <1>13
  <2> QED
    BY ONLY <1>15, <1>16, <2>1, TotalLinear, k \in Nat
<1>18. Total(v, 1..n) = Total(v, Low) + Total(v, B)
  <2>1. Total(v, Low \cup B) = Total(v, Low) + Total(v, B)
    BY <1>6, <1>9, TotalUnion
  <2> QED
    BY <1>9, <2>1
<1>19. PICK a \in Nat : a = Total(w, Low)
  BY <1>5, <1>16, TotalFacts
<1>20. k * a \in Nat
  OBVIOUS
<1>21. Total(v, 1..n) = k * a
  BY ONLY <1>11, <1>14, <1>17, <1>18, <1>19, <1>20
<1> QED
  BY <1>1, <1>2, <1>5, <1>6, <1>7, <1>8, <1>19, <1>21

-----------------------------------------------------------------------------
(* Kraft's sum.                                                            *)

\* The cardinality of the model and that of the library are the same.
LEMMA SameFinite ==
  \A S : (H!IsFiniteSet(S) <=> IsFiniteSet(S)) /\ H!Cardinality(S) = Cardinality(S)
BY DEF H!IsFiniteSet, IsFiniteSet, H!Cardinality, Cardinality

\* The share of all words that the codes of a length take.
Shares(l, n) == [s \in DOMAIN l |-> IF l[s] = 0 THEN 0 ELSE 2 ^ (n - l[s])]

\* The share of each length.
LEMMA SharesFacts ==
  ASSUME NEW D, IsFiniteSet(D), NEW n \in Nat, NEW l \in [D -> 0..n]
  PROVE  /\ Weights(Shares(l, n)) /\ DOMAIN Shares(l, n) = D
         /\ \A s \in D : /\ l[s] \in 0..n /\ n - l[s] \in Nat /\ 2 ^ (n - l[s]) \in Nat
                         /\ 2 ^ (n - l[s]) >= 1
                         /\ Shares(l, n)[s] = IF l[s] = 0 THEN 0 ELSE 2 ^ (n - l[s])
<1>1. \A s \in D : l[s] \in 0..n /\ n - l[s] \in Nat
  OBVIOUS
<1>2. \A s \in D : 2 ^ (n - l[s]) \in Nat /\ 2 ^ (n - l[s]) >= 1
  BY <1>1, Powers
<1>3. Shares(l, n) = [s \in D |-> IF l[s] = 0 THEN 0 ELSE 2 ^ (n - l[s])]
  BY DEF Shares
<1>4. Shares(l, n) \in [D -> Nat]
  BY <1>2, <1>3
<1>5. Weights(Shares(l, n)) /\ DOMAIN Shares(l, n) = D
  BY ONLY <1>4, IsFiniteSet(D), WeightsOf
<1> QED
  BY <1>1, <1>2, <1>3, <1>5

\* The sum that Kraft takes is that of the shares.
LEMMA KraftIs ==
  ASSUME NEW D, IsFiniteSet(D), NEW n \in Nat, NEW l \in [D -> 0..n]
  PROVE  H!Kraft(l, n) = Total(Shares(l, n), D)
<1> DEFINE Recursion(g) ==
             g = [s \in SUBSET D |->
                    IF s = {} THEN 0
                    ELSE LET x == CHOOSE y \in s : TRUE
                         IN  (IF l[x] = 0 THEN 0 ELSE 2 ^ (n - l[x])) + g[s \ {x}]]
           c == CHOOSE g : Recursion(g)
<1>1. H!Kraft(l, n) = c[D]
  <2>1. DOMAIN l = D
    OBVIOUS
  <2>2. H!Kraft(l, n) =
          (CHOOSE g : g = [s \in SUBSET DOMAIN l |->
                             IF s = {} THEN 0
                             ELSE LET x == CHOOSE y \in s : TRUE
                                  IN  (IF l[x] = 0 THEN 0 ELSE 2 ^ (n - l[x])) + g[s \ {x}]])[DOMAIN l]
    BY ONLY DEF H!Kraft, H!MapThenSumSet, H!MapThenFoldSet
  <2> QED
    BY ONLY <2>1, <2>2, Zenon
<1>2. PICK w : w = Shares(l, n)
  OBVIOUS
<1>3. Weights(w) /\ DOMAIN w = D /\ \A s \in D : w[s] = IF l[s] = 0 THEN 0 ELSE 2 ^ (n - l[s])
  BY <1>2, SharesFacts
<1>4. ASSUME NEW g PROVE Recursion(g) <=> Summed(w, D, g)
  <2>1. ASSUME NEW s \in SUBSET D
        PROVE  (IF s = {} THEN 0
                ELSE LET x == CHOOSE y \in s : TRUE
                     IN  (IF l[x] = 0 THEN 0 ELSE 2 ^ (n - l[x])) + g[s \ {x}])
               = (IF s = {} THEN 0 ELSE w[Chosen(s)] + g[s \ {Chosen(s)}])
    <3>1. s # {} => Chosen(s) \in D
      BY DEF Chosen
    <3>2. Chosen(s) = CHOOSE y \in s : TRUE
      BY DEF Chosen
    <3>3. s # {} => w[Chosen(s)] = IF l[Chosen(s)] = 0 THEN 0 ELSE 2 ^ (n - l[Chosen(s)])
      BY <1>3, <3>1
    <3> QED
      BY <3>2, <3>3
  <2>2. [s \in SUBSET D |->
           IF s = {} THEN 0
           ELSE LET x == CHOOSE y \in s : TRUE
                IN  (IF l[x] = 0 THEN 0 ELSE 2 ^ (n - l[x])) + g[s \ {x}]]
        = [s \in SUBSET D |-> IF s = {} THEN 0 ELSE w[Chosen(s)] + g[s \ {Chosen(s)}]]
    BY ONLY <2>1, Zenon
  <2> QED
    BY ONLY <2>2, Zenon DEF Summed
<1> HIDE DEF Recursion
<1>5. PICK g : Summed(w, D, g)
  BY <1>3, SummedExists
<1>6. Recursion(c)
  BY <1>4, <1>5
<1>7. Summed(w, D, c)
  BY <1>4, <1>6
<1>8. Summed(w, D, CHOOSE h : Summed(w, D, h))
  BY <1>5
<1> HIDE DEF c
<1>9. PICK h : h = CHOOSE k : Summed(w, D, k)
  OBVIOUS
<1>10. c = h
  <2>1. Summed(w, DOMAIN w, c) /\ Summed(w, DOMAIN w, h)
    BY <1>3, <1>7, <1>8, <1>9
  <2> QED
    BY ONLY <1>3, <2>1, SummedOnce
<1>11. Total(w, D) = h[D]
  BY <1>3, <1>9 DEF Total
<1> QED
  BY <1>1, <1>2, <1>10, <1>11

\* A table of lengths has a longest one.
LEMMA LengthsBounded ==
  ASSUME NEW D, IsFiniteSet(D), NEW l \in [D -> Nat]
  PROVE  \E n \in Nat : l \in [D -> 0..n]
<1> DEFINE G == {S \in SUBSET D : \E n \in Nat : \A s \in S : l[s] <= n}
<1>1. {} \in G
  <2>1. 0 \in Nat /\ \A s \in {} : l[s] <= 0
    OBVIOUS
  <2> QED
    BY <2>1
<1>2. ASSUME NEW S \in SUBSET D, S \in G, NEW x \in D \ S PROVE S \cup {x} \in G
  <2>1. PICK n \in Nat : \A s \in S : l[s] <= n
    BY <1>2
  <2>2. PICK k \in Nat : k = n + l[x]
    OBVIOUS
  <2>3. \A s \in S \cup {x} : l[s] <= k
    <3>1. \A s \in D : l[s] \in Nat
      OBVIOUS
    <3> QED
      BY <2>1, <2>2, <3>1
  <2> QED
    BY <2>3
<1> HIDE DEF G
<1>3. \A S \in SUBSET D : S \in G
  BY ONLY <1>1, <1>2, FiniteInduction, IsFiniteSet(D)
<1>4. D \in G
  BY <1>3
<1>5. PICK n \in Nat : \A s \in D : l[s] <= n
  BY <1>4 DEF G
<1>6. \A s \in D : l[s] \in 0..n
  BY <1>5
<1> QED
  BY <1>6

\* No length is longer than the longest.
LEMMA LongestFacts ==
  ASSUME lengths \in [Symbols -> Nat]
  PROVE  H!Longest \in Nat /\ lengths \in [Symbols -> 0..H!Longest]
<1>1. PICK n \in Nat : lengths \in [Symbols -> 0..n]
  BY LengthsBounded, SymbolFacts
<1>2. PICK S : S = {lengths[s] : s \in Symbols} \cup {0}
  OBVIOUS
<1>3. S \in SUBSET (0..n) /\ S # {}
  BY <1>1, <1>2
<1>4. H!Max(S) \in S /\ \A x \in S : H!Max(S) >= x
  BY <1>3, MaximumFacts
<1>5. PICK m \in 0..n : m = H!Longest /\ \A x \in S : m >= x
  BY <1>2, <1>3, <1>4 DEF H!Longest
<1>6. ASSUME NEW s \in Symbols PROVE lengths[s] \in 0..m
  <2>1. lengths[s] \in S /\ lengths[s] \in 0..n
    BY <1>1, <1>2
  <2> QED
    BY <1>5, <2>1
<1> QED
  BY <1>5, <1>6

\* What is given a code, and which.
Next1 == IF current = <<>> THEN <<>> ELSE H!Successor(current)

\* What a step of canonicalCodes does.
LEMMA AssignIs ==
  ASSUME HuffmanInv, H!AssignCode
  PROVE  \E f \in Symbols :
           /\ f = H!First /\ lengths[f] \in Nat /\ lengths[f] > 0 /\ codes[f] = <<>>
           /\ current # <<>> => ~H!AllOnes(current)
           /\ Next1 \in Seq({0, 1}) /\ Len(Next1) = Len(current) /\ Len(Next1) <= lengths[f]
           /\ codes' = [codes EXCEPT ![f] = Filled(Next1, lengths[f])]
           /\ current' = Filled(Next1, lengths[f]) /\ current' # <<>>
           /\ current' \in Seq({0, 1}) /\ Len(current') = lengths[f]
           /\ pc = "codes" /\ UNCHANGED <<input, written, pc, decoding, queue, lengths, declared,
                                          stream, at, read, prefix, output>>
<1> DEFINE new == Next1 \o [i \in 1..lengths[H!First] - Len(Next1) |-> 0]
<1>1. /\ pc = "codes" /\ H!Pending # {} /\ ~H!Overflows
      /\ codes' = [codes EXCEPT ![H!First] = new] /\ current' = new
      /\ UNCHANGED <<input, written, pc, decoding, queue, lengths, declared, stream, at, read, prefix, output>>
  BY DEF H!AssignCode, H!file, H!reader, Next1
<1>2. /\ lengths \in [Symbols -> Nat] /\ codes \in [Symbols -> Seq({0, 1})]
  BY DEF HuffmanInv, H!TypeOK, H!Bit
<1>3. /\ current \in Seq({0, 1})
      /\ \A s \in Symbols : lengths[s] > 0 /\ codes[s] = <<>> => Len(current) <= lengths[s]
  BY DEF HuffmanInv, CodesOK
<1>4. PICK f \in Symbols : f = H!First /\ f \in H!Pending
  BY <1>1, <1>2, FirstFacts
<1>5. lengths[f] > 0 /\ codes[f] = <<>> /\ lengths[f] \in Nat
  BY <1>2, <1>4 DEF H!Pending, H!None
<1>6. current # <<>> => ~H!AllOnes(current)
  BY <1>1 DEF H!Overflows
<1>7. Next1 \in Seq({0, 1}) /\ Len(Next1) = Len(current)
  <2>1. CASE current = <<>>
    BY <1>3, <2>1 DEF Next1
  <2>2. CASE current # <<>>
    BY <1>3, <1>6, <2>2, SuccessorFacts DEF Next1
  <2> QED
    BY <2>1, <2>2
<1>8. Len(Next1) <= lengths[f]
  BY <1>3, <1>5, <1>7
<1>9. PICK n \in Nat, c \in Seq({0, 1}) : n = lengths[f] /\ c = Next1 /\ Len(c) <= n /\ n > 0
  BY <1>5, <1>7, <1>8
<1>10. new = Filled(c, n)
  BY <1>4, <1>9 DEF Filled
<1> HIDE DEF new
<1>11. Filled(c, n) \in Seq({0, 1}) /\ Len(Filled(c, n)) = n
  BY <1>9, FilledFacts
<1>12. Filled(c, n) # <<>>
  BY <1>9, <1>11
<1>13. /\ codes' = [codes EXCEPT ![f] = Filled(c, n)] /\ current' = Filled(c, n)
  BY <1>1, <1>4, <1>10
<1> QED
  BY <1>1, <1>4, <1>5, <1>6, <1>7, <1>8, <1>9, <1>11, <1>12, <1>13

\* The codes that have been given take all words up to the last of them.
Takes(l, S, c, n) ==
  Total(Shares(l, n), S) = IF c = <<>> THEN 0 ELSE (Value(c) + 1) * 2 ^ (n - Len(c))
GivenTake(n) == Takes(lengths, H!Given, current, n)
KraftInv ==
  /\ current # <<>> => \E s \in Symbols : codes[s] = current
  /\ pc \in {"write", "read", "done"} => H!Pending = {}
  /\ \A n \in Nat : lengths \in [Symbols -> 0..n] => GivenTake(n)

\* Nothing is taken before a code is given.
LEMMA NoneTake ==
  ASSUME NEW n \in Nat, NEW l \in [Symbols -> 0..n]
  PROVE  Takes(l, {}, <<>>, n)
<1>1. Weights(Shares(l, n))
  BY SharesFacts, SymbolFacts
<1>2. Total(Shares(l, n), {}) = 0
  BY <1>1, TotalFacts
<1> QED
  BY <1>2 DEF Takes

\* The next code takes its share of the words after the last one.
LEMMA AssignKraft ==
  ASSUME HuffmanInv, KraftInv, H!AssignCode
  PROVE  KraftInv'
<1>1. PICK f \in Symbols :
           /\ f = H!First /\ lengths[f] \in Nat /\ lengths[f] > 0 /\ codes[f] = <<>>
           /\ current # <<>> => ~H!AllOnes(current)
           /\ Next1 \in Seq({0, 1}) /\ Len(Next1) = Len(current) /\ Len(Next1) <= lengths[f]
           /\ codes' = [codes EXCEPT ![f] = Filled(Next1, lengths[f])]
           /\ current' = Filled(Next1, lengths[f]) /\ current' # <<>>
           /\ current' \in Seq({0, 1}) /\ Len(current') = lengths[f]
           /\ pc = "codes" /\ pc' = "codes" /\ lengths' = lengths
  BY AssignIs
<1>2. /\ codes \in [Symbols -> Seq({0, 1})] /\ current \in Seq({0, 1})
      /\ current = <<>> => \A s \in Symbols : codes[s] = <<>>
  BY DEF HuffmanInv, CodesOK, H!TypeOK, H!Bit
<1>3. codes'[f] = current' /\ \A s \in Symbols : s # f => codes'[s] = codes[s]
  BY <1>1, <1>2
<1>4. H!Given' = H!Given \cup {f} /\ f \notin H!Given /\ H!Given \in SUBSET Symbols
  BY <1>1, <1>3 DEF H!Given, H!None
<1>5. ASSUME NEW n \in Nat, lengths \in [Symbols -> 0..n] PROVE GivenTake(n)'
  <2>0. /\ Weights(Shares(lengths, n)) /\ DOMAIN Shares(lengths, n) = Symbols
        /\ \A s \in Symbols :
             /\ lengths[s] \in 0..n /\ 2 ^ (n - lengths[s]) \in Nat
             /\ Shares(lengths, n)[s] = IF lengths[s] = 0 THEN 0 ELSE 2 ^ (n - lengths[s])
    <3>1. IsFiniteSet(Symbols) /\ lengths \in [Symbols -> 0..n]
      BY <1>5, SymbolFacts
    <3>2. /\ Weights(Shares(lengths, n)) /\ DOMAIN Shares(lengths, n) = Symbols
          /\ \A s \in Symbols :
               /\ lengths[s] \in 0..n /\ n - lengths[s] \in Nat /\ 2 ^ (n - lengths[s]) \in Nat
               /\ 2 ^ (n - lengths[s]) >= 1
               /\ Shares(lengths, n)[s] = IF lengths[s] = 0 THEN 0 ELSE 2 ^ (n - lengths[s])
      BY ONLY <3>1, SharesFacts, n \in Nat
    <3> QED
      BY ONLY <3>2
  <2>1. PICK w : w = Shares(lengths, n)
    OBVIOUS
  <2>2. /\ Weights(w) /\ DOMAIN w = Symbols
        /\ \A s \in Symbols : /\ lengths[s] \in 0..n /\ 2 ^ (n - lengths[s]) \in Nat
                              /\ w[s] = IF lengths[s] = 0 THEN 0 ELSE 2 ^ (n - lengths[s])
    BY ONLY <2>0, <2>1, Zenon
  <2>3. PICK k \in Nat, m \in Nat, q \in Nat :
          /\ k = lengths[f] /\ m = Len(current) /\ q = 2 ^ (n - k) /\ m <= k /\ k <= n
          /\ w[f] = q
    <3>1. PICK k \in Nat, m \in Nat : k = lengths[f] /\ m = Len(current) /\ m <= k /\ k > 0
      BY <1>1, <1>2
    <3>2. k \in 0..n /\ 2 ^ (n - k) \in Nat /\ w[f] = 2 ^ (n - k)
      BY ONLY <1>1, <2>2, <3>1
    <3>3. k <= n
      BY ONLY <3>2, n \in Nat
    <3> QED
      BY ONLY <3>1, <3>2, <3>3, Zenon
  <2>4. PICK p \in Nat : p = 2 ^ (k - m)
    BY <2>3, Powers
  <2>5. PICK v \in Nat : v = Value(Next1)
    BY <1>1, PlacesFacts
  <2>6. Value(current') = p * v
    <3>1. Value(Filled(Next1, k)) = 2 ^ (k - Len(Next1)) * Value(Next1)
      BY <1>1, <2>3, ValueFilled
    <3> QED
      BY <1>1, <2>3, <2>4, <2>5, <3>1
  <2>7. Total(w, H!Given') = Total(w, H!Given) + q
    BY <1>4, <2>2, <2>3, TotalFacts
  <2>8. Total(w, H!Given) = v * (p * q)
    <3>1. CASE current = <<>>
      <4>1. H!Given = {}
        BY <1>2, <3>1 DEF H!Given, H!None
      <4>2. Total(w, H!Given) = 0
        BY <2>2, <4>1, TotalFacts
      <4>3. Next1 = <<>> /\ <<>> \in Seq({0, 1}) /\ 1..Len(<<>>) = {}
        BY <3>1 DEF Next1
      <4>4. Value(<<>>) = 0
        <5>1. Weights(Places2(<<>>))
          BY <4>3, PlacesFacts
        <5>2. Total(Places2(<<>>), {}) = 0
          BY <5>1, TotalFacts
        <5> QED
          BY <4>3, <5>2 DEF Value
      <4>5. v = 0
        BY <2>5, <4>3, <4>4
      <4>6. 0 * (p * q) = 0
        OBVIOUS
      <4> QED
        BY <4>2, <4>5, <4>6
    <3>2. CASE current # <<>>
      <4>1. GivenTake(n)
        BY <1>5 DEF KraftInv
      <4>2. Total(w, H!Given) = (Value(current) + 1) * 2 ^ (n - m)
        BY <2>1, <2>3, <3>2, <4>1 DEF GivenTake, Takes
      <4>3. v = Value(current) + 1
        BY <1>1, <1>2, <2>5, <3>2, ValueSuccessor DEF Next1
      <4>4. 2 ^ (n - m) = p * q
        <5>0. m <= k /\ k <= n
          BY <2>3
        <5>1. k - m \in Nat /\ n - k \in Nat /\ (k - m) + (n - k) = n - m
          BY ONLY <5>0, k \in Nat, m \in Nat, n \in Nat
        <5>2. 2 ^ ((k - m) + (n - k)) = 2 ^ (k - m) * 2 ^ (n - k)
          BY ONLY <5>1, PowerSum
        <5> QED
          BY <2>3, <2>4, <5>1, <5>2
      <4> QED
        BY <4>2, <4>3, <4>4
    <3> QED
      BY <3>1, <3>2
  <2>9. v * (p * q) + q = (p * v + 1) * q
    <3>1. v * (p * q) = (p * v) * q
      BY ONLY v \in Nat, p \in Nat, q \in Nat
    <3>2. PICK x \in Nat : x = p * v
      OBVIOUS
    <3>3. (x + 1) * q = x * q + q
      OBVIOUS
    <3> QED
      BY ONLY <3>1, <3>2, <3>3, Zenon
  <2>10. Total(w, H!Given') = (Value(current') + 1) * q
    BY ONLY <2>6, <2>7, <2>8, <2>9, Zenon
  <2>11. Shares(lengths', n) = w /\ 2 ^ (n - Len(current')) = q
    BY <1>1, <2>1, <2>3
  <2> QED
    BY <1>1, <2>10, <2>11 DEF GivenTake, Takes
<1>6. \E s \in Symbols : codes'[s] = current'
  BY <1>3
<1>7. ASSUME NEW n \in Nat, lengths' \in [Symbols -> 0..n] PROVE GivenTake(n)'
  BY <1>1, <1>5, <1>7
<1> QED
  BY <1>1, <1>6, <1>7 DEF KraftInv

\* The codes are forgotten, or there have been none.
LEMMA KraftNone ==
  ASSUME NEW l \in [Symbols -> Nat]
  PROVE  \A n \in Nat : l \in [Symbols -> 0..n] => Takes(l, {}, <<>>, n)
BY NoneTake

\* At the start no code has been given.
LEMMA KraftInit ==
  ASSUME HuffmanInv, H!Init
  PROVE  KraftInv
<1>1. codes = [s \in Symbols |-> <<>>] /\ current = <<>> /\ pc \in {"merge", "codes"}
  BY DEF H!Init, H!None
<1>2. lengths \in [Symbols -> Nat]
  BY DEF HuffmanInv, H!TypeOK
<1>3. H!Given = {}
  BY <1>1 DEF H!Given, H!None
<1>4. \A n \in Nat : lengths \in [Symbols -> 0..n] => GivenTake(n)
  BY <1>1, <1>2, <1>3, KraftNone DEF GivenTake
<1> QED
  BY <1>1, <1>4 DEF KraftInv

\* The lengths are taken, or the codes are to be found again.
LEMMA KraftForgets ==
  ASSUME HuffmanInv, HuffmanInv', KraftInv, H!TakeLengths \/ H!FinishWriting
  PROVE  KraftInv'
<1>1. pc' = "codes" /\ lengths' \in [Symbols -> Nat]
  BY DEF H!TakeLengths, H!FinishWriting, HuffmanInv, H!TypeOK
<1>2. current' = <<>> /\ \A s \in Symbols : codes'[s] = <<>>
  <2>1. CASE H!TakeLengths
    <3>1. pc = "merge" /\ codes' = codes /\ current' = current
      BY <2>1 DEF H!TakeLengths, H!table
    <3>2. current = <<>> /\ \A s \in Symbols : codes[s] = <<>>
      BY <3>1 DEF HuffmanInv, CodesOK
    <3> QED
      BY <3>1, <3>2
  <2>2. CASE H!FinishWriting
    BY <2>2 DEF H!FinishWriting, H!None
  <2> QED
    BY <2>1, <2>2
<1>3. H!Given' = {}
  BY <1>2 DEF H!Given, H!None
<1>4. PICK l \in [Symbols -> Nat] : l = lengths'
  BY <1>1
<1>5. ASSUME NEW n \in Nat, lengths' \in [Symbols -> 0..n] PROVE GivenTake(n)'
  <2>1. l \in [Symbols -> 0..n]
    BY <1>4, <1>5
  <2>2. Takes(l, {}, <<>>, n)
    BY <2>1, KraftNone
  <2>3. Takes(lengths', H!Given', current', n)
    BY ONLY <1>2, <1>3, <1>4, <2>2
  <2> QED
    BY <2>3 DEF GivenTake
<1> QED
  BY <1>1, <1>2, <1>5 DEF KraftInv

\* The codes stay as they are.
LEMMA KraftStays ==
  ASSUME KraftInv, UNCHANGED <<lengths, codes, current>>,
         pc' \in {"write", "read", "done"} => pc = pc' \/ pc = "read" \/ H!Pending = {}
  PROVE  KraftInv'
<1>1. lengths' = lengths /\ codes' = codes /\ current' = current
  OBVIOUS
<1>2. H!Given' = H!Given /\ H!Pending' = H!Pending
  BY <1>1 DEF H!Given, H!Pending
<1>3. pc' \in {"write", "read", "done"} => H!Pending' = {}
  BY <1>2 DEF KraftInv
<1>4. ASSUME NEW n \in Nat, lengths' \in [Symbols -> 0..n] PROVE GivenTake(n)'
  <2>1. GivenTake(n)
    BY <1>1, <1>4 DEF KraftInv
  <2> QED
    BY <1>1, <1>2, <2>1 DEF GivenTake
<1>5. current' # <<>> => \E s \in Symbols : codes'[s] = current'
  BY <1>1 DEF KraftInv
<1> QED
  BY <1>3, <1>4, <1>5 DEF KraftInv

\* Every step keeps the account of the words taken.
LEMMA KraftStep ==
  ASSUME HuffmanInv, HuffmanInv', KraftInv, H!Next
  PROVE  KraftInv'
<1>1. CASE H!AssignCode
  BY <1>1, AssignKraft
<1>2. CASE H!TakeLengths \/ H!FinishWriting
  BY <1>2, KraftForgets
<1>3. CASE H!Merge \/ H!RefuseLengths \/ H!StartWriting \/ H!StartReading \/ H!WriteSymbol
           \/ H!ReadBit \/ H!FinishReading \/ H!ReadError
  <2>1. UNCHANGED <<lengths, codes, current>>
    BY <1>3 DEF H!Merge, H!RefuseLengths, H!StartWriting, H!StartReading, H!WriteSymbol, H!ReadBit,
                H!FinishReading, H!ReadError, H!file, H!table
  <2>2. pc' \in {"write", "read", "done"} => pc = pc' \/ pc = "read" \/ H!Pending = {}
    BY <1>3 DEF H!Merge, H!RefuseLengths, H!StartWriting, H!StartReading, H!WriteSymbol, H!ReadBit,
                H!FinishReading, H!ReadError
  <2> QED
    BY <2>1, <2>2, KraftStays
<1> QED
  BY <1>1, <1>2, <1>3 DEF H!Next

\* When all words are taken and a symbol is left, the lengths are impossible;
\* otherwise the codes fit.
LEMMA KraftSays ==
  ASSUME HuffmanInv, KraftInv, NEW n \in Nat, lengths \in [Symbols -> 0..n]
  PROVE  /\ H!Pending = {} => Total(Shares(lengths, n), Symbols) <= 2 ^ n
         /\ H!Pending # {} /\ H!Overflows => Total(Shares(lengths, n), Symbols) > 2 ^ n
<1>0. IsFiniteSet(Symbols) /\ lengths \in [Symbols -> 0..n]
  BY SymbolFacts
<1>1. /\ Weights(Shares(lengths, n)) /\ DOMAIN Shares(lengths, n) = Symbols
      /\ \A s \in Symbols :
           /\ lengths[s] \in 0..n /\ n - lengths[s] \in Nat /\ 2 ^ (n - lengths[s]) \in Nat
           /\ 2 ^ (n - lengths[s]) >= 1
           /\ Shares(lengths, n)[s] = IF lengths[s] = 0 THEN 0 ELSE 2 ^ (n - lengths[s])
  BY ONLY <1>0, SharesFacts, n \in Nat
<1>2. PICK w : w = Shares(lengths, n)
  OBVIOUS
<1>3. /\ Weights(w) /\ DOMAIN w = Symbols
      /\ \A s \in Symbols :
           /\ lengths[s] \in 0..n /\ 2 ^ (n - lengths[s]) \in Nat
           /\ 2 ^ (n - lengths[s]) >= 1
           /\ w[s] = IF lengths[s] = 0 THEN 0 ELSE 2 ^ (n - lengths[s])
  BY ONLY <1>1, <1>2, Zenon
<1>4. /\ codes \in [Symbols -> Seq({0, 1})] /\ current \in Seq({0, 1})
      /\ \A s \in Symbols : Len(codes[s]) \in {0, lengths[s]}
  BY DEF HuffmanInv, CodesOK, H!TypeOK, H!Bit
<1>5. Takes(lengths, H!Given, current, n)
  BY DEF KraftInv, GivenTake
<1>6. PICK a \in Nat : a = Total(w, H!Given)
  BY <1>3, TotalFacts DEF H!Given
<1>7. current = <<>> => a = 0
  BY <1>2, <1>5, <1>6 DEF Takes
<1>8. ASSUME current # <<>> PROVE a <= 2 ^ n /\ (H!AllOnes(current) => a = 2 ^ n)
  <2>1. PICK s \in Symbols : codes[s] = current
    BY <1>8 DEF KraftInv
  <2>2. PICK m \in Nat, v \in Nat : m = Len(current) /\ v = Value(current) /\ m # 0 /\ m \in 0..n
    <3>1. Len(current) \in {0, lengths[s]} /\ Len(current) # 0 /\ Len(current) \in Nat
      BY <1>4, <1>8, <2>1
    <3>2. Len(current) \in 0..n
      BY <1>3, <3>1
    <3>3. Value(current) \in Nat
      BY <1>4, PlacesFacts
    <3> QED
      BY <3>1, <3>2, <3>3
  <2>3. v + 1 <= 2 ^ m /\ (H!AllOnes(current) => v + 1 = 2 ^ m)
    BY <1>4, <2>2, ValueBound
  <2>4. PICK p \in Nat, q \in Nat : p = 2 ^ m /\ q = 2 ^ (n - m) /\ 2 ^ n = p * q
    <3>1. n - m \in Nat /\ m + (n - m) = n
      BY <2>2
    <3>2. 2 ^ (m + (n - m)) = 2 ^ m * 2 ^ (n - m)
      BY ONLY <3>1, PowerSum, m \in Nat
    <3>3. 2 ^ m \in Nat /\ 2 ^ (n - m) \in Nat
      BY <3>1, Powers
    <3> QED
      BY <3>1, <3>2, <3>3
  <2>5. a = (v + 1) * q
    BY <1>2, <1>5, <1>6, <1>8, <2>2, <2>4 DEF Takes
  <2>6. (v + 1) <= p => (v + 1) * q <= p * q
    BY ONLY v \in Nat, p \in Nat, q \in Nat
  <2> QED
    BY <2>3, <2>4, <2>5, <2>6
<1>9. ASSUME H!Pending = {} PROVE Total(w, Symbols) <= 2 ^ n
  <2>1. PICK Others : Others = Symbols \ H!Given
    OBVIOUS
  <2>2. H!Given \cup Others = Symbols /\ H!Given \cap Others = {} /\ Others \in SUBSET Symbols /\ H!Given \in SUBSET Symbols
    BY <2>1 DEF H!Given
  <2>3. Total(w, H!Given \cup Others) = Total(w, H!Given) + Total(w, Others)
    BY <1>3, <2>2, TotalUnion
  <2>4. \A s \in Others : w[s] = 0
    <3>1. \A s \in Others : codes[s] = <<>> /\ lengths[s] \in Nat
      BY <1>3, <2>1 DEF H!Given, H!None
    <3>2. \A s \in Others : lengths[s] = 0
      BY <1>9, <2>2, <3>1 DEF H!Pending, H!None
    <3> QED
      BY <1>3, <2>2, <3>2
  <2>5. Total(w, Others) = 0
    BY <1>3, <2>2, <2>4, TotalZero
  <2>6. 2 ^ n \in Nat
    BY Powers
  <2>7. Total(w, Symbols) = a
    <3>1. Total(w, Symbols) = a + 0
      BY ONLY <1>6, <2>2, <2>3, <2>5, Zenon
    <3> QED
      BY ONLY <3>1, a \in Nat
  <2> QED
    BY <1>7, <1>8, <2>6, <2>7
<1>10. ASSUME H!Pending # {}, H!Overflows PROVE Total(w, Symbols) > 2 ^ n
  <2>1. a = 2 ^ n
    BY <1>8, <1>10 DEF H!Overflows
  <2>2. PICK s \in Symbols : lengths[s] > 0 /\ codes[s] = <<>>
    BY <1>10 DEF H!Pending, H!None
  <2>3. /\ s \in DOMAIN w \ H!Given /\ H!Given \in SUBSET DOMAIN w
        /\ H!Given \cup {s} \in SUBSET Symbols
    BY <1>3, <2>2 DEF H!Given, H!None
  <2>4. Total(w, H!Given \cup {s}) = a + w[s]
    BY <1>3, <1>6, <2>3, TotalFacts
  <2>5. w[s] \in Nat /\ w[s] >= 1
    <3>1. lengths[s] # 0
      BY <2>2
    <3>2. w[s] = 2 ^ (n - lengths[s]) /\ 2 ^ (n - lengths[s]) \in Nat /\ 2 ^ (n - lengths[s]) >= 1
      BY ONLY <1>3, <3>1
    <3> QED
      BY ONLY <3>2
  <2>6. Total(w, H!Given \cup {s}) <= Total(w, Symbols) /\ Total(w, Symbols) \in Nat
    BY <1>3, <2>3, TotalPart, TotalFacts
  <2> QED
    BY ONLY <1>6, <2>1, <2>4, <2>5, <2>6
<1> QED
  BY <1>2, <1>9, <1>10

\* A table of lengths is refused exactly if it has no prefix code.
LEMMA KraftRefuses ==
  ASSUME HuffmanInv, KraftInv
  PROVE  H!RefusedIsImpossible
<1>1. lengths \in [Symbols -> Nat]
  BY DEF HuffmanInv, H!TypeOK
<1>2. PICK n \in Nat : n = H!Longest /\ lengths \in [Symbols -> 0..n]
  BY <1>1, LongestFacts
<1>3. H!Kraft(lengths, n) = Total(Shares(lengths, n), Symbols)
  BY <1>2, KraftIs, SymbolFacts
<1>4. /\ H!Pending = {} => H!Kraft(lengths, n) <= 2 ^ n
      /\ H!Pending # {} /\ H!Overflows => H!Kraft(lengths, n) > 2 ^ n
  BY <1>2, <1>3, KraftSays
<1>5. pc \in {"write", "read"} => H!Pending = {}
  BY DEF KraftInv
<1> QED
  BY <1>2, <1>4, <1>5 DEF H!RefusedIsImpossible

-----------------------------------------------------------------------------
(* The trees of the queue.                                                 *)

\* The sum over one element.
LEMMA TotalOne ==
  ASSUME NEW w, Weights(w), NEW x \in DOMAIN w
  PROVE  Total(w, {x}) = w[x]
<1>1. Total(w, {} \cup {x}) = Total(w, {}) + w[x] /\ Total(w, {}) = 0 /\ {} \cup {x} = {x}
  BY TotalFacts
<1>2. w[x] \in Nat
  BY DEF Weights
<1>3. Total(w, {x}) = 0 + w[x]
  BY ONLY <1>1, Zenon
<1> QED
  BY ONLY <1>2, <1>3

\* Powers grow.
LEMMA PowerMono ==
  ASSUME NEW m \in Nat, NEW n \in Nat, m <= n
  PROVE  2 ^ m <= 2 ^ n
<1>1. n - m \in Nat /\ m + (n - m) = n
  OBVIOUS
<1>2. 2 ^ (m + (n - m)) = 2 ^ m * 2 ^ (n - m)
  BY ONLY <1>1, PowerSum, m \in Nat
<1>3. PICK p \in Nat, q \in Nat : p = 2 ^ m /\ q = 2 ^ (n - m) /\ q >= 1
  BY <1>1, Powers
<1>4. p * q >= p
  BY ONLY <1>3
<1> QED
  BY <1>1, <1>2, <1>3, <1>4

\* How often the symbols occur.
Counts == [s \in Symbols |-> H!Frequency(s)]

\* How often the symbols of the input occur.
LEMMA CountsFacts ==
  ASSUME input \in Seq(Symbols)
  PROVE  /\ Weights(Counts) /\ DOMAIN Counts = Symbols
         /\ \A s \in Symbols : Counts[s] = H!Frequency(s) /\ H!Frequency(s) \in Nat
         /\ \A i \in 1..Len(input) : H!Frequency(input[i]) > 0
<1>1. DOMAIN input = 1..Len(input) /\ Len(input) \in Nat /\ IsFiniteSet(1..Len(input))
  BY FS_Interval
<1>2. ASSUME NEW s
      PROVE  /\ IsFiniteSet({i \in DOMAIN input : input[i] = s}) /\ H!Frequency(s) \in Nat
             /\ H!Frequency(s) = Cardinality({i \in DOMAIN input : input[i] = s})
  <2>1. PICK T : T = {i \in DOMAIN input : input[i] = s}
    OBVIOUS
  <2>2. T \in SUBSET (1..Len(input))
    BY <1>1, <2>1
  <2>3. IsFiniteSet(T)
    BY <1>1, <2>2, FS_Subset
  <2>4. Cardinality(T) \in Nat
    BY <2>3, FS_CardinalityType
  <2>5. H!Frequency(s) = Cardinality(T)
    BY <2>1, SameFinite DEF H!Frequency
  <2> QED
    BY <2>1, <2>3, <2>4, <2>5
<1>3. Counts \in [Symbols -> Nat]
  BY <1>2 DEF Counts
<1>4. Weights(Counts) /\ DOMAIN Counts = Symbols
  BY ONLY <1>3, SymbolFacts, WeightsOf
<1>5. ASSUME NEW i \in 1..Len(input) PROVE H!Frequency(input[i]) > 0
  <2>1. PICK T : T = {h \in DOMAIN input : input[h] = input[i]}
    OBVIOUS
  <2>2. i \in T
    BY <1>1, <2>1
  <2>3. Cardinality(T) # 0 /\ H!Frequency(input[i]) = Cardinality(T) /\ Cardinality(T) \in Nat
    BY <1>2, <2>1, <2>2, FS_EmptySet
  <2> QED
    BY <2>3
<1> QED
  BY <1>2, <1>4, <1>5 DEF Counts

\* The leaves of a tree take all words.
Leaves(d, n) == [s \in DOMAIN d |-> 2 ^ (n - d[s])]
Full(t) ==
  \A n \in Nat : t.depth \in [DOMAIN t.depth -> 0..n] =>
    Total(Leaves(t.depth, n), DOMAIN t.depth) = 2 ^ n

\* The words below each leaf.
LEMMA LeavesFacts ==
  ASSUME NEW D, IsFiniteSet(D), NEW n \in Nat, NEW d \in [D -> 0..n]
  PROVE  /\ Weights(Leaves(d, n)) /\ DOMAIN Leaves(d, n) = D
         /\ \A s \in D : /\ d[s] \in 0..n /\ n - d[s] \in Nat /\ 2 ^ (n - d[s]) \in Nat
                         /\ Leaves(d, n)[s] = 2 ^ (n - d[s])
<1>1. \A s \in D : d[s] \in 0..n /\ n - d[s] \in Nat
  OBVIOUS
<1>2. \A s \in D : 2 ^ (n - d[s]) \in Nat
  BY <1>1, Powers
<1>3. Leaves(d, n) = [s \in D |-> 2 ^ (n - d[s])]
  BY DEF Leaves
<1>4. Leaves(d, n) \in [D -> Nat]
  BY <1>2, <1>3
<1>5. Weights(Leaves(d, n)) /\ DOMAIN Leaves(d, n) = D
  BY ONLY <1>4, IsFiniteSet(D), WeightsOf
<1> QED
  BY <1>1, <1>2, <1>3, <1>5

\* One symbol is all the tree.
LEMMA LeafFull ==
  ASSUME NEW s \in Symbols
  PROVE  Full(H!Leaf(s))
<1>1. PICK d : d = H!Leaf(s).depth /\ d = [x \in {s} |-> 0] /\ DOMAIN d = {s} /\ d[s] = 0
  <2>1. H!Leaf(s).depth = [x \in {s} |-> 0]
    BY DEF H!Leaf
  <2>2. PICK d : d = [x \in {s} |-> 0]
    OBVIOUS
  <2>3. DOMAIN d = {s} /\ d[s] = 0
    BY ONLY <2>2
  <2> QED
    BY <2>1, <2>2, <2>3
<1>2. ASSUME NEW n \in Nat, d \in [{s} -> 0..n] PROVE Total(Leaves(d, n), {s}) = 2 ^ n
  <2>1. IsFiniteSet({s})
    BY FS_Singleton
  <2>2. /\ Weights(Leaves(d, n)) /\ DOMAIN Leaves(d, n) = {s}
        /\ \A x \in {s} : /\ d[x] \in 0..n /\ n - d[x] \in Nat /\ 2 ^ (n - d[x]) \in Nat
                          /\ Leaves(d, n)[x] = 2 ^ (n - d[x])
    BY ONLY <1>2, <2>1, LeavesFacts, n \in Nat
  <2>3. Total(Leaves(d, n), {s}) = Leaves(d, n)[s]
    BY <2>2, TotalOne
  <2>4. n - 0 = n
    OBVIOUS
  <2> QED
    BY <1>1, <2>2, <2>3, <2>4
<1> QED
  BY <1>1, <1>2 DEF Full

\* Two trees below a node.
LEMMA HalfFull ==
  ASSUME NEW t, IsTree(t), Full(t), NEW h \in Nat, NEW D, D = DOMAIN t.depth,
         NEW w, Weights(w), D \in SUBSET DOMAIN w,
         \A s \in D : t.depth[s] <= h /\ w[s] = 2 ^ (h - t.depth[s])
  PROVE  Total(w, D) = 2 ^ h
<1>1. IsFiniteSet(D)
  BY FS_Subset DEF Weights
<1>2. PICK d : d = t.depth
  OBVIOUS
<1>3. d \in [D -> 0..h]
  <2>1. d \in [D -> Nat]
    BY <1>2 DEF IsTree
  <2>2. \A s \in D : d[s] \in 0..h
    BY <1>2, <2>1
  <2> QED
    BY <2>1, <2>2
<1>4. /\ Weights(Leaves(d, h)) /\ DOMAIN Leaves(d, h) = D
      /\ \A s \in D : /\ d[s] \in 0..h /\ h - d[s] \in Nat /\ 2 ^ (h - d[s]) \in Nat
                      /\ Leaves(d, h)[s] = 2 ^ (h - d[s])
  BY ONLY <1>1, <1>3, LeavesFacts, h \in Nat
<1>5. PICK v : v = Leaves(d, h)
  OBVIOUS
<1>6. Weights(v) /\ D \in SUBSET DOMAIN v /\ \A s \in D : w[s] = v[s]
  BY <1>2, <1>4, <1>5
<1>7. Total(w, D) = Total(v, D)
  BY ONLY <1>6, TotalSame, Weights(w), D \in SUBSET DOMAIN w
<1>8. Total(v, D) = 2 ^ h
  BY <1>2, <1>3, <1>5 DEF Full
<1> QED
  BY <1>7, <1>8

\* The tree of two trees.
LEMMA JoinedFull ==
  ASSUME NEW t, NEW u, IsTree(t), IsTree(u), Full(t), Full(u),
         DOMAIN t.depth \cap DOMAIN u.depth = {}
  PROVE  Full(H!Joined(t, u))
<1>1. PICK D, E : D = DOMAIN t.depth /\ E = DOMAIN u.depth
  OBVIOUS
<1>2. PICK j : j = H!Joined(t, u).depth
  OBVIOUS
<1>3. j = [s \in D \cup E |-> 1 + IF s \in D THEN t.depth[s] ELSE u.depth[s]]
  BY <1>1, <1>2 DEF H!Joined
<1>4. /\ D \in SUBSET Symbols /\ E \in SUBSET Symbols /\ D # {} /\ D \cap E = {}
      /\ t.depth \in [D -> Nat] /\ u.depth \in [E -> Nat] /\ DOMAIN j = D \cup E
  BY <1>1, <1>3 DEF IsTree
<1>5. \A s \in E : s \notin D
  BY <1>4
<1>6. /\ \A s \in D : j[s] = 1 + t.depth[s] /\ t.depth[s] \in Nat
      /\ \A s \in E : j[s] = 1 + u.depth[s] /\ u.depth[s] \in Nat
  BY <1>3, <1>4, <1>5
<1>7. ASSUME NEW n \in Nat, j \in [D \cup E -> 0..n]
      PROVE  Total(Leaves(j, n), D \cup E) = 2 ^ n
  <2>1. PICK x \in D : TRUE
    BY <1>4
  <2>2. PICK h \in Nat : n = h + 1
    <3>1. j[x] \in 0..n /\ j[x] = 1 + t.depth[x] /\ t.depth[x] \in Nat
      BY <1>6, <1>7
    <3>2. n - 1 \in Nat /\ n = (n - 1) + 1
      BY ONLY <3>1, n \in Nat
    <3> QED
      BY <3>2
  <2>3. IsFiniteSet(D \cup E) /\ D \cup E \in SUBSET Symbols
    BY <1>4, SymbolFacts, FS_Subset
  <2>4. /\ Weights(Leaves(j, n)) /\ DOMAIN Leaves(j, n) = D \cup E
        /\ \A s \in D \cup E : /\ j[s] \in 0..n /\ n - j[s] \in Nat /\ 2 ^ (n - j[s]) \in Nat
                               /\ Leaves(j, n)[s] = 2 ^ (n - j[s])
    BY ONLY <1>7, <2>3, LeavesFacts, n \in Nat
  <2>5. PICK w : w = Leaves(j, n)
    OBVIOUS
  <2>6. Weights(w) /\ DOMAIN w = D \cup E
    BY ONLY <2>4, <2>5
  <2>7. ASSUME NEW s \in D PROVE t.depth[s] <= h /\ w[s] = 2 ^ (h - t.depth[s])
    <3>1. PICK a \in Nat : a = t.depth[s] /\ j[s] = 1 + a
      BY <1>6
    <3>2. s \in D \cup E
      OBVIOUS
    <3>3. j[s] \in 0..n /\ w[s] = 2 ^ (n - j[s])
      BY ONLY <2>4, <2>5, <3>2
    <3>4. a <= h /\ n - j[s] = h - a
      BY ONLY <2>2, <3>1, <3>3
    <3> QED
      BY ONLY <3>1, <3>3, <3>4
  <2>8. ASSUME NEW s \in E PROVE u.depth[s] <= h /\ w[s] = 2 ^ (h - u.depth[s])
    <3>1. PICK a \in Nat : a = u.depth[s] /\ j[s] = 1 + a
      BY <1>6
    <3>2. s \in D \cup E
      OBVIOUS
    <3>3. j[s] \in 0..n /\ w[s] = 2 ^ (n - j[s])
      BY ONLY <2>4, <2>5, <3>2
    <3>4. a <= h /\ n - j[s] = h - a
      BY ONLY <2>2, <3>1, <3>3
    <3> QED
      BY ONLY <3>1, <3>3, <3>4
  <2>9. Total(w, D) = 2 ^ h
    <3>1. D \in SUBSET DOMAIN w
      BY <2>6
    <3> QED
      BY ONLY <1>1, <2>2, <2>6, <2>7, <3>1, HalfFull, IsTree(t), Full(t)
  <2>10. Total(w, E) = 2 ^ h
    <3>1. E \in SUBSET DOMAIN w
      BY <2>6
    <3> QED
      BY ONLY <1>1, <2>2, <2>6, <2>8, <3>1, HalfFull, IsTree(u), Full(u)
  <2>11. Total(w, D \cup E) = Total(w, D) + Total(w, E)
    BY <1>4, <2>6, TotalUnion
  <2>12. 2 ^ (h + 1) = 2 * 2 ^ h /\ 2 ^ h \in Nat
    BY Powers
  <2>13. PICK p \in Nat : p = 2 ^ h
    BY <2>12
  <2>14. Total(w, D \cup E) = p + p /\ 2 ^ (h + 1) = 2 * p
    BY <2>9, <2>10, <2>11, <2>12, <2>13
  <2>15. p + p = 2 * p
    BY ONLY p \in Nat
  <2> QED
    BY <2>2, <2>5, <2>14, <2>15
<1> QED
  BY <1>2, <1>4, <1>7 DEF Full

\* The trees hold the symbols that occur, each as often as they do; the lengths
\* that come of them fit.
Occurs(s) == H!Frequency(s) > 0
Fits(l) == \A n \in Nat : l \in [Symbols -> 0..n] => Total(Shares(l, n), Symbols) <= 2 ^ n
TreesInv ==
  /\ written /\ pc = "merge" =>
       /\ IsFiniteSet(queue)
       /\ \A t \in queue : Full(t) /\ t.frequency = Total(Counts, DOMAIN t.depth)
       /\ \A s \in Symbols : Occurs(s) <=> \E t \in queue : s \in DOMAIN t.depth
  /\ written /\ pc # "merge" =>
       Fits(lengths) /\ \A s \in Symbols : Occurs(s) <=> lengths[s] > 0

\* Every symbol that occurs is a tree.
LEMMA TreesInit ==
  ASSUME HuffmanInv, H!Init
  PROVE  TreesInv
<1> SUFFICES ASSUME written PROVE TreesInv
  BY DEF TreesInv
<1>1. CASE written = TRUE
  <2> DEFINE F == {x \in Symbols : H!Frequency(x) > 0}
  <2>1. pc = "merge" /\ queue = {H!Leaf(s) : s \in F} /\ input \in Words
    BY <1>1 DEF H!Init
  <2>2. input \in Seq(Symbols)
    BY DEF HuffmanInv
  <2>3. F \in SUBSET Symbols /\ IsFiniteSet(F)
    BY SymbolFacts, FS_Subset
  <2>4. IsFiniteSet(queue)
    <3>1. PICK f : f = [s \in F |-> H!Leaf(s)]
      OBVIOUS
    <3>2. f \in [F -> queue] /\ \A t \in queue : \E s \in F : f[s] = t
      BY <2>1, <3>1
    <3>3. f \in Surjection(F, queue)
      BY <3>2 DEF Surjection
    <3> HIDE DEF F
    <3> QED
      BY <2>3, <3>3, FS_Surjection
  <2>5. ASSUME NEW t \in queue PROVE Full(t) /\ t.frequency = Total(Counts, DOMAIN t.depth)
    <3>1. PICK s \in F : t = H!Leaf(s)
      BY <2>1
    <3>2. s \in Symbols
      OBVIOUS
    <3>3. Full(t)
      BY <3>1, <3>2, LeafFull
    <3>4. t.frequency = H!Frequency(s) /\ DOMAIN t.depth = {s}
      BY <3>1 DEF H!Leaf
    <3>5. Weights(Counts) /\ DOMAIN Counts = Symbols /\ Counts[s] = H!Frequency(s)
      BY <2>2, <3>2, CountsFacts
    <3>6. Total(Counts, {s}) = Counts[s]
      BY <3>2, <3>5, TotalOne
    <3> QED
      BY <3>3, <3>4, <3>5, <3>6
  <2>6. ASSUME NEW s \in Symbols PROVE Occurs(s) <=> \E t \in queue : s \in DOMAIN t.depth
    <3>1. \A x : DOMAIN H!Leaf(x).depth = {x}
      BY DEF H!Leaf
    <3>2. ASSUME Occurs(s) PROVE \E t \in queue : s \in DOMAIN t.depth
      <4>1. H!Leaf(s) \in queue
        BY <2>1, <3>2 DEF Occurs
      <4> QED
        BY <3>1, <4>1
    <3>3. ASSUME NEW t \in queue, s \in DOMAIN t.depth PROVE Occurs(s)
      <4>1. PICK x \in F : t = H!Leaf(x)
        BY <2>1
      <4>2. x = s
        BY <3>1, <3>3, <4>1
      <4> QED
        BY <4>2 DEF Occurs
    <3> QED
      BY <3>2, <3>3
  <2> QED
    BY <2>1, <2>4, <2>5, <2>6 DEF TreesInv
<1>2. CASE written # TRUE
  BY <1>2 DEF H!Init
<1> QED
  BY <1>1, <1>2

\* Two trees are joined.
LEMMA TreesMerge ==
  ASSUME HuffmanInv, TreesInv, H!Merge
  PROVE  TreesInv'
<1> SUFFICES ASSUME written' PROVE TreesInv'
  BY DEF TreesInv
<1>1. pc = "merge" /\ pc' = pc /\ written' = written /\ input' = input
  BY DEF H!Merge
<1>2. PICK t \in queue, u \in queue :
        H!Before(t, u) /\ queue' = (queue \ {t, u}) \cup {H!Joined(t, u)}
  BY DEF H!Merge
<1>3. /\ \A v \in queue : IsTree(v)
      /\ \A v, w \in queue : v = w \/ DOMAIN v.depth \cap DOMAIN w.depth = {}
      /\ input \in Seq(Symbols)
  BY DEF HuffmanInv, H!TypeOK
<1>4. /\ IsFiniteSet(queue)
      /\ \A v \in queue : Full(v) /\ v.frequency = Total(Counts, DOMAIN v.depth)
      /\ \A s \in Symbols : Occurs(s) <=> \E v \in queue : s \in DOMAIN v.depth
  BY <1>1 DEF TreesInv
<1>5. PICK D, E : D = DOMAIN t.depth /\ E = DOMAIN u.depth
  OBVIOUS
<1>6. D \in SUBSET Symbols /\ E \in SUBSET Symbols
  BY <1>3, <1>5 DEF IsTree
<1>7. /\ Weights(Counts) /\ DOMAIN Counts = Symbols
  BY <1>3, CountsFacts
<1>8. t.frequency \in Nat /\ u.frequency \in Nat
  BY <1>4, <1>5, <1>6, <1>7, TotalFacts
<1>9. t # u
  <2>1. t.minimum \in Nat
    <3>1. t.minimum = H!Min(D)
      BY <1>5 DEF HuffmanInv, H!TypeOK
    <3>2. D \in SUBSET Nat /\ D # {}
      BY <1>3, <1>5, SymbolFacts DEF IsTree
    <3>3. H!Min(D) \in D
      BY <3>2, MinimumFacts
    <3> QED
      BY <3>1, <3>2, <3>3
  <2>2. ~H!Before(t, t)
    BY <1>8, <2>1 DEF H!Before
  <2> QED
    BY <1>2, <2>2
<1>10. D \cap E = {}
  BY <1>3, <1>5, <1>9
<1>11. PICK j : j = H!Joined(t, u)
  OBVIOUS
<1>12. Full(j)
  <2>1. IsTree(t) /\ IsTree(u) /\ Full(t) /\ Full(u) /\ DOMAIN t.depth \cap DOMAIN u.depth = {}
    BY <1>3, <1>4, <1>5, <1>10
  <2>2. Full(H!Joined(t, u))
    BY ONLY <2>1, JoinedFull
  <2> QED
    BY <1>11, <2>2
<1>13. j.frequency = t.frequency + u.frequency /\ DOMAIN j.depth = D \cup E
  BY <1>5, <1>11 DEF H!Joined
<1>14. j.frequency = Total(Counts, DOMAIN j.depth)
  <2>1. Total(Counts, D \cup E) = Total(Counts, D) + Total(Counts, E)
    BY <1>6, <1>7, <1>10, TotalUnion
  <2> QED
    BY <1>4, <1>5, <1>13, <2>1
<1>15. IsFiniteSet(queue')
  <2>1. IsFiniteSet(queue \ {t, u})
    BY <1>4, FS_Difference
  <2> QED
    BY <1>2, <2>1, FS_AddElement
<1>16. \A v \in queue' : Full(v) /\ v.frequency = Total(Counts, DOMAIN v.depth)
  BY <1>2, <1>4, <1>11, <1>12, <1>14
<1>17. ASSUME NEW s \in Symbols PROVE Occurs(s) <=> \E v \in queue' : s \in DOMAIN v.depth
  <2>1. ASSUME NEW v \in queue, s \in DOMAIN v.depth PROVE \E x \in queue' : s \in DOMAIN x.depth
    <3>1. CASE v \in {t, u}
      <4>1. s \in DOMAIN j.depth /\ j \in queue'
        BY <1>2, <1>5, <1>11, <1>13, <2>1, <3>1
      <4> QED
        BY <4>1
    <3>2. CASE v \notin {t, u}
      BY <1>2, <2>1, <3>2
    <3> QED
      BY <3>1, <3>2
  <2>2. ASSUME NEW v \in queue', s \in DOMAIN v.depth PROVE \E x \in queue : s \in DOMAIN x.depth
    <3>1. CASE v = j
      BY <1>5, <1>13, <2>2, <3>1
    <3>2. CASE v # j
      BY <1>2, <1>11, <2>2, <3>2
    <3> QED
      BY <3>1, <3>2
  <2> QED
    BY <1>4, <2>1, <2>2
<1>18. Counts' = Counts /\ \A s \in Symbols : Occurs(s)' <=> Occurs(s)
  BY <1>1 DEF Counts, Occurs, H!Frequency
<1>19. \A v \in queue' : Full(v) /\ v.frequency = Total(Counts', DOMAIN v.depth)
  BY ONLY <1>16, <1>18, Zenon
<1> QED
  BY <1>1, <1>15, <1>17, <1>18, <1>19 DEF TreesInv

\* What Bits returns.
LEMMA BitsFacts ==
  ASSUME NEW d \in Nat
  PROVE  H!Bits(d) \in Nat /\ H!Bits(d) >= d /\ H!Bits(d) >= 1 /\ (d >= 1 => H!Bits(d) = d)
<1>1. PICK n \in Nat : n = d + 1
  OBVIOUS
<1>2. PICK S : S = {d, 1}
  OBVIOUS
<1>3. S \in SUBSET (0..n) /\ S # {}
  BY <1>1, <1>2
<1>4. H!Max(S) \in S /\ \A x \in S : H!Max(S) >= x
  BY <1>3, MaximumFacts
<1>5. PICK m \in {d, 1} : m = H!Bits(d) /\ m >= d /\ m >= 1
  BY <1>2, <1>4 DEF H!Bits
<1> QED
  BY <1>5

\* The shares of the lengths of one tree.
LEMMA TreeFits ==
  ASSUME NEW t, IsTree(t), Full(t), NEW l \in [Symbols -> Nat],
         \A s \in DOMAIN t.depth : l[s] >= t.depth[s] /\ l[s] >= 1,
         \A s \in Symbols \ DOMAIN t.depth : l[s] = 0
  PROVE  Fits(l)
<1> SUFFICES ASSUME NEW n \in Nat, l \in [Symbols -> 0..n] PROVE Total(Shares(l, n), Symbols) <= 2 ^ n
  BY DEF Fits
<1>1. PICK D : D = DOMAIN t.depth
  OBVIOUS
<1>2. D \in SUBSET Symbols /\ IsFiniteSet(D) /\ D \cup (Symbols \ D) = Symbols /\ D \cap (Symbols \ D) = {}
  BY <1>1, SymbolFacts, FS_Subset DEF IsTree
<1>3. PICK d : d = t.depth
  OBVIOUS
<1>4. ASSUME NEW s \in D PROVE d[s] \in 0..n /\ l[s] \in 1..n /\ d[s] <= l[s]
  <2>1. d[s] \in Nat /\ l[s] \in 0..n /\ l[s] >= d[s] /\ l[s] >= 1
    BY <1>1, <1>2, <1>3 DEF IsTree
  <2> QED
    BY <2>1
<1>5. d \in [D -> 0..n]
  BY <1>1, <1>3, <1>4 DEF IsTree
<1>6. /\ Weights(Leaves(d, n)) /\ DOMAIN Leaves(d, n) = D
      /\ \A s \in D : /\ d[s] \in 0..n /\ n - d[s] \in Nat /\ 2 ^ (n - d[s]) \in Nat
                      /\ Leaves(d, n)[s] = 2 ^ (n - d[s])
  BY ONLY <1>2, <1>5, LeavesFacts, n \in Nat
<1>7. PICK v : v = Leaves(d, n)
  OBVIOUS
<1>8. Weights(v) /\ DOMAIN v = D /\ \A s \in D : v[s] = 2 ^ (n - d[s])
  BY ONLY <1>6, <1>7
<1>9. IsFiniteSet(Symbols) /\ l \in [Symbols -> 0..n]
  BY SymbolFacts
<1>10. /\ Weights(Shares(l, n)) /\ DOMAIN Shares(l, n) = Symbols
       /\ \A s \in Symbols :
            /\ l[s] \in 0..n /\ n - l[s] \in Nat /\ 2 ^ (n - l[s]) \in Nat
            /\ 2 ^ (n - l[s]) >= 1
            /\ Shares(l, n)[s] = IF l[s] = 0 THEN 0 ELSE 2 ^ (n - l[s])
  BY ONLY <1>9, SharesFacts, n \in Nat
<1>11. PICK w : w = Shares(l, n)
  OBVIOUS
<1>12. /\ Weights(w) /\ DOMAIN w = Symbols
       /\ \A s \in Symbols : w[s] = IF l[s] = 0 THEN 0 ELSE 2 ^ (n - l[s])
  BY ONLY <1>10, <1>11
<1>13. ASSUME NEW s \in D PROVE w[s] <= v[s]
  <2>1. PICK a \in Nat, b \in Nat : a = n - l[s] /\ b = n - d[s] /\ a <= b
    BY <1>4
  <2>2. 2 ^ a <= 2 ^ b
    BY <2>1, PowerMono
  <2>3. w[s] = 2 ^ a
    BY <1>2, <1>4, <1>12, <2>1
  <2> QED
    BY <1>8, <2>1, <2>2, <2>3
<1>14. Total(w, D) <= Total(v, D)
  BY <1>2, <1>8, <1>12, <1>13, TotalMono
<1>15. Total(v, D) = 2 ^ n
  BY <1>1, <1>3, <1>5, <1>7 DEF Full
<1>16. Total(w, Symbols \ D) = 0
  <2>1. \A s \in Symbols \ D : w[s] = 0
    BY <1>1, <1>12
  <2> QED
    BY <1>12, <2>1, TotalZero
<1>17. Total(w, Symbols) = Total(w, D) + Total(w, Symbols \ D)
  <2>1. Total(w, D \cup (Symbols \ D)) = Total(w, D) + Total(w, Symbols \ D)
    BY <1>2, <1>12, TotalUnion
  <2> QED
    BY <1>2, <2>1
<1>18. Total(w, D) \in Nat /\ 2 ^ n \in Nat
  BY <1>2, <1>12, TotalFacts, Powers
<1> QED
  BY <1>11, <1>14, <1>15, <1>16, <1>17, <1>18

\* The lengths are those of the one tree.
LEMMA TreesTakeLengths ==
  ASSUME HuffmanInv, TreesInv, H!TakeLengths
  PROVE  TreesInv'
<1> SUFFICES ASSUME written' PROVE TreesInv'
  BY DEF TreesInv
<1>1. /\ pc = "merge" /\ pc' = "codes" /\ written' = written /\ input' = input
      /\ \A t, u \in queue : t = u
      /\ lengths' = [s \in Symbols |->
           IF \E t \in queue : s \in DOMAIN t.depth
           THEN H!Bits((CHOOSE t \in queue : TRUE).depth[s]) ELSE 0]
  BY DEF H!TakeLengths
<1>2. /\ \A v \in queue : Full(v) /\ IsTree(v)
      /\ \A s \in Symbols : Occurs(s) <=> \E v \in queue : s \in DOMAIN v.depth
  BY <1>1 DEF TreesInv, HuffmanInv
<1>3. \A s \in Symbols : Occurs(s)' <=> Occurs(s)
  BY <1>1 DEF Occurs, H!Frequency
<1>4. PICK l : l = lengths'
  OBVIOUS
<1>5. CASE queue = {}
  <2>1. \A s \in Symbols : l[s] = 0
    BY <1>1, <1>4, <1>5
  <2>2. \A s \in Symbols : ~Occurs(s)
    BY <1>2, <1>5
  <2>3. Fits(l)
    <3> SUFFICES ASSUME NEW n \in Nat, l \in [Symbols -> 0..n] PROVE Total(Shares(l, n), Symbols) <= 2 ^ n
      BY DEF Fits
    <3>1. PICK k \in [Symbols -> 0..n] : k = l
      OBVIOUS
    <3>2. /\ Weights(Shares(k, n)) /\ DOMAIN Shares(k, n) = Symbols
          /\ \A s \in Symbols :
               /\ k[s] \in 0..n /\ n - k[s] \in Nat /\ 2 ^ (n - k[s]) \in Nat
               /\ 2 ^ (n - k[s]) >= 1
               /\ Shares(k, n)[s] = IF k[s] = 0 THEN 0 ELSE 2 ^ (n - k[s])
      <4>1. IsFiniteSet(Symbols) /\ k \in [Symbols -> 0..n]
        BY SymbolFacts
      <4> QED
        BY ONLY <4>1, SharesFacts, n \in Nat
    <3>3. PICK w : w = Shares(k, n)
      OBVIOUS
    <3>4. Weights(w) /\ DOMAIN w = Symbols /\ \A s \in Symbols : w[s] = 0
      BY ONLY <2>1, <3>1, <3>2, <3>3, Zenon
    <3>5. Total(w, Symbols) = 0
      BY ONLY <3>4, TotalZero
    <3>6. Total(Shares(l, n), Symbols) = 0
      BY <3>1, <3>3, <3>5
    <3> QED
      BY <3>6, Powers
  <2>4. Fits(lengths') /\ \A s \in Symbols : Occurs(s)' <=> lengths'[s] > 0
    BY <1>3, <1>4, <2>1, <2>2, <2>3
  <2> QED
    BY <1>1, <2>4 DEF TreesInv, Fits
<1>6. CASE queue # {}
  <2>1. PICK t \in queue : t = CHOOSE u \in queue : TRUE
    BY <1>6
  <2>2. /\ \A u \in queue : u = t
        /\ IsTree(t) /\ Full(t)
    BY <1>1, <1>2
  <2>3. l = [s \in Symbols |-> IF s \in DOMAIN t.depth THEN H!Bits(t.depth[s]) ELSE 0]
    BY <1>1, <1>4, <2>1, <2>2
  <2>4. DOMAIN t.depth \in SUBSET Symbols /\ \A s \in DOMAIN t.depth : t.depth[s] \in Nat
    BY <2>2 DEF IsTree
  <2>5. \A s \in DOMAIN t.depth : /\ l[s] \in Nat /\ l[s] >= t.depth[s] /\ l[s] >= 1
    <3> TAKE s \in DOMAIN t.depth
    <3>1. PICK d \in Nat : d = t.depth[s]
      BY <2>4
    <3>2. H!Bits(d) \in Nat /\ H!Bits(d) >= d /\ H!Bits(d) >= 1
      BY BitsFacts
    <3>3. l[s] = H!Bits(d)
      BY <2>3, <2>4, <3>1
    <3> QED
      BY ONLY <3>1, <3>2, <3>3
  <2>6. \A s \in Symbols \ DOMAIN t.depth : l[s] = 0
    BY <2>3
  <2>7. l \in [Symbols -> Nat]
    BY <2>3, <2>5, <2>6
  <2>8. Fits(l)
    BY ONLY <2>2, <2>5, <2>6, <2>7, TreeFits
  <2>9. ASSUME NEW s \in Symbols PROVE Occurs(s) <=> l[s] > 0
    <3>1. Occurs(s) <=> s \in DOMAIN t.depth
      BY <1>2, <2>2
    <3>2. s \in DOMAIN t.depth => l[s] \in Nat /\ l[s] >= 1
      BY <2>5
    <3>3. s \notin DOMAIN t.depth => l[s] = 0
      BY <2>6
    <3> QED
      BY <3>1, <3>2, <3>3
  <2>10. Fits(lengths') /\ \A s \in Symbols : Occurs(s)' <=> lengths'[s] > 0
    BY <1>3, <1>4, <2>8, <2>9
  <2> QED
    BY <1>1, <2>10 DEF TreesInv, Fits
<1> QED
  BY <1>5, <1>6

\* A step that leaves the trees and the lengths alone.
LEMMA TreesStays ==
  ASSUME TreesInv, UNCHANGED <<written, input, lengths>>,
         pc' = "merge" <=> pc = "merge", pc = "merge" => queue' = queue
  PROVE  TreesInv'
<1>1. written' = written /\ input' = input /\ lengths' = lengths
  OBVIOUS
<1>2. Counts' = Counts /\ \A s \in Symbols : Occurs(s)' <=> Occurs(s)
  BY <1>1 DEF Counts, Occurs, H!Frequency
<1>3. CASE pc = "merge"
  <2>1. queue' = queue /\ pc' = "merge"
    BY <1>3
  <2>2. ASSUME written
        PROVE  /\ IsFiniteSet(queue')
               /\ \A t \in queue' : Full(t) /\ t.frequency = Total(Counts', DOMAIN t.depth)
               /\ \A s \in Symbols : Occurs(s)' <=> \E t \in queue' : s \in DOMAIN t.depth
    BY <1>2, <1>3, <2>1, <2>2 DEF TreesInv
  <2> QED
    BY <1>1, <2>1, <2>2 DEF TreesInv
<1>4. CASE pc # "merge"
  <2>1. pc' # "merge"
    BY <1>4
  <2>2. ASSUME written PROVE Fits(lengths') /\ \A s \in Symbols : Occurs(s)' <=> lengths'[s] > 0
    BY <1>1, <1>2, <1>4, <2>2 DEF TreesInv
  <2> QED
    BY <1>1, <2>1, <2>2 DEF TreesInv, Fits
<1> QED
  BY <1>3, <1>4

\* Every step keeps what is known of the trees and of the lengths.
LEMMA TreesStep ==
  ASSUME HuffmanInv, TreesInv, H!Next
  PROVE  TreesInv'
<1>1. CASE H!AssignCode \/ H!RefuseLengths \/ H!StartWriting \/ H!StartReading \/ H!WriteSymbol
           \/ H!ReadBit \/ H!FinishReading \/ H!ReadError \/ H!FinishWriting
  <2>1. UNCHANGED <<written, input, lengths>> /\ pc # "merge" /\ pc' # "merge"
    BY <1>1 DEF H!AssignCode, H!RefuseLengths, H!StartWriting, H!StartReading, H!WriteSymbol, H!ReadBit,
                H!FinishReading, H!ReadError, H!FinishWriting, H!file
  <2> QED
    BY <2>1, TreesStays
<1> QED
  BY <1>1, TreesMerge, TreesTakeLengths DEF H!Next

-----------------------------------------------------------------------------
(* The codes of a table are determined by its lengths.                     *)

\* The canonical order of the symbols that have a code.
Ahead(l, s, x) == l[s] < l[x] \/ (l[s] = l[x] /\ s < x)
Earlier(l, s) == {x \in Symbols : l[x] > 0 /\ Ahead(l, x, s)}
Nearest(l, p, s) ==
  p \in Earlier(l, s) /\ \A x \in Earlier(l, s) : x = p \/ Ahead(l, x, p)

\* A code is the one after that of the symbol before.
Follows(T, l, s) ==
  \/ Earlier(l, s) = {} /\ T[s] = Filled(<<>>, l[s])
  \/ \E p \in Symbols : Nearest(l, p, s) /\ T[s] = Filled(H!Successor(T[p]), l[s])
Canonical(T, l) ==
  \A s \in Symbols : IF l[s] = 0 THEN T[s] = <<>> ELSE Follows(T, l, s)

\* The canonical order is an order.
LEMMA AheadFacts ==
  ASSUME NEW l \in [Symbols -> Nat]
  PROVE  /\ \A s, x \in Symbols : s = x \/ Ahead(l, s, x) \/ Ahead(l, x, s)
         /\ \A s, x \in Symbols : Ahead(l, s, x) => ~Ahead(l, x, s) /\ s # x
         /\ \A s, x, y \in Symbols : Ahead(l, s, x) /\ Ahead(l, x, y) => Ahead(l, s, y)
<1>1. \A s \in Symbols : s \in Nat /\ l[s] \in Nat
  BY SymbolFacts
<1> QED
  BY <1>1 DEF Ahead

\* Every set of symbols has a first one.
LEMMA FirstAhead ==
  ASSUME NEW l \in [Symbols -> Nat], NEW S \in SUBSET Symbols, S # {}
  PROVE  \E s \in S : \A x \in S : x = s \/ Ahead(l, s, x)
<1> DEFINE Ls == {l[s] : s \in S}
<1>1. \A s \in Symbols : s \in Nat /\ l[s] \in Nat
  BY SymbolFacts
<1>2. PICK m \in Ls : \A h \in Ls : m <= h
  <2>1. Ls \in SUBSET Nat /\ Ls # {}
    BY <1>1
  <2> HIDE DEF Ls
  <2> QED
    BY <2>1, LeastNatural
<1> DEFINE Ss == {s \in S : l[s] = m}
<1>3. PICK s \in Ss : \A h \in Ss : s <= h
  <2>1. Ss \in SUBSET Nat /\ Ss # {}
    BY <1>1
  <2> HIDE DEF Ss
  <2> QED
    BY <2>1, LeastNatural
<1>4. s \in S /\ l[s] = m
  OBVIOUS
<1>5. ASSUME NEW x \in S, x # s PROVE Ahead(l, s, x)
  <2>1. l[x] \in Nat /\ m \in Nat /\ x \in Nat /\ s \in Nat /\ m <= l[x]
    BY <1>1, <1>2, <1>4
  <2>2. l[x] = m => s <= x
    BY <1>3
  <2> QED
    BY <1>4, <1>5, <2>1, <2>2 DEF Ahead
<1> QED
  BY <1>4, <1>5

\* There is only one canonical table of given lengths.
LEMMA CanonicalOnce ==
  ASSUME NEW l \in [Symbols -> Nat], NEW T \in [Symbols -> Seq({0, 1})], NEW Others \in [Symbols -> Seq({0, 1})],
         Canonical(T, l), Canonical(Others, l)
  PROVE  T = Others
<1> DEFINE S == {s \in Symbols : T[s] # Others[s]}
<1>1. SUFFICES ASSUME S # {} PROVE FALSE
  OBVIOUS
<1>2. PICK s \in S : \A x \in S : x = s \/ Ahead(l, s, x)
  <2>1. S \in SUBSET Symbols
    OBVIOUS
  <2> HIDE DEF S
  <2> QED
    BY <1>1, <2>1, FirstAhead
<1>3. s \in Symbols /\ T[s] # Others[s]
  OBVIOUS
<1>4. ASSUME NEW x \in Symbols, Ahead(l, x, s) PROVE T[x] = Others[x]
  <2>1. x # s /\ ~Ahead(l, s, x)
    BY <1>3, <1>4, AheadFacts
  <2> QED
    BY <1>2, <2>1
<1>5. l[s] # 0
  BY <1>3 DEF Canonical
<1>6. Follows(T, l, s) /\ Follows(Others, l, s)
  BY <1>3, <1>5 DEF Canonical
<1>7. CASE Earlier(l, s) = {}
  <2>1. \A p \in Symbols : ~Nearest(l, p, s)
    BY <1>7 DEF Nearest
  <2> QED
    BY <1>3, <1>6, <2>1 DEF Follows
<1>8. CASE Earlier(l, s) # {}
  <2>1. PICK p \in Symbols : Nearest(l, p, s) /\ T[s] = Filled(H!Successor(T[p]), l[s])
    BY <1>6, <1>8 DEF Follows
  <2>2. PICK q \in Symbols : Nearest(l, q, s) /\ Others[s] = Filled(H!Successor(Others[q]), l[s])
    BY <1>6, <1>8 DEF Follows
  <2>3. p = q
    <3>1. p = q \/ Ahead(l, q, p)
      BY <2>1, <2>2 DEF Nearest
    <3>2. q = p \/ Ahead(l, p, q)
      BY <2>1, <2>2 DEF Nearest
    <3> QED
      BY <3>1, <3>2, AheadFacts
  <2>4. T[p] = Others[p]
    BY <1>4, <2>1 DEF Nearest, Earlier
  <2> QED
    BY <1>3, <2>1, <2>2, <2>3, <2>4
<1> QED
  BY <1>7, <1>8

\* The codes that are there are the first of their table.
OrderInv ==
  /\ \A s \in H!Given : lengths[s] > 0 /\ Follows(codes, lengths, s) /\ Earlier(lengths, s) \subseteq H!Given
  /\ current = <<>> => H!Given = {}
  /\ current # <<>> => \E s \in H!Given : /\ codes[s] = current
                                          /\ \A x \in H!Given : x = s \/ Ahead(lengths, x, s)

\* Without codes there is nothing to order.
LEMMA OrderNone ==
  ASSUME codes = [s \in Symbols |-> <<>>], current = <<>>
  PROVE  OrderInv
<1>1. H!Given = {}
  BY DEF H!Given, H!None
<1> QED
  BY <1>1 DEF OrderInv

\* The first in the canonical order is given the next code.
LEMMA FirstIsAhead ==
  ASSUME lengths \in [Symbols -> Nat], H!Pending # {}
  PROVE  H!First \in H!Pending /\ \A x \in H!Pending : x = H!First \/ Ahead(lengths, H!First, x)
<1>1. H!Pending \in SUBSET Symbols
  BY DEF H!Pending
<1>2. PICK s \in H!Pending : \A x \in H!Pending : x = s \/ Ahead(lengths, s, x)
  BY <1>1, FirstAhead
<1>3. s \in H!Pending /\ \A x \in H!Pending \ {s} :
        lengths[s] < lengths[x] \/ (lengths[s] = lengths[x] /\ s < x)
  BY <1>2 DEF Ahead
<1>4. /\ H!First \in H!Pending
      /\ \A x \in H!Pending \ {H!First} :
           lengths[H!First] < lengths[x] \/ (lengths[H!First] = lengths[x] /\ H!First < x)
  BY <1>3 DEF H!First
<1> QED
  BY <1>4 DEF Ahead

\* The code that is given follows the nearest one before it.
LEMMA AssignOrder ==
  ASSUME HuffmanInv, OrderInv, H!AssignCode
  PROVE  OrderInv'
<1>1. PICK f \in Symbols :
           /\ f = H!First /\ lengths[f] \in Nat /\ lengths[f] > 0 /\ codes[f] = <<>>
           /\ codes' = [codes EXCEPT ![f] = Filled(Next1, lengths[f])]
           /\ current' = Filled(Next1, lengths[f]) /\ current' # <<>>
           /\ lengths' = lengths
  BY AssignIs
<1>2. /\ codes \in [Symbols -> Seq({0, 1})] /\ lengths \in [Symbols -> Nat]
  BY DEF HuffmanInv, H!TypeOK, H!Bit
<1>3. codes'[f] = current' /\ \A s \in Symbols : s # f => codes'[s] = codes[s]
  BY <1>1, <1>2
<1>4. H!Given' = H!Given \cup {f} /\ f \notin H!Given /\ H!Given \in SUBSET Symbols
  BY <1>1, <1>3 DEF H!Given, H!None
<1>5. \A x \in H!Pending : x = f \/ Ahead(lengths, f, x)
  <2>1. H!Pending # {}
    BY DEF H!AssignCode
  <2> QED
    BY <1>1, <1>2, <2>1, FirstIsAhead
<1>6. Earlier(lengths, f) = H!Given
  <2>1. ASSUME NEW x \in Earlier(lengths, f) PROVE x \in H!Given
    <3>1. x \in Symbols /\ lengths[x] > 0 /\ Ahead(lengths, x, f)
      BY DEF Earlier
    <3>2. x # f /\ ~Ahead(lengths, f, x)
      BY <1>2, <3>1, AheadFacts
    <3>3. x \notin H!Pending
      BY <1>5, <3>2
    <3> QED
      BY <3>1, <3>3 DEF H!Pending, H!Given
  <2>2. ASSUME NEW x \in H!Given PROVE x \in Earlier(lengths, f)
    <3>1. x \in Symbols /\ lengths[x] > 0 /\ x # f /\ Earlier(lengths, x) \subseteq H!Given
      BY <1>4 DEF OrderInv
    <3>2. CASE Ahead(lengths, f, x)
      <4>1. f \in Earlier(lengths, x)
        BY <1>1, <3>2 DEF Earlier
      <4> QED
        BY <1>4, <3>1, <4>1
    <3>3. CASE Ahead(lengths, x, f)
      BY <3>1, <3>3 DEF Earlier
    <3> QED
      BY <1>2, <3>1, <3>2, <3>3, AheadFacts
  <2> QED
    BY <2>1, <2>2
<1>7. Follows(codes', lengths, f)
  <2>1. CASE current = <<>>
    <3>1. Earlier(lengths, f) = {} /\ Next1 = <<>>
      BY <1>6, <2>1 DEF OrderInv, Next1
    <3> QED
      BY <1>1, <1>3, <3>1 DEF Follows
  <2>2. CASE current # <<>>
    <3>1. PICK s \in H!Given : codes[s] = current /\ \A x \in H!Given : x = s \/ Ahead(lengths, x, s)
      BY <2>2 DEF OrderInv
    <3>2. Nearest(lengths, s, f) /\ s \in Symbols
      BY <1>4, <1>6, <3>1 DEF Nearest
    <3>3. codes'[s] = current /\ Next1 = H!Successor(current)
      BY <1>3, <1>4, <2>2, <3>1 DEF Next1
    <3>4. codes'[f] = Filled(H!Successor(codes'[s]), lengths[f])
      BY <1>1, <1>3, <3>3
    <3> QED
      BY <3>2, <3>4 DEF Follows
  <2> QED
    BY <2>1, <2>2
<1>8. ASSUME NEW s \in H!Given PROVE Follows(codes', lengths, s)
  <2>1. Follows(codes, lengths, s) /\ Earlier(lengths, s) \subseteq H!Given /\ s \in Symbols /\ s # f
    BY <1>4 DEF OrderInv
  <2>2. codes'[s] = codes[s]
    BY <1>3, <2>1
  <2>3. \A p \in Symbols : Nearest(lengths, p, s) => codes'[p] = codes[p]
    BY <1>3, <1>4, <2>1 DEF Nearest
  <2> QED
    BY <2>1, <2>2, <2>3 DEF Follows
<1>9. ASSUME NEW s \in H!Given'
      PROVE  lengths'[s] > 0 /\ Follows(codes', lengths', s) /\ Earlier(lengths', s) \subseteq H!Given'
  <2>1. CASE s = f
    BY <1>1, <1>4, <1>6, <1>7, <2>1
  <2>2. CASE s # f
    <3>1. s \in H!Given
      BY <1>4, <2>2
    <3> QED
      BY <1>1, <1>4, <1>8, <3>1 DEF OrderInv
  <2> QED
    BY <2>1, <2>2
<1>10. \A x \in H!Given' : x = f \/ Ahead(lengths', x, f)
  BY <1>1, <1>4, <1>6 DEF Earlier
<1>11. f \in H!Given'
  BY <1>4
<1> QED
  BY <1>1, <1>3, <1>9, <1>10, <1>11 DEF OrderInv

\* Every step gives the codes in order.
LEMMA OrderStep ==
  ASSUME HuffmanInv, OrderInv, H!Next
  PROVE  OrderInv'
<1>1. CASE H!FinishWriting
  <2>1. codes' = [s \in Symbols |-> <<>>] /\ current' = <<>>
    BY <1>1 DEF H!FinishWriting, H!None
  <2>2. H!Given' = {}
    BY <2>1 DEF H!Given, H!None
  <2> QED
    BY <2>1, <2>2 DEF OrderInv
<1>2. CASE H!TakeLengths
  <2>1. pc = "merge" /\ codes' = codes /\ current' = current
    BY <1>2 DEF H!TakeLengths, H!table
  <2>2. current = <<>> /\ \A s \in Symbols : codes[s] = <<>>
    BY <2>1 DEF HuffmanInv, CodesOK
  <2>3. H!Given' = {}
    BY <2>1, <2>2 DEF H!Given, H!None
  <2> QED
    BY <2>1, <2>2, <2>3 DEF OrderInv
<1>3. CASE H!Merge \/ H!RefuseLengths \/ H!StartWriting \/ H!StartReading \/ H!WriteSymbol
           \/ H!ReadBit \/ H!FinishReading \/ H!ReadError
  <2>1. UNCHANGED <<lengths, codes, current>>
    BY <1>3 DEF H!Merge, H!RefuseLengths, H!StartWriting, H!StartReading, H!WriteSymbol, H!ReadBit,
                H!FinishReading, H!ReadError, H!file, H!table
  <2>2. lengths' = lengths /\ codes' = codes /\ current' = current /\ H!Given' = H!Given
    BY <2>1 DEF H!Given
  <2> QED
    BY <2>2 DEF OrderInv
<1> QED
  BY <1>1, <1>2, <1>3, AssignOrder DEF H!Next

\* When no symbol is left the table is complete.
LEMMA OrderSays ==
  ASSUME HuffmanInv, OrderInv, H!Pending = {}
  PROVE  Canonical(codes, lengths)
<1>1. /\ codes \in [Symbols -> Seq({0, 1})] /\ lengths \in [Symbols -> Nat]
      /\ \A s \in Symbols : Len(codes[s]) \in {0, lengths[s]}
  BY DEF HuffmanInv, H!TypeOK, H!Bit
<1>2. ASSUME NEW s \in Symbols PROVE IF lengths[s] = 0 THEN codes[s] = <<>> ELSE Follows(codes, lengths, s)
  <2>1. CASE lengths[s] = 0
    <3>1. Len(codes[s]) = 0 /\ codes[s] \in Seq({0, 1})
      BY <1>1, <2>1
    <3>2. codes[s] = <<>>
      BY <3>1
    <3> QED
      BY <2>1, <3>2
  <2>2. CASE lengths[s] # 0
    <3>1. lengths[s] > 0
      BY <1>1, <2>2
    <3>2. s \in H!Given
      BY <3>1 DEF H!Pending, H!Given
    <3> QED
      BY <2>2, <3>2 DEF OrderInv
  <2> QED
    BY <2>1, <2>2
<1> QED
  BY <1>2 DEF Canonical

-----------------------------------------------------------------------------
(* What is written is read back.                                           *)

\* What it means for a code to be a prefix.
LEMMA PrefixOf ==
  ASSUME NEW S, NEW u \in Seq(S), NEW v \in Seq(S), Len(u) <= Len(v), \A i \in 1..Len(u) : u[i] = v[i]
  PROVE  H!IsPrefix(u, v)
<1>1. PICK n \in Nat : n = Len(u)
  OBVIOUS
<1>2. \A x \in Seq(S) : n <= Len(x) =>
        /\ SubSeq(x, 1, n) \in Seq(S) /\ Len(SubSeq(x, 1, n)) = n
        /\ \A i \in 1..n : SubSeq(x, 1, n)[i] = x[i]
  <2> SUFFICES ASSUME NEW x \in Seq(S), n <= Len(x)
               PROVE  /\ SubSeq(x, 1, n) \in Seq(S) /\ Len(SubSeq(x, 1, n)) = n
                      /\ \A i \in 1..n : SubSeq(x, 1, n)[i] = x[i]
    OBVIOUS
  <2>1. \A i \in 1..n : x[i] \in S /\ 1 + i - 1 = i
    OBVIOUS
  <2>2. 1 \in Int /\ n \in Int /\ n - 1 + 1 = n /\ (~(1 <= n) => n = 0)
    OBVIOUS
  <2>3. /\ SubSeq(x, 1, n) \in Seq(S)
        /\ Len(SubSeq(x, 1, n)) = IF 1 <= n THEN n - 1 + 1 ELSE 0
        /\ \A i \in 1..n - 1 + 1 : SubSeq(x, 1, n)[i] = x[1 + i - 1]
    BY ONLY <2>1, <2>2, SubSeqProperties
  <2>4. Len(SubSeq(x, 1, n)) = n
    BY ONLY <2>2, <2>3, n \in Nat
  <2> QED
    BY ONLY <2>1, <2>2, <2>3, <2>4
<1>3. PICK a : a = SubSeq(u, 1, n)
  OBVIOUS
<1>4. PICK b : b = SubSeq(v, 1, n)
  OBVIOUS
<1>5. /\ a \in Seq(S) /\ b \in Seq(S) /\ Len(a) = n /\ Len(b) = n
      /\ \A i \in 1..n : a[i] = b[i]
  BY <1>1, <1>2, <1>3, <1>4
<1>6. a = b
  BY ONLY <1>5, SeqEqual
<1> QED
  BY <1>1, <1>3, <1>4, <1>6 DEF H!IsPrefix

\* What Padding appends.
LEMMA PaddingIs ==
  ASSUME NEW bits \in Seq({0, 1})
  PROVE  \E r \in 0..ByteBits - 1 :
           /\ H!Padding(bits) \in Seq({0, 1}) /\ Len(H!Padding(bits)) = Len(bits) + r
           /\ \A i \in 1..Len(bits) : H!Padding(bits)[i] = bits[i]
           /\ \A i \in Len(bits) + 1..Len(bits) + r : H!Padding(bits)[i] = 0
<1>1. PICK n \in Nat : n = Len(bits)
  OBVIOUS
<1>2. PICK r \in 0..ByteBits - 1 : r = (-n) % ByteBits
  BY PaddingFacts, SymbolFacts
<1>3. PICK z : z = [i \in 1..r |-> 0]
  OBVIOUS
<1>4. r \in Nat
  BY SymbolFacts
<1>5. z \in Seq({0, 1}) /\ Len(z) = r /\ \A i \in 1..r : z[i] = 0
  BY <1>3, <1>4
<1>6. PICK x : x = H!Padding(bits) /\ x = bits \o z
  BY <1>1, <1>2, <1>3 DEF H!Padding
<1>7. /\ bits \o z \in Seq({0, 1}) /\ Len(bits \o z) = Len(bits) + Len(z)
      /\ \A i \in 1..Len(bits) + Len(z) : (bits \o z)[i] = IF i <= Len(bits) THEN bits[i] ELSE z[i - Len(bits)]
  BY ONLY <1>5, ConcatProperties, bits \in Seq({0, 1})
<1>8. /\ x \in Seq({0, 1}) /\ Len(x) = n + r
      /\ \A i \in 1..n + r : x[i] = IF i <= n THEN bits[i] ELSE z[i - n]
  BY ONLY <1>1, <1>5, <1>6, <1>7
<1>9. \A i \in 1..n : x[i] = bits[i]
  BY ONLY <1>8, <1>4, n \in Nat
<1>10. \A i \in n + 1..n + r : x[i] = 0
  BY ONLY <1>8, <1>4, <1>5, n \in Nat
<1> QED
  BY ONLY <1>1, <1>6, <1>8, <1>9, <1>10, r \in 0..ByteBits - 1

\* The codes of the first symbols of a word.
CodesOf(T, w, k) == [i \in 1..k |-> T[w[i]]]
Spelled(T, w, k) == H!FlattenSeq(CodesOf(T, w, k))

\* The codes of one symbol more.
LEMMA CodesOfMore ==
  ASSUME NEW T \in [Symbols -> Seq({0, 1})], NEW w \in Seq(Symbols), NEW k \in Nat, k + 1 <= Len(w)
  PROVE  /\ CodesOf(T, w, k) \in Seq(Seq({0, 1})) /\ T[w[k + 1]] \in Seq({0, 1})
         /\ CodesOf(T, w, k + 1) = Append(CodesOf(T, w, k), T[w[k + 1]])
<1>1. \A i \in 1..k + 1 : T[w[i]] \in Seq({0, 1})
  OBVIOUS
<1>2. PICK a : a = CodesOf(T, w, k)
  OBVIOUS
<1>3. PICK b : b = CodesOf(T, w, k + 1)
  OBVIOUS
<1>4. a \in Seq(Seq({0, 1})) /\ Len(a) = k /\ \A i \in 1..k : a[i] = T[w[i]]
  BY <1>1, <1>2 DEF CodesOf
<1>5. b \in Seq(Seq({0, 1})) /\ Len(b) = k + 1 /\ \A i \in 1..k + 1 : b[i] = T[w[i]]
  BY <1>1, <1>3 DEF CodesOf
<1>6. PICK x \in Seq({0, 1}) : x = T[w[k + 1]]
  BY <1>1
<1>7. PICK more : more = Append(a, x)
  OBVIOUS
<1>8. /\ more \in Seq(Seq({0, 1})) /\ Len(more) = k + 1 /\ more[k + 1] = x
      /\ \A i \in 1..k : more[i] = a[i]
  BY ONLY <1>4, <1>6, <1>7, AppendProperties
<1>9. \A i \in 1..k + 1 : i \in 1..k \/ i = k + 1
  OBVIOUS
<1>10. k + 1 \in 1..k + 1
  OBVIOUS
<1>11. \A i \in 1..k + 1 : b[i] = more[i]
  <2> TAKE i \in 1..k + 1
  <2>1. b[i] = T[w[i]]
    BY ONLY <1>5, i \in 1..k + 1, Zenon
  <2>2. CASE i \in 1..k
    BY ONLY <1>4, <1>8, <2>1, <2>2, Zenon
  <2>3. CASE i = k + 1
    BY ONLY <1>6, <1>8, <2>1, <2>3, Zenon
  <2> QED
    BY ONLY <1>9, <2>2, <2>3, i \in 1..k + 1, Zenon
<1>12. b = more
  BY ONLY <1>5, <1>8, <1>11, SeqEqual
<1> QED
  BY <1>2, <1>3, <1>4, <1>6, <1>7, <1>12

\* No symbols are spelled by no bits.
LEMMA SpelledNone ==
  ASSUME NEW T, NEW w
  PROVE  Spelled(T, w, 0) = <<>> /\ CodesOf(T, w, 0) = <<>>
<1>1. CodesOf(T, w, 0) = <<>>
  <2>1. 1..0 = {}
    OBVIOUS
  <2> QED
    BY <2>1 DEF CodesOf
<1> QED
  BY <1>1 DEF Spelled, H!FlattenSeq

\* One symbol more is spelled by its code.
LEMMA SpelledMore ==
  ASSUME NEW T \in [Symbols -> Seq({0, 1})], NEW w \in Seq(Symbols), NEW k \in Nat, k + 1 <= Len(w)
  PROVE  /\ Spelled(T, w, k) \in Seq({0, 1}) /\ T[w[k + 1]] \in Seq({0, 1})
         /\ Spelled(T, w, k + 1) = Spelled(T, w, k) \o T[w[k + 1]]
<1>1. PICK a, x, b : a = CodesOf(T, w, k) /\ x = T[w[k + 1]] /\ b = CodesOf(T, w, k + 1)
  OBVIOUS
<1>2. a \in Seq(Seq({0, 1})) /\ x \in Seq({0, 1}) /\ b = Append(a, x)
  BY <1>1, CodesOfMore
<1>3. /\ H!FlattenSeq(a) \in Seq({0, 1})
      /\ H!FlattenSeq(Append(a, x)) = H!FlattenSeq(a) \o x
  BY ONLY <1>2, FlattenMore
<1> QED
  BY <1>1, <1>2, <1>3 DEF Spelled

\* What has been spelled stays in front.
LEMMA SpelledPart ==
  ASSUME NEW T \in [Symbols -> Seq({0, 1})], NEW w \in Seq(Symbols), NEW k \in 0..Len(w)
  PROVE  /\ Spelled(T, w, k) \in Seq({0, 1})
         /\ Len(Spelled(T, w, k)) <= Len(Spelled(T, w, Len(w)))
         /\ \A i \in 1..Len(Spelled(T, w, k)) : Spelled(T, w, Len(w))[i] = Spelled(T, w, k)[i]
<1>1. PICK N \in Nat : N = Len(w)
  OBVIOUS
<1>2. PICK f : f = [m \in 0..N |-> Spelled(T, w, m)]
  OBVIOUS
<1>3. \A m \in 0..N : f[m] = Spelled(T, w, m)
  BY <1>2
<1>4. ASSUME NEW m \in 0..N PROVE f[m] \in Seq({0, 1})
  <2>1. CASE m = 0
    <3>1. Spelled(T, w, 0) = <<>>
      BY SpelledNone
    <3>2. f[m] = <<>>
      BY <1>3, <2>1, <3>1
    <3>3. <<>> \in Seq({0, 1})
      OBVIOUS
    <3> QED
      BY <3>2, <3>3
  <2>2. CASE m # 0
    <3>1. PICK h \in Nat : h = m - 1 /\ h + 1 <= Len(w) /\ h + 1 = m
      BY <1>1, <2>2
    <3>2. PICK a, x : a = Spelled(T, w, h) /\ x = T[w[h + 1]]
      OBVIOUS
    <3>3. a \in Seq({0, 1}) /\ x \in Seq({0, 1}) /\ Spelled(T, w, h + 1) = a \o x
      BY <3>1, <3>2, SpelledMore
    <3>4. a \o x \in Seq({0, 1})
      BY ONLY <3>3, ConcatProperties
    <3> QED
      BY <1>3, <3>1, <3>3, <3>4
  <2> QED
    BY <2>1, <2>2
<1> DEFINE Good(m) == /\ Len(f[m]) <= Len(f[N])
                      /\ \A i \in 1..Len(f[m]) : f[N][i] = f[m][i]
           Bad == {r \in 0..N : ~Good(N - r)}
<1>5. ASSUME NEW m \in 0..N, m # N, Good(m + 1) PROVE Good(m)
  <2>1. m \in Nat /\ m + 1 <= Len(w) /\ m + 1 \in 0..N
    BY <1>1, <1>5
  <2>2. PICK x \in Seq({0, 1}) : f[m + 1] = f[m] \o x
    <3>1. T[w[m + 1]] \in Seq({0, 1}) /\ Spelled(T, w, m + 1) = Spelled(T, w, m) \o T[w[m + 1]]
      BY ONLY <2>1, SpelledMore, T \in [Symbols -> Seq({0, 1})], w \in Seq(Symbols)
    <3> QED
      BY <1>3, <2>1, <3>1
  <2>3. PICK a \in Seq({0, 1}), b \in Seq({0, 1}), c \in Seq({0, 1}) : a = f[m] /\ b = f[m + 1] /\ c = f[N]
    <3>1. N \in 0..N
      OBVIOUS
    <3> QED
      BY <1>4, <2>1, <3>1
  <2>4. b = a \o x
    BY <2>2, <2>3
  <2>5. /\ Len(a \o x) = Len(a) + Len(x)
        /\ \A i \in 1..Len(a) + Len(x) : (a \o x)[i] = IF i <= Len(a) THEN a[i] ELSE x[i - Len(a)]
    BY ONLY ConcatProperties, a \in Seq({0, 1}), x \in Seq({0, 1})
  <2>6. PICK p \in Nat, q \in Nat, r \in Nat : p = Len(a) /\ q = Len(x) /\ r = Len(c)
    OBVIOUS
  <2>7. Len(b) = p + q /\ \A i \in 1..p + q : b[i] = IF i <= p THEN a[i] ELSE x[i - p]
    BY ONLY <2>4, <2>5, <2>6
  <2>8. Len(b) <= r /\ \A i \in 1..Len(b) : c[i] = b[i]
    BY <1>5, <2>3, <2>6
  <2>9. p <= r /\ \A i \in 1..p : c[i] = a[i]
    BY ONLY <2>7, <2>8, p \in Nat, q \in Nat, r \in Nat
  <2> QED
    BY <2>3, <2>6, <2>9
<1>6. Good(N)
  <2>1. N \in 0..N
    OBVIOUS
  <2>2. PICK c \in Seq({0, 1}) : c = f[N]
    BY <1>4, <2>1
  <2>3. Len(c) <= Len(c)
    OBVIOUS
  <2> QED
    BY <2>2, <2>3
<1>7. Bad = {}
  <2> HIDE DEF Good
  <2> SUFFICES ASSUME Bad # {} PROVE FALSE
    OBVIOUS
  <2>1. Bad \in SUBSET Nat
    OBVIOUS
  <2>2. PICK r \in Bad : \A h \in Bad : r <= h
    <3> HIDE DEF Bad
    <3> QED
      BY <2>1, LeastNatural
  <2>3. r \in 0..N /\ ~Good(N - r)
    OBVIOUS
  <2>4. r # 0
    <3>1. N - 0 = N
      OBVIOUS
    <3> QED
      BY <1>6, <2>3, <3>1
  <2>5. r - 1 \in 0..N /\ ~(r <= r - 1) /\ N - (r - 1) = (N - r) + 1 /\ N - r \in 0..N /\ N - r # N
    BY <2>3, <2>4
  <2>6. Good(N - (r - 1))
    BY <2>2, <2>5
  <2>7. Good((N - r) + 1)
    BY <2>5, <2>6
  <2>8. Good(N - r)
    BY <1>5, <2>5, <2>7
  <2> QED
    BY <2>3, <2>8
<1>8. Good(k)
  <2> HIDE DEF Good
  <2>1. N - k \in 0..N /\ N - (N - k) = k
    BY <1>1
  <2>2. Good(N - (N - k))
    BY <1>7, <2>1
  <2> QED
    BY <2>1, <2>2
<1>9. k \in 0..N /\ N \in 0..N
  BY <1>1
<1> QED
  BY <1>1, <1>3, <1>4, <1>8, <1>9

\* Where the writer and the reader of what was compressed are.
WrittenInv ==
  written =>
    /\ declared = Len(input) /\ pc # "failed"
    /\ pc = "merge" \/ (pc = "codes" /\ ~decoding) => at = 0 /\ stream = <<>>
    /\ pc = "write" => stream = Spelled(codes, input, at)
    /\ pc = "codes" /\ decoding =>
         \E T \in [Symbols -> Seq({0, 1})] :
           Canonical(T, lengths) /\ stream = H!Padding(Spelled(T, input, Len(input)))
    /\ pc \in {"read", "done"} =>
         /\ stream = H!Padding(Spelled(codes, input, Len(input)))
         /\ \A i \in 1..Len(output) : output[i] = input[i]
         /\ Len(output) < Len(input) => Len(prefix) < Len(codes[input[Len(output) + 1]])
    /\ pc = "done" => Len(output) = Len(input)

ReturnInv == HuffmanInv /\ KraftInv /\ TreesInv /\ OrderInv /\ WrittenInv

\* The symbols of the input have codes.
LEMMA InputHasCodes ==
  ASSUME HuffmanInv, KraftInv, TreesInv, written, pc # "merge", H!Pending = {}, NEW i \in 1..Len(input)
  PROVE  /\ input[i] \in H!Used /\ input[i] \in H!Given /\ codes[input[i]] # <<>>
         /\ codes[input[i]] \in Seq({0, 1})
<1>1. /\ input \in Seq(Symbols) /\ codes \in [Symbols -> Seq({0, 1})]
  BY DEF HuffmanInv, H!TypeOK, H!Bit
<1>2. PICK s \in Symbols : s = input[i]
  BY <1>1
<1>3. H!Frequency(s) > 0
  BY <1>1, <1>2, CountsFacts
<1>4. lengths[s] > 0
  BY <1>3 DEF TreesInv, Occurs
<1>5. s \in H!Used /\ s \in H!Given
  BY <1>4 DEF H!Pending, H!Used, H!Given
<1> QED
  BY <1>1, <1>2, <1>5 DEF H!Given, H!None

\* The table that comes with an input fits its size.
LEMMA TableFits ==
  ASSUME HuffmanInv, TreesInv, WrittenInv, written, pc # "merge"
  PROVE  (declared = 0) = (H!Used = {})
<1>1. input \in Seq(Symbols) /\ declared = Len(input) /\ Len(input) \in Nat
  BY DEF HuffmanInv, WrittenInv
<1>2. \A s \in Symbols : s \in H!Used <=> H!Frequency(s) > 0
  BY DEF TreesInv, Occurs, H!Used
<1>3. CASE Len(input) = 0
  <2>1. \A s : {i \in DOMAIN input : input[i] = s} = {}
    BY <1>1, <1>3
  <2>2. Cardinality({}) = 0
    BY FS_EmptySet
  <2>3. \A s : H!Frequency(s) = 0
    BY <2>1, <2>2, SameFinite DEF H!Frequency
  <2>4. H!Used = {}
    BY <1>2, <2>3 DEF H!Used
  <2> QED
    BY <1>1, <1>3, <2>4
<1>4. CASE Len(input) # 0
  <2>1. 1 \in 1..Len(input) /\ input[1] \in Symbols
    BY <1>1, <1>4
  <2>2. H!Frequency(input[1]) > 0
    BY <1>1, <2>1, CountsFacts
  <2>3. H!Used # {}
    BY <1>2, <2>1, <2>2
  <2> QED
    BY <1>1, <1>4, <2>3
<1> QED
  BY <1>3, <1>4

\* The codes of the output are those of the first symbols of the input.
LEMMA OutputSpelled ==
  ASSUME HuffmanInv, WrittenInv, written, pc = "read"
  PROVE  /\ Len(output) \in 0..Len(input)
         /\ SubSeq(stream, 1, read) = Spelled(codes, input, Len(output)) \o prefix
<1>1. /\ output \in Seq(Symbols) /\ Len(output) \in Nat /\ Len(output) <= declared /\ declared = Len(input)
      /\ SubSeq(stream, 1, read) = H!FlattenSeq([i \in DOMAIN output |-> codes[output[i]]]) \o prefix
      /\ input \in Seq(Symbols) /\ DOMAIN output = 1..Len(output)
  <2>1. output \in Seq(Symbols) /\ input \in Seq(Symbols)
    BY DEF HuffmanInv, H!TypeOK
  <2>2. ReadOK
    BY DEF HuffmanInv
  <2>3. declared = Len(input)
    BY DEF WrittenInv
  <2>4. Len(output) \in Nat /\ DOMAIN output = 1..Len(output)
    BY ONLY <2>1, LenProperties
  <2>5. /\ Len(output) <= declared
        /\ SubSeq(stream, 1, read) = H!FlattenSeq([i \in DOMAIN output |-> codes[output[i]]]) \o prefix
    BY <2>2 DEF ReadOK
  <2> QED
    BY ONLY <2>1, <2>3, <2>4, <2>5, Zenon
<1>2. \A i \in 1..Len(output) : output[i] = input[i]
  BY DEF WrittenInv
<1>3. [i \in DOMAIN output |-> codes[output[i]]] = CodesOf(codes, input, Len(output))
  BY <1>1, <1>2 DEF CodesOf
<1>4. Len(output) \in 0..Len(input)
  BY <1>1
<1>5. SubSeq(stream, 1, read) = H!FlattenSeq(CodesOf(codes, input, Len(output))) \o prefix
  BY ONLY <1>1, <1>3, Zenon
<1> QED
  BY ONLY <1>4, <1>5, Zenon DEF Spelled

\* The next bit is the next of the code of the next symbol.
LEMMA NextBitIs ==
  ASSUME ReturnInv, written, pc = "read", Len(output) < Len(input),
         NEW c, c = codes[input[Len(output) + 1]]
  PROVE  /\ c \in Seq({0, 1}) /\ read < Len(stream) /\ H!NextBits \in Seq({0, 1})
         /\ Len(H!NextBits) = Len(prefix) + 1 /\ Len(prefix) < Len(c)
         /\ H!IsPrefix(H!NextBits, c) /\ (Len(prefix) + 1 = Len(c) => H!NextBits = c)
<1>1. /\ input \in Seq(Symbols) /\ codes \in [Symbols -> Seq({0, 1})]
      /\ stream \in Seq({0, 1}) /\ Len(stream) \in Nat /\ read \in 0..Len(stream)
      /\ prefix \in Seq({0, 1}) /\ H!Pending = {}
  <2>1. H!TypeOK /\ input \in Seq(Symbols) /\ ReadOK
    BY DEF ReturnInv, HuffmanInv
  <2>2. /\ codes \in [Symbols -> Seq({0, 1})] /\ stream \in Seq({0, 1}) /\ Len(stream) \in Nat
        /\ read \in 0..Len(stream)
    BY <2>1 DEF H!TypeOK, H!Bit
  <2>3. prefix \in Seq({0, 1})
    BY <2>1 DEF ReadOK
  <2>4. H!Pending = {}
    BY DEF ReturnInv, KraftInv
  <2> QED
    BY ONLY <2>1, <2>2, <2>3, <2>4
<1>2. PICK k \in 0..Len(input) : k = Len(output) /\ SubSeq(stream, 1, read) = Spelled(codes, input, k) \o prefix
  BY OutputSpelled DEF ReturnInv
<1>3. k \in Nat /\ k + 1 <= Len(input) /\ k + 1 \in 0..Len(input) /\ k + 1 \in 1..Len(input)
  BY <1>1, <1>2
<1>4. PICK Done \in Seq({0, 1}) : Done = Spelled(codes, input, k)
  BY <1>1, <1>3, SpelledMore
<1>5. PICK all : all = Spelled(codes, input, Len(input))
  OBVIOUS
<1>6. c \in Seq({0, 1}) /\ Spelled(codes, input, k + 1) = Done \o c
  BY <1>1, <1>2, <1>3, <1>4, SpelledMore
<1>7. /\ Len(Done \o c) <= Len(all) /\ \A i \in 1..Len(Done \o c) : all[i] = (Done \o c)[i]
  BY <1>1, <1>3, <1>5, <1>6, SpelledPart
<1>8. all \in Seq({0, 1})
  <2>1. Len(input) \in 0..Len(input)
    BY <1>1
  <2> QED
    BY <1>1, <1>5, <2>1, SpelledPart
<1>9. stream = H!Padding(all) /\ Len(prefix) < Len(c)
  BY <1>2, <1>5 DEF ReturnInv, WrittenInv
<1>10. Len(all) <= Len(stream) /\ \A i \in 1..Len(all) : stream[i] = all[i]
  <2>1. PICK r \in 0..ByteBits - 1 :
           /\ H!Padding(all) \in Seq({0, 1}) /\ Len(H!Padding(all)) = Len(all) + r
           /\ \A i \in 1..Len(all) : H!Padding(all)[i] = all[i]
           /\ \A i \in Len(all) + 1..Len(all) + r : H!Padding(all)[i] = 0
    BY <1>8, PaddingIs
  <2>2. r \in Nat /\ Len(all) \in Nat
    BY <1>8, SymbolFacts
  <2> QED
    BY <1>9, <2>1, <2>2
<1>11. PICK p \in Nat, m \in Nat, n \in Nat, a \in Nat, z \in Nat :
         p = Len(Done) /\ m = Len(prefix) /\ n = Len(c) /\ a = Len(all) /\ z = Len(stream)
  <2>1. Len(Done) \in Nat /\ Len(prefix) \in Nat /\ Len(c) \in Nat /\ Len(all) \in Nat
    BY ONLY <1>1, <1>6, <1>8, LenProperties, Done \in Seq({0, 1})
  <2> QED
    BY ONLY <1>1, <2>1, Zenon
<1>12. /\ Len(Done \o c) = p + n
       /\ \A i \in 1..p + n : (Done \o c)[i] = IF i <= p THEN Done[i] ELSE c[i - p]
  BY ONLY <1>6, <1>11, ConcatProperties, Done \in Seq({0, 1})
<1>13. /\ Len(Done \o prefix) = p + m
       /\ \A i \in 1..p + m : (Done \o prefix)[i] = IF i <= p THEN Done[i] ELSE prefix[i - p]
  BY ONLY <1>1, <1>11, ConcatProperties, Done \in Seq({0, 1})
<1>14. m < n /\ p + n <= a /\ a <= z
  BY <1>7, <1>9, <1>10, <1>11, <1>12
<1>15. ASSUME NEW j \in 1..n PROVE stream[p + j] = c[j]
  <2>1. p + j \in 1..p + n /\ ~(p + j <= p) /\ p + j - p = j /\ p + j \in 1..a
    BY ONLY <1>14, j \in 1..n, p \in Nat, n \in Nat, a \in Nat
  <2>2. stream[p + j] = all[p + j]
    BY <1>10, <1>11, <2>1
  <2>3. all[p + j] = (Done \o c)[p + j]
    BY ONLY <1>7, <1>12, <2>1
  <2>4. (Done \o c)[p + j] = c[j]
    BY ONLY <1>12, <2>1
  <2> QED
    BY ONLY <2>2, <2>3, <2>4
<1>16. /\ Len(SubSeq(stream, 1, read)) = read
       /\ \A i \in 1..read : SubSeq(stream, 1, read)[i] = stream[i]
  <2>1. \A i \in 1..read : stream[i] \in {0, 1} /\ 1 + i - 1 = i
    BY <1>1
  <2>2. 1 \in Int /\ read \in Int /\ read - 1 + 1 = read
    BY <1>1
  <2>3. /\ SubSeq(stream, 1, read) \in Seq({0, 1})
        /\ Len(SubSeq(stream, 1, read)) = IF 1 <= read THEN read - 1 + 1 ELSE 0
        /\ \A i \in 1..read - 1 + 1 : SubSeq(stream, 1, read)[i] = stream[1 + i - 1]
    BY ONLY <2>1, <2>2, SubSeqProperties
  <2>4. Len(SubSeq(stream, 1, read)) = read
    BY ONLY <1>1, <2>2, <2>3
  <2> QED
    BY ONLY <2>1, <2>2, <2>3, <2>4
<1>17. read = p + m /\ \A i \in 1..p + m : (Done \o prefix)[i] = stream[i]
  <2>1. SubSeq(stream, 1, read) = Done \o prefix
    BY <1>2, <1>4
  <2> QED
    BY ONLY <1>13, <1>16, <2>1
<1>18. ASSUME NEW j \in 1..m PROVE prefix[j] = c[j]
  <2>1. p + j \in 1..p + m /\ ~(p + j <= p) /\ p + j - p = j /\ j \in 1..n
    BY ONLY <1>14, j \in 1..m, p \in Nat, n \in Nat, m \in Nat
  <2>2. (Done \o prefix)[p + j] = prefix[j]
    BY ONLY <1>13, <2>1
  <2>3. (Done \o prefix)[p + j] = stream[p + j]
    BY ONLY <1>17, <2>1
  <2> QED
    BY <1>15, <2>1, <2>2, <2>3
<1>19. read < z /\ stream[read + 1] = c[m + 1] /\ m + 1 \in 1..n
  <2>1. m + 1 \in 1..n /\ p + (m + 1) = p + m + 1 /\ p + m < z
    BY ONLY <1>14, p \in Nat, n \in Nat, m \in Nat, a \in Nat, z \in Nat
  <2> QED
    BY <1>15, <1>17, <2>1
<1>20. PICK b \in {0, 1} : b = stream[read + 1] /\ b = c[m + 1]
  <2>1. c[m + 1] \in {0, 1}
    BY <1>6, <1>11, <1>19
  <2> QED
    BY <1>19, <2>1
<1>21. PICK x : x = H!NextBits
  OBVIOUS
<1>22. x = Append(prefix, b)
  BY <1>20, <1>21 DEF H!NextBits
<1>23. /\ x \in Seq({0, 1}) /\ Len(x) = m + 1 /\ x[m + 1] = b
       /\ \A i \in 1..m : x[i] = prefix[i]
  BY ONLY <1>1, <1>11, <1>22, AppendProperties, b \in {0, 1}
<1>24. \A i \in 1..m + 1 : x[i] = c[i]
  <2>1. \A i \in 1..m + 1 : i \in 1..m \/ i = m + 1
    BY ONLY m \in Nat
  <2> QED
    BY <1>18, <1>20, <1>23, <2>1
<1>25. H!IsPrefix(x, c)
  <2>1. m + 1 <= n
    BY ONLY <1>14, n \in Nat, m \in Nat
  <2>2. Len(x) <= Len(c) /\ \A i \in 1..Len(x) : x[i] = c[i]
    BY ONLY <1>11, <1>23, <1>24, <2>1
  <2> QED
    BY ONLY <1>6, <1>23, <2>2, PrefixOf
<1>26. m + 1 = n => x = c
  <2>1. ASSUME m + 1 = n PROVE Len(x) = Len(c) /\ \A i \in 1..Len(x) : x[i] = c[i]
    BY ONLY <1>11, <1>23, <1>24, <2>1
  <2> QED
    BY ONLY <1>6, <1>23, <2>1, SeqEqual
<1> QED
  BY <1>6, <1>11, <1>14, <1>19, <1>21, <1>23, <1>25, <1>26

\* The writer starts with nothing written.
LEMMA WrittenInit ==
  ASSUME H!Init
  PROVE  WrittenInv
<1> SUFFICES ASSUME written PROVE WrittenInv
  BY DEF WrittenInv
<1>1. written = TRUE /\ pc = "merge" /\ declared = Len(input) /\ stream = <<>> /\ at = 0
  BY DEF H!Init
<1> QED
  BY <1>1 DEF WrittenInv

\* A table made from frequencies is never refused.
LEMMA NeverRefused ==
  ASSUME ReturnInv, written
  PROVE  ~H!RefuseLengths
<1> SUFFICES ASSUME H!RefuseLengths PROVE FALSE
  OBVIOUS
<1>1. pc = "codes" /\ H!Pending # {} /\ H!Overflows
  BY DEF H!RefuseLengths
<1>2. lengths \in [Symbols -> Nat]
  BY DEF ReturnInv, HuffmanInv, H!TypeOK
<1>3. PICK n \in Nat : lengths \in [Symbols -> 0..n]
  BY <1>2, LongestFacts
<1>4. Total(Shares(lengths, n), Symbols) > 2 ^ n
  BY <1>1, <1>3, KraftSays DEF ReturnInv
<1>5. Fits(lengths)
  BY <1>1 DEF ReturnInv, TreesInv
<1>6. Total(Shares(lengths, n), Symbols) <= 2 ^ n
  BY <1>3, <1>5 DEF Fits
<1>7. Total(Shares(lengths, n), Symbols) \in Nat /\ 2 ^ n \in Nat
  <2>1. IsFiniteSet(Symbols) /\ lengths \in [Symbols -> 0..n]
    BY <1>3, SymbolFacts
  <2>2. /\ Weights(Shares(lengths, n)) /\ DOMAIN Shares(lengths, n) = Symbols
        /\ \A s \in Symbols :
             /\ lengths[s] \in 0..n /\ n - lengths[s] \in Nat /\ 2 ^ (n - lengths[s]) \in Nat
             /\ 2 ^ (n - lengths[s]) >= 1
             /\ Shares(lengths, n)[s] = IF lengths[s] = 0 THEN 0 ELSE 2 ^ (n - lengths[s])
    BY ONLY <2>1, SharesFacts, n \in Nat
  <2>3. PICK w : w = Shares(lengths, n)
    OBVIOUS
  <2>4. Total(w, Symbols) \in Nat
    BY <2>2, <2>3, TotalFacts
  <2> QED
    BY <2>3, <2>4, Powers
<1> QED
  BY <1>4, <1>6, <1>7

\* At the end only padding is left.
LEMMA PaddingLeft ==
  ASSUME ReturnInv, written, pc = "read", Len(output) = Len(input)
  PROVE  H!Complete
<1>1. /\ input \in Seq(Symbols) /\ codes \in [Symbols -> Seq({0, 1})]
      /\ stream \in Seq({0, 1}) /\ Len(stream) \in Nat /\ read \in 0..Len(stream)
      /\ Len(input) \in Nat
  BY DEF ReturnInv, HuffmanInv, H!TypeOK, H!Bit
<1>2. /\ declared = Len(input) /\ stream = H!Padding(Spelled(codes, input, Len(input)))
  BY DEF ReturnInv, WrittenInv
<1>3. prefix = <<>>
  BY <1>2 DEF ReturnInv, HuffmanInv, ReadOK
<1>4. PICK all : all = Spelled(codes, input, Len(input))
  OBVIOUS
<1>5. all \in Seq({0, 1})
  <2>1. Len(input) \in 0..Len(input)
    BY <1>1
  <2> QED
    BY <1>1, <1>4, <2>1, SpelledPart
<1>6. SubSeq(stream, 1, read) = all
  <2>1. SubSeq(stream, 1, read) = Spelled(codes, input, Len(output)) \o prefix
    BY OutputSpelled DEF ReturnInv
  <2>2. SubSeq(stream, 1, read) = all \o <<>>
    BY <1>3, <1>4, <2>1
  <2> QED
    BY ONLY <1>5, <2>2, ConcatEmptySeq
<1>7. Len(SubSeq(stream, 1, read)) = read
  <2>1. \A i \in 1..read : stream[i] \in {0, 1} /\ 1 + i - 1 = i
    BY <1>1
  <2>2. 1 \in Int /\ read \in Int /\ read - 1 + 1 = read
    BY <1>1
  <2>3. Len(SubSeq(stream, 1, read)) = IF 1 <= read THEN read - 1 + 1 ELSE 0
    BY ONLY <2>1, <2>2, SubSeqProperties
  <2> QED
    BY ONLY <1>1, <2>2, <2>3
<1>8. Len(all) = read
  BY <1>6, <1>7
<1>9. PICK r \in 0..ByteBits - 1 :
         /\ Len(H!Padding(all)) = Len(all) + r
         /\ \A i \in Len(all) + 1..Len(all) + r : H!Padding(all)[i] = 0
  BY <1>5, PaddingIs
<1>10. Len(stream) = read + r /\ \A i \in read + 1..Len(stream) : stream[i] = 0
  BY <1>2, <1>4, <1>8, <1>9
<1>11. Len(stream) - read < ByteBits
  BY <1>1, <1>10, SymbolFacts
<1> QED
  BY <1>1, <1>2, <1>10, <1>11 DEF H!Complete, H!OnlyPadding

\* The next bit goes on with the code of the next symbol.
LEMMA BitComesFor ==
  ASSUME ReturnInv, written, pc = "read", Len(output) < Len(input)
  PROVE  H!BitComes
<1>1. PICK c : c = codes[input[Len(output) + 1]]
  OBVIOUS
<1>2. c \in Seq({0, 1}) /\ read < Len(stream) /\ H!IsPrefix(H!NextBits, c)
  BY <1>1, NextBitIs
<1>3. Len(output) + 1 \in 1..Len(input) /\ declared = Len(input)
  BY DEF ReturnInv, HuffmanInv, H!TypeOK, WrittenInv
<1>4. input[Len(output) + 1] \in H!Used
  BY <1>3, InputHasCodes DEF ReturnInv, KraftInv
<1> QED
  BY <1>1, <1>2, <1>3, <1>4 DEF H!BitComes

\* So the reader does not fail.
LEMMA NoReadError ==
  ASSUME ReturnInv, written
  PROVE  ~H!ReadError
<1> SUFFICES ASSUME H!ReadError PROVE FALSE
  OBVIOUS
<1>1. pc = "read" /\ ~H!BitComes /\ ~H!Complete
  BY DEF H!ReadError
<1>2. Len(output) <= Len(input) /\ Len(output) \in Nat /\ Len(input) \in Nat
  BY <1>1 DEF ReturnInv, HuffmanInv, H!TypeOK, ReadOK, WrittenInv
<1>3. Len(output) = Len(input) \/ Len(output) < Len(input)
  BY <1>2
<1> QED
  BY <1>1, <1>3, PaddingLeft, BitComesFor

\* The reader has the table of the writer.
LEMMA StartReadingReturns ==
  ASSUME ReturnInv, H!StartReading, written
  PROVE  WrittenInv'
<1>1. /\ pc = "codes" /\ decoding /\ H!Pending = {}
      /\ pc' = IF H!PrefixFree /\ (declared = 0) = (H!Used = {}) THEN "read" ELSE "failed"
      /\ UNCHANGED <<input, written, decoding, queue, lengths, declared, stream,
                     codes, current, at, read, prefix, output>>
  BY DEF H!StartReading, H!file, H!table, H!reader
<1>2. pc' = "read"
  <2>1. H!PrefixFree
    BY DEF ReturnInv, HuffmanInv, CodesOK
  <2>2. (declared = 0) = (H!Used = {})
    BY <1>1, TableFits DEF ReturnInv
  <2> QED
    BY <1>1, <2>1, <2>2
<1>3. /\ prefix = <<>> /\ output = <<>> /\ input \in Seq(Symbols)
      /\ codes \in [Symbols -> Seq({0, 1})] /\ lengths \in [Symbols -> Nat]
  BY <1>1 DEF ReturnInv, HuffmanInv, H!TypeOK, H!Bit
<1>4. PICK T \in [Symbols -> Seq({0, 1})] :
        Canonical(T, lengths) /\ stream = H!Padding(Spelled(T, input, Len(input)))
  BY <1>1 DEF ReturnInv, WrittenInv
<1>5. T = codes
  <2>1. Canonical(codes, lengths)
    BY <1>1, OrderSays DEF ReturnInv
  <2> QED
    BY ONLY <1>3, <1>4, <2>1, CanonicalOnce
<1>6. stream' = H!Padding(Spelled(codes', input', Len(input')))
  <2>1. stream = H!Padding(Spelled(codes, input, Len(input)))
    BY <1>4, <1>5
  <2> QED
    BY <1>1, <2>1 DEF H!Padding
<1>7. Len(output) = 0 /\ Len(prefix) = 0 /\ Len(input) \in Nat
  BY <1>3
<1>8. Len(output) < Len(input) => Len(prefix) < Len(codes[input[Len(output) + 1]])
  <2>1. SUFFICES ASSUME 0 < Len(input) PROVE 0 < Len(codes[input[1]])
    BY <1>7
  <2>2. 1 \in 1..Len(input)
    BY <1>7, <2>1
  <2>3. codes[input[1]] \in Seq({0, 1}) /\ codes[input[1]] # <<>>
    BY <1>1, <2>2, InputHasCodes DEF ReturnInv
  <2> QED
    BY <2>3
<1>9. declared' = Len(input')
  BY <1>1 DEF ReturnInv, WrittenInv
<1>10. \A i \in 1..Len(output') : output'[i] = input'[i]
  BY <1>1, <1>7
<1>11. Len(output') < Len(input') => Len(prefix') < Len(codes'[input'[Len(output') + 1]])
  BY <1>1, <1>8
<1> QED
  BY <1>2, <1>6, <1>9, <1>10, <1>11 DEF WrittenInv

\* The code of the next symbol is written.
LEMMA WriteSymbolReturns ==
  ASSUME ReturnInv, H!WriteSymbol, written
  PROVE  WrittenInv'
<1>1. /\ pc = "write" /\ at < Len(input) /\ stream' = stream \o codes[input[at + 1]] /\ at' = at + 1
      /\ UNCHANGED <<input, written, pc, decoding, queue, lengths, declared,
                     codes, current, read, prefix, output>>
  BY DEF H!WriteSymbol, H!table, H!reader
<1>2. /\ input \in Seq(Symbols) /\ at \in 0..Len(input) /\ Len(input) \in Nat
      /\ codes \in [Symbols -> Seq({0, 1})]
      /\ stream = Spelled(codes, input, at) /\ declared = Len(input)
  BY <1>1 DEF ReturnInv, HuffmanInv, H!TypeOK, H!Bit, WrittenInv
<1>3. at \in Nat /\ at + 1 <= Len(input)
  BY <1>1, <1>2
<1>4. Spelled(codes, input, at + 1) = Spelled(codes, input, at) \o codes[input[at + 1]]
  BY <1>2, <1>3, SpelledMore
<1>5. stream' = Spelled(codes', input', at')
  BY <1>1, <1>2, <1>4
<1> QED
  BY <1>1, <1>2, <1>5 DEF WrittenInv

\* What is complete spells the input.
LEMMA FinishWritingReturns ==
  ASSUME ReturnInv, H!FinishWriting, written
  PROVE  WrittenInv'
<1>1. /\ pc = "write" /\ at = Len(input) /\ stream' = H!Padding(stream) /\ pc' = "codes" /\ decoding' = TRUE
      /\ UNCHANGED <<input, written, queue, lengths, declared, at, read, prefix, output>>
  BY DEF H!FinishWriting, H!reader
<1>2. /\ codes \in [Symbols -> Seq({0, 1})] /\ H!Pending = {}
      /\ stream = Spelled(codes, input, at) /\ declared = Len(input)
  BY <1>1 DEF ReturnInv, HuffmanInv, H!TypeOK, H!Bit, WrittenInv, KraftInv
<1>3. Canonical(codes, lengths)
  BY <1>2, OrderSays DEF ReturnInv
<1>4. PICK T \in [Symbols -> Seq({0, 1})] : T = codes
  BY <1>2
<1>5. Canonical(T, lengths') /\ stream' = H!Padding(Spelled(T, input', Len(input')))
  BY <1>1, <1>2, <1>3, <1>4 DEF H!Padding
<1> QED
  BY <1>1, <1>2, <1>5 DEF WrittenInv, H!Padding

\* A bit of the code of the next symbol is read.
LEMMA ReadBitReturns ==
  ASSUME ReturnInv, H!ReadBit, written
  PROVE  WrittenInv'
<1> DEFINE found == {s \in H!Used : codes[s] = H!NextBits}
<1>1. /\ pc = "read" /\ Len(output) < declared
      /\ UNCHANGED <<input, written, pc, decoding, queue, lengths, declared, stream, codes, current, at>>
  BY DEF H!ReadBit, H!BitComes, H!file, H!table
<1>2. \/ found = {} /\ prefix' = H!NextBits /\ output' = output
      \/ found # {} /\ prefix' = <<>> /\ output' = Append(output, CHOOSE s \in found : TRUE)
  BY DEF H!ReadBit
<1>3. /\ output \in Seq(Symbols) /\ Len(output) \in Nat /\ input \in Seq(Symbols) /\ Len(input) \in Nat
      /\ codes \in [Symbols -> Seq({0, 1})] /\ H!Pending = {} /\ H!PrefixFree
  BY <1>1 DEF ReturnInv, HuffmanInv, H!TypeOK, H!Bit, KraftInv, CodesOK
<1>4. /\ declared = Len(input) /\ stream = H!Padding(Spelled(codes, input, Len(input)))
      /\ \A i \in 1..Len(output) : output[i] = input[i]
  BY <1>1 DEF ReturnInv, WrittenInv
<1>5. PICK k \in Nat : k = Len(output) /\ k + 1 \in 1..Len(input) /\ k < Len(input)
  BY <1>1, <1>3, <1>4
<1>6. PICK y \in Symbols : y = input[k + 1] /\ y \in H!Used /\ y \in H!Given
  BY <1>1, <1>3, <1>5, InputHasCodes DEF ReturnInv
<1>7. PICK c : c = codes[y]
  OBVIOUS
<1>8. /\ c \in Seq({0, 1}) /\ H!NextBits \in Seq({0, 1})
      /\ Len(H!NextBits) = Len(prefix) + 1 /\ Len(prefix) < Len(c)
      /\ H!IsPrefix(H!NextBits, c) /\ (Len(prefix) + 1 = Len(c) => H!NextBits = c)
  BY <1>1, <1>5, <1>6, <1>7, NextBitIs
<1>9. \A s \in found : s = y
  <2> SUFFICES ASSUME NEW s \in found, s # y PROVE FALSE
    OBVIOUS
  <2>1. s \in H!Used /\ codes[s] = H!NextBits
    OBVIOUS
  <2>2. s \in H!Given
    BY <1>3, <2>1 DEF H!Used, H!Pending, H!Given
  <2>3. ~H!IsPrefix(codes[s], codes[y])
    BY <1>3, <1>6, <2>2 DEF H!PrefixFree
  <2> QED
    BY <1>7, <1>8, <2>1, <2>3
<1>10. stream' = H!Padding(Spelled(codes', input', Len(input')))
  BY <1>1, <1>4 DEF H!Padding
<1>11. CASE found = {}
  <2>1. prefix' = H!NextBits /\ output' = output
    BY <1>2, <1>11
  <2>2. H!NextBits # c
    BY <1>6, <1>7, <1>11
  <2>3. PICK m \in Nat, n \in Nat : m = Len(prefix) /\ n = Len(c) /\ Len(H!NextBits) = m + 1
    <3>1. prefix \in Seq({0, 1})
      BY <1>1 DEF ReturnInv, HuffmanInv, ReadOK
    <3> QED
      BY <1>8, <3>1
  <2>4. Len(H!NextBits) < Len(c)
    BY <1>8, <2>2, <2>3
  <2>5. Len(prefix') < Len(codes'[input'[Len(output') + 1]])
    BY <1>1, <1>5, <1>6, <1>7, <2>1, <2>4
  <2>6. \A i \in 1..Len(output') : output'[i] = input'[i]
    BY <1>1, <1>4, <2>1
  <2> QED
    BY <1>1, <1>4, <1>10, <2>5, <2>6 DEF WrittenInv
<1>12. CASE found # {}
  <2>1. (CHOOSE s \in found : TRUE) = y
    BY <1>9, <1>12
  <2> HIDE DEF found
  <2>2. prefix' = <<>> /\ output' = Append(output, y)
    BY <1>2, <1>12, <2>1
  <2>3. /\ output' \in Seq(Symbols) /\ Len(output') = k + 1 /\ output'[k + 1] = y
        /\ \A i \in 1..k : output'[i] = output[i]
    BY ONLY <1>3, <1>5, <2>2, AppendProperties, y \in Symbols
  <2>4. \A i \in 1..Len(output') : output'[i] = input'[i]
    <3>1. \A i \in 1..k + 1 : i \in 1..k \/ i = k + 1
      OBVIOUS
    <3> QED
      BY <1>1, <1>4, <1>5, <1>6, <2>3, <3>1
  <2>5. Len(output') < Len(input') => Len(prefix') < Len(codes'[input'[Len(output') + 1]])
    <3> SUFFICES ASSUME k + 1 < Len(input) PROVE 0 < Len(codes[input[k + 1 + 1]])
      BY <1>1, <2>2, <2>3
    <3>1. k + 1 + 1 \in 1..Len(input)
      BY <1>3
    <3>2. PICK d \in Seq({0, 1}) : d = codes[input[k + 1 + 1]] /\ d # <<>>
      BY <1>1, <1>3, <3>1, InputHasCodes DEF ReturnInv
    <3> QED
      BY <3>2
  <2> QED
    BY <1>1, <1>4, <1>10, <2>4, <2>5 DEF WrittenInv
<1> QED
  BY <1>11, <1>12

\* Every step of a stream of this writer is as expected.
LEMMA WrittenStep ==
  ASSUME ReturnInv, H!Next
  PROVE  WrittenInv'
<1>1. SUFFICES ASSUME written PROVE WrittenInv'
  <2>1. written' = written
    BY DEF H!Next, H!Merge, H!TakeLengths, H!AssignCode, H!RefuseLengths, H!StartWriting, H!WriteSymbol,
           H!FinishWriting, H!StartReading, H!ReadBit, H!FinishReading, H!ReadError
  <2> QED
    BY <1>1, <2>1 DEF WrittenInv
<1>2. declared = Len(input) /\ pc # "failed"
  BY <1>1 DEF ReturnInv, WrittenInv
<1>3. CASE H!Merge
  BY <1>1, <1>3 DEF H!Merge, H!file, H!table, H!reader, ReturnInv, WrittenInv, HuffmanInv
<1>4. CASE H!TakeLengths
  BY <1>1, <1>4 DEF H!TakeLengths, H!table, H!reader, ReturnInv, WrittenInv, HuffmanInv
<1>5. CASE H!AssignCode
  <2>1. /\ pc = "codes" /\ UNCHANGED <<input, written, pc, decoding, queue, lengths, declared, stream, at, read, prefix, output>>
    BY <1>5 DEF H!AssignCode, H!file, H!reader
  <2>2. decoding => \E T \in [Symbols -> Seq({0, 1})] :
           Canonical(T, lengths') /\ stream' = H!Padding(Spelled(T, input', Len(input')))
    BY <1>1, <2>1 DEF ReturnInv, WrittenInv
  <2> QED
    BY <1>1, <1>2, <2>1, <2>2 DEF ReturnInv, WrittenInv, H!Padding
<1>6. CASE H!StartWriting
  <2>1. /\ pc = "codes" /\ ~decoding /\ pc' = "write"
        /\ UNCHANGED <<input, declared, stream, at>>
    BY <1>6 DEF H!StartWriting, H!file
  <2>2. stream' = <<>> /\ at' = 0
    BY <1>1, <2>1 DEF ReturnInv, WrittenInv
  <2>3. Spelled(codes', input', 0) = <<>>
    BY SpelledNone
  <2> QED
    BY <1>2, <2>1, <2>2, <2>3 DEF WrittenInv
<1>7. CASE H!FinishReading
  <2>1. /\ pc = "read" /\ pc' = "done" /\ Len(output) >= declared
        /\ UNCHANGED <<input, written, decoding, queue, lengths, declared, stream,
                       codes, current, at, read, prefix, output>>
    BY <1>7 DEF H!FinishReading, H!Complete, H!file, H!table, H!reader
  <2>2. Len(output) = Len(input)
    <3>1. output \in Seq(Symbols) /\ declared \in Nat /\ Len(output) <= declared
      BY <2>1 DEF ReturnInv, HuffmanInv, H!TypeOK, ReadOK
    <3> QED
      BY <1>2, <2>1, <3>1
  <2>3. /\ stream = H!Padding(Spelled(codes, input, Len(input)))
        /\ \A i \in 1..Len(output) : output[i] = input[i]
        /\ Len(output) < Len(input) => Len(prefix) < Len(codes[input[Len(output) + 1]])
    BY <1>1, <2>1 DEF ReturnInv, WrittenInv
  <2>4. /\ stream' = H!Padding(Spelled(codes', input', Len(input')))
        /\ \A i \in 1..Len(output') : output'[i] = input'[i]
        /\ Len(output') < Len(input') => Len(prefix') < Len(codes'[input'[Len(output') + 1]])
    BY <2>1, <2>3 DEF H!Padding
  <2> QED
    BY <1>2, <2>1, <2>2, <2>4 DEF WrittenInv
<1> QED
  BY <1>1, <1>3, <1>4, <1>5, <1>6, <1>7, NeverRefused, NoReadError, StartReadingReturns,
     WriteSymbolReturns, FinishWritingReturns, ReadBitReturns DEF H!Next

\* What is accepted is what was written, and nothing is refused.
LEMMA ReturnSays ==
  ASSUME ReturnInv
  PROVE  H!RoundTrip
<1> SUFFICES ASSUME written, pc = "done" PROVE output = input
  BY DEF ReturnInv, WrittenInv, H!RoundTrip
<1>1. /\ output \in Seq(Symbols) /\ input \in Seq(Symbols) /\ Len(output) = Len(input)
      /\ \A i \in 1..Len(output) : output[i] = input[i]
  BY DEF ReturnInv, HuffmanInv, H!TypeOK, WrittenInv
<1> QED
  BY ONLY <1>1, SeqEqual

\* The codec starts in all of them.
LEMMA ReturnInit == H!Init => ReturnInv
<1> SUFFICES ASSUME H!Init PROVE ReturnInv
  OBVIOUS
<1>1. HuffmanInv
  BY HuffmanInit
<1>2. codes = [s \in Symbols |-> <<>>] /\ current = <<>>
  BY DEF H!Init, H!None
<1> QED
  BY <1>1, <1>2, KraftInit, TreesInit, OrderNone, WrittenInit DEF ReturnInv

\* Every step keeps all of them.
LEMMA ReturnStep == ReturnInv /\ H!Next => ReturnInv'
<1> SUFFICES ASSUME ReturnInv, H!Next PROVE ReturnInv'
  OBVIOUS
<1>1. HuffmanInv'
  BY HuffmanStep DEF ReturnInv
<1> QED
  BY <1>1, KraftStep, TreesStep, OrderStep, WrittenStep DEF ReturnInv

\* Nor does standing still break them.
LEMMA ReturnStill == ReturnInv /\ UNCHANGED H!vars => ReturnInv'
<1> SUFFICES ASSUME ReturnInv, UNCHANGED H!vars PROVE ReturnInv'
  OBVIOUS
<1>1. UNCHANGED <<input, written, pc, decoding, queue, lengths, declared, stream,
                  codes, current, at, read, prefix, output>>
  BY DEF H!vars, H!file, H!table, H!reader
<1>2. HuffmanInv'
  BY HuffmanStill DEF ReturnInv
<1>3. KraftInv'
  <2>1. UNCHANGED <<lengths, codes, current>> /\ pc' = pc /\ KraftInv
    BY <1>1 DEF ReturnInv
  <2> QED
    BY <2>1, KraftStays
<1>4. TreesInv'
  <2>1. UNCHANGED <<written, input, lengths>> /\ pc' = pc /\ queue' = queue /\ TreesInv
    BY <1>1 DEF ReturnInv
  <2> QED
    BY <2>1, TreesStays
<1>5. OrderInv'
  <2>1. lengths' = lengths /\ codes' = codes /\ current' = current /\ H!Given' = H!Given
    BY <1>1 DEF H!Given
  <2> QED
    BY <2>1 DEF ReturnInv, OrderInv
<1>6. WrittenInv'
  <2>1. WrittenInv /\ at' = at
    BY DEF ReturnInv, H!vars
  <2> QED
    BY <1>1, <2>1 DEF WrittenInv, H!Padding
<1> QED
  BY <1>2, <1>3, <1>4, <1>5, <1>6 DEF ReturnInv

-----------------------------------------------------------------------------
(* The two rarest can be deepest.                                          *)

\* What things of some frequencies cost at some depths.
Products(f, M) == [q \in DOMAIN M |-> f[q] * M[q]]

\* What each element costs.
LEMMA ProductsFacts ==
  ASSUME NEW Q, IsFiniteSet(Q), NEW f, \A q \in Q : f[q] \in Nat, NEW M \in [Q -> Nat]
  PROVE  /\ Weights(Products(f, M)) /\ DOMAIN Products(f, M) = Q
         /\ \A q \in Q : Products(f, M)[q] = f[q] * M[q] /\ f[q] * M[q] \in Nat
<1>1. \A q \in Q : f[q] * M[q] \in Nat
  <2> TAKE q \in Q
  <2>1. PICK a \in Nat, b \in Nat : a = f[q] /\ b = M[q]
    OBVIOUS
  <2>2. a * b \in Nat
    OBVIOUS
  <2> QED
    BY <2>1, <2>2
<1>2. Products(f, M) = [q \in Q |-> f[q] * M[q]]
  BY DEF Products
<1>3. Products(f, M) \in [Q -> Nat]
  BY <1>1, <1>2
<1>4. Weights(Products(f, M)) /\ DOMAIN Products(f, M) = Q
  BY ONLY <1>3, IsFiniteSet(Q), WeightsOf
<1> QED
  BY <1>1, <1>2, <1>4

\* A sum with two of its elements apart.
LEMMA TotalTwo ==
  ASSUME NEW w, Weights(w), NEW x \in DOMAIN w, NEW y \in DOMAIN w, x # y
  PROVE  /\ Total(w, DOMAIN w \ {x, y}) \in Nat
         /\ Total(w, DOMAIN w) = Total(w, DOMAIN w \ {x, y}) + (w[x] + w[y])
<1>1. PICK Others : Others = DOMAIN w \ {x, y}
  OBVIOUS
<1>2. PICK More : More = Others \cup {x}
  OBVIOUS
<1>3. /\ Others \in SUBSET DOMAIN w /\ More \in SUBSET DOMAIN w /\ x \in DOMAIN w \ Others /\ y \in DOMAIN w \ More
      /\ More \cup {y} = DOMAIN w
  BY <1>1, <1>2
<1>4. /\ Total(w, Others) \in Nat /\ Total(w, Others \cup {x}) = Total(w, Others) + w[x]
      /\ Total(w, More \cup {y}) = Total(w, More) + w[y]
  BY <1>3, TotalFacts
<1>5. PICK a \in Nat, b \in Nat, r \in Nat : a = w[x] /\ b = w[y] /\ r = Total(w, Others)
  BY <1>4 DEF Weights
<1>6. Total(w, DOMAIN w) = (r + a) + b
  BY <1>2, <1>3, <1>4, <1>5
<1> QED
  BY ONLY <1>1, <1>5, <1>6

Price(Q, f, M) == Total(Products(f, M), Q)

Exchanged(Q, f, n, M, x, y) ==
  \E K \in [Q -> 0..n] :
    /\ K[x] = M[y] /\ K[y] = M[x] /\ \A q \in Q \ {x, y} : K[q] = M[q]
    /\ Total(Leaves(K, n), Q) = Total(Leaves(M, n), Q)
    /\ Price(Q, f, K) <= Price(Q, f, M)

\* Of two the rarer one may be the deeper one.
LEMMA Exchange ==
  ASSUME NEW Q, IsFiniteSet(Q), NEW f, \A q \in Q : f[q] \in Nat, NEW n \in Nat, NEW M \in [Q -> 0..n],
         NEW x \in Q, NEW y \in Q, f[x] <= f[y], M[x] <= M[y], x # y
  PROVE  Exchanged(Q, f, n, M, x, y)
<1>1. PICK K : K = [M EXCEPT ![x] = M[y], ![y] = M[x]]
  OBVIOUS
<1>2. /\ K \in [Q -> 0..n] /\ K[x] = M[y] /\ K[y] = M[x] /\ \A q \in Q \ {x, y} : K[q] = M[q]
  BY <1>1
<1>3. K \in [Q -> Nat] /\ M \in [Q -> Nat]
  BY <1>2
<1>4. PICK v : v = Leaves(M, n)
  OBVIOUS
<1>5. PICK w : w = Leaves(K, n)
  OBVIOUS
<1>6. /\ Weights(v) /\ DOMAIN v = Q /\ \A q \in Q : v[q] = 2 ^ (n - M[q]) /\ 2 ^ (n - M[q]) \in Nat
  <2>1. IsFiniteSet(Q) /\ M \in [Q -> 0..n]
    OBVIOUS
  <2>2. /\ Weights(Leaves(M, n)) /\ DOMAIN Leaves(M, n) = Q
        /\ \A s \in Q : /\ M[s] \in 0..n /\ n - M[s] \in Nat /\ 2 ^ (n - M[s]) \in Nat
                        /\ Leaves(M, n)[s] = 2 ^ (n - M[s])
    BY ONLY <2>1, LeavesFacts, n \in Nat
  <2> QED
    BY ONLY <1>4, <2>2, Zenon
<1>7. /\ Weights(w) /\ DOMAIN w = Q /\ \A q \in Q : w[q] = 2 ^ (n - K[q]) /\ 2 ^ (n - K[q]) \in Nat
  <2>1. IsFiniteSet(Q) /\ K \in [Q -> 0..n]
    BY <1>2
  <2>2. /\ Weights(Leaves(K, n)) /\ DOMAIN Leaves(K, n) = Q
        /\ \A s \in Q : /\ K[s] \in 0..n /\ n - K[s] \in Nat /\ 2 ^ (n - K[s]) \in Nat
                        /\ Leaves(K, n)[s] = 2 ^ (n - K[s])
    BY ONLY <2>1, LeavesFacts, n \in Nat
  <2> QED
    BY ONLY <1>5, <2>2, Zenon
<1>8. PICK Others : Others = Q \ {x, y}
  OBVIOUS
<1>9. Total(w, Q) = Total(v, Q)
  <2>1. \A q \in Others : w[q] = v[q]
    BY <1>2, <1>6, <1>7, <1>8
  <2>2. Total(w, Others) = Total(v, Others)
    BY <1>6, <1>7, <1>8, <2>1, TotalSame
  <2>3. /\ Total(w, Q) = Total(w, Others) + (w[x] + w[y]) /\ Total(v, Q) = Total(v, Others) + (v[x] + v[y])
        /\ Total(v, Others) \in Nat
    BY <1>6, <1>7, <1>8, TotalTwo
  <2>4. w[x] = v[y] /\ w[y] = v[x] /\ v[x] \in Nat /\ v[y] \in Nat
    BY <1>2, <1>6, <1>7
  <2> QED
    BY <2>2, <2>3, <2>4
<1>10. PICK a : a = Products(f, M)
  OBVIOUS
<1>11. PICK b : b = Products(f, K)
  OBVIOUS
<1>12. /\ Weights(a) /\ DOMAIN a = Q /\ \A q \in Q : a[q] = f[q] * M[q] /\ f[q] * M[q] \in Nat
  BY ONLY <1>3, <1>10, ProductsFacts, IsFiniteSet(Q), \A q \in Q : f[q] \in Nat
<1>13. /\ Weights(b) /\ DOMAIN b = Q /\ \A q \in Q : b[q] = f[q] * K[q] /\ f[q] * K[q] \in Nat
  BY ONLY <1>3, <1>11, ProductsFacts, IsFiniteSet(Q), \A q \in Q : f[q] \in Nat
<1>14. Total(b, Q) <= Total(a, Q)
  <2>1. \A q \in Others : b[q] = a[q]
    BY <1>2, <1>8, <1>12, <1>13
  <2>2. Total(b, Others) = Total(a, Others)
    BY <1>8, <1>12, <1>13, <2>1, TotalSame
  <2>3. /\ Total(b, Q) = Total(b, Others) + (b[x] + b[y]) /\ Total(a, Q) = Total(a, Others) + (a[x] + a[y])
        /\ Total(a, Others) \in Nat
    BY <1>8, <1>12, <1>13, TotalTwo
  <2>4. PICK p \in Nat, d \in Nat, m \in Nat, e \in Nat : p = f[x] /\ p + d = f[y] /\ m = M[x] /\ m + e = M[y]
    <3>1. PICK p \in Nat, d \in Nat : p = f[x] /\ p + d = f[y]
      <4>1. f[x] \in Nat /\ f[y] \in Nat /\ f[y] - f[x] \in Nat /\ f[x] + (f[y] - f[x]) = f[y]
        OBVIOUS
      <4> QED
        BY <4>1
    <3>2. PICK m \in Nat, e \in Nat : m = M[x] /\ m + e = M[y]
      <4>1. M[x] \in Nat /\ M[y] \in Nat /\ M[y] - M[x] \in Nat /\ M[x] + (M[y] - M[x]) = M[y]
        OBVIOUS
      <4> QED
        BY <4>1
    <3> QED
      BY <3>1, <3>2
  <2>5. /\ a[x] = p * m /\ a[y] = (p + d) * (m + e)
        /\ b[x] = p * (m + e) /\ b[y] = (p + d) * m
    BY <1>2, <1>12, <1>13, <2>4
  <2>6. p * (m + e) + (p + d) * m <= p * m + (p + d) * (m + e)
    <3>1. /\ p * (m + e) = p * m + p * e /\ (p + d) * m = p * m + d * m
          /\ (p + d) * (m + e) = (p * m + p * e) + (d * m + d * e)
      OBVIOUS
    <3>2. PICK g \in Nat, h \in Nat, i \in Nat, j \in Nat : g = p * m /\ h = p * e /\ i = d * m /\ j = d * e
      OBVIOUS
    <3> QED
      BY ONLY <3>1, <3>2
  <2>7. a[x] \in Nat /\ a[y] \in Nat /\ b[x] \in Nat /\ b[y] \in Nat
    BY <1>12, <1>13
  <2>8. b[x] + b[y] <= a[x] + a[y]
    BY ONLY <2>5, <2>6, Zenon
  <2> QED
    BY ONLY <2>2, <2>3, <2>7, <2>8
<1>15. Price(Q, f, K) <= Price(Q, f, M)
  BY <1>10, <1>11, <1>14 DEF Price
<1>16. Total(Leaves(K, n), Q) = Total(Leaves(M, n), Q)
  BY <1>4, <1>5, <1>9
<1> QED
  BY ONLY <1>2, <1>15, <1>16, Zenon DEF Exchanged

\* A finite set has an element of the largest value.
LEMMA LargestOf ==
  ASSUME NEW Q, NEW n \in Nat, NEW M \in [Q -> 0..n], NEW S \in SUBSET Q, S # {}
  PROVE  \E d \in S : \A x \in S : M[x] <= M[d]
<1> DEFINE V == {M[x] : x \in S}
<1>1. V \in SUBSET (0..n) /\ V # {}
  OBVIOUS
<1>2. H!Max(V) \in V /\ \A x \in V : H!Max(V) >= x
  <2> HIDE DEF V
  <2> QED
    BY <1>1, MaximumFacts
<1>3. PICK d \in S : M[d] = H!Max(V)
  BY <1>2
<1>4. ASSUME NEW x \in S PROVE M[x] <= M[d]
  <2>1. M[x] \in V /\ M[x] \in 0..n /\ M[d] \in 0..n
    OBVIOUS
  <2> HIDE DEF V
  <2> QED
    BY <1>2, <1>3, <2>1
<1> QED
  BY <1>4

\* A sum of multiples.
LEMMA TotalTimes ==
  ASSUME NEW w, Weights(w), NEW u, Weights(u), NEW k \in Nat,
         NEW S \in SUBSET DOMAIN w, S \in SUBSET DOMAIN u, \A x \in S : u[x] = k * w[x]
  PROVE  Total(u, S) = k * Total(w, S)
<1>1. PICK z : z = [x \in S |-> 0]
  OBVIOUS
<1>2. IsFiniteSet(S)
  BY FS_Subset DEF Weights
<1>3. z \in [S -> Nat]
  BY <1>1
<1>4. Weights(z) /\ DOMAIN z = S
  BY ONLY <1>2, <1>3, WeightsOf
<1>5. Total(z, S) = 0
  BY <1>1, <1>4, TotalZero
<1>6. \A x \in S : u[x] = k * w[x] + z[x]
  <2> TAKE x \in S
  <2>1. w[x] \in Nat /\ z[x] = 0 /\ k * w[x] \in Nat
    <3>1. w[x] \in Nat /\ z[x] = 0
      BY <1>1 DEF Weights
    <3> QED
      BY <3>1
  <2> QED
    BY <2>1
<1>7. Total(u, S) = k * Total(w, S) + Total(z, S)
  BY <1>4, <1>6, TotalLinear
<1>8. PICK a \in Nat : a = Total(w, S)
  BY TotalFacts
<1>9. k * a \in Nat
  OBVIOUS
<1> QED
  BY ONLY <1>5, <1>7, <1>8, <1>9

\* The rarest made the deepest, and the next after it.
LEMMA RareDeep ==
  ASSUME NEW Q, IsFiniteSet(Q), NEW f, \A q \in Q : f[q] \in Nat, NEW n \in Nat, NEW M \in [Q -> 0..n],
         Total(Leaves(M, n), Q) <= 2 ^ n, NEW t \in Q, NEW u \in Q, t # u,
         \A q \in Q : f[t] <= f[q], \A q \in Q \ {t} : f[u] <= f[q]
  PROVE  \E K \in [Q -> 0..n] :
           /\ Total(Leaves(K, n), Q) <= 2 ^ n /\ Price(Q, f, K) <= Price(Q, f, M)
           /\ K[u] <= K[t] /\ \A q \in Q \ {t} : K[q] <= K[u]
<1>0. \A K \in [Q -> 0..n] : Price(Q, f, K) \in Nat
  <2> TAKE K \in [Q -> 0..n]
  <2>1. K \in [Q -> Nat]
    OBVIOUS
  <2>2. Weights(Products(f, K)) /\ DOMAIN Products(f, K) = Q
    BY ONLY <2>1, ProductsFacts, IsFiniteSet(Q), \A q \in Q : f[q] \in Nat
  <2> QED
    BY <2>2, TotalFacts DEF Price
<1>1. PICK K \in [Q -> 0..n] :
        /\ Total(Leaves(K, n), Q) = Total(Leaves(M, n), Q) /\ Price(Q, f, K) <= Price(Q, f, M)
        /\ \A q \in Q : K[q] <= K[t]
  <2>1. PICK d \in Q : \A x \in Q : M[x] <= M[d]
    <3>1. PICK S \in SUBSET Q : S = Q /\ S # {}
      OBVIOUS
    <3>2. \E d \in S : \A x \in S : M[x] <= M[d]
      BY ONLY <3>1, LargestOf, n \in Nat, M \in [Q -> 0..n], S \in SUBSET Q
    <3> QED
      BY <3>1, <3>2
  <2>2. CASE d = t
    <3>1. Price(Q, f, M) <= Price(Q, f, M)
      BY <1>0
    <3> QED
      BY <2>1, <2>2, <3>1
  <2>3. CASE d # t
    <3>1. f[t] <= f[d] /\ M[t] <= M[d] /\ t # d
      BY <2>1, <2>3
    <3>2. PICK K \in [Q -> 0..n] :
           /\ K[t] = M[d] /\ K[d] = M[t] /\ \A q \in Q \ {t, d} : K[q] = M[q]
           /\ Total(Leaves(K, n), Q) = Total(Leaves(M, n), Q)
           /\ Price(Q, f, K) <= Price(Q, f, M)
      <4>1. Exchanged(Q, f, n, M, t, d)
        BY <3>1, Exchange
      <4> QED
        BY ONLY <4>1, Zenon DEF Exchanged
    <3>3. M[d] <= M[d] /\ M[t] <= M[d]
      <4>1. M[d] \in Nat
        OBVIOUS
      <4> QED
        BY <2>1, <4>1
    <3>4. \A q \in Q : K[q] <= K[t]
      <4> TAKE q \in Q
      <4>1. q = t \/ q = d \/ q \in Q \ {t, d}
        OBVIOUS
      <4> QED
        BY <2>1, <3>2, <3>3, <4>1
    <3> QED
      BY <3>2, <3>4
  <2> QED
    BY <2>2, <2>3
<1>2. PICK e \in Q \ {t} : \A x \in Q \ {t} : K[x] <= K[e]
  <2>1. PICK S \in SUBSET Q : S = Q \ {t} /\ S # {}
    OBVIOUS
  <2>2. \E d \in S : \A x \in S : K[x] <= K[d]
    BY ONLY <2>1, LargestOf, n \in Nat, K \in [Q -> 0..n], S \in SUBSET Q
  <2> QED
    BY <2>1, <2>2
<1>3. CASE e = u
  BY <1>1, <1>2, <1>3
<1>4. CASE e # u
  <2>1. f[u] <= f[e] /\ K[u] <= K[e] /\ u # e
    BY <1>2, <1>4
  <2>2. PICK J \in [Q -> 0..n] :
         /\ J[u] = K[e] /\ J[e] = K[u] /\ \A q \in Q \ {u, e} : J[q] = K[q]
         /\ Total(Leaves(J, n), Q) = Total(Leaves(K, n), Q)
         /\ Price(Q, f, J) <= Price(Q, f, K)
    <3>1. e \in Q
      OBVIOUS
    <3>2. Exchanged(Q, f, n, K, u, e)
      BY ONLY <2>1, <3>1, Exchange, IsFiniteSet(Q), \A q \in Q : f[q] \in Nat, n \in Nat,
              K \in [Q -> 0..n], u \in Q
    <3> QED
      BY ONLY <3>2, Zenon DEF Exchanged
  <2>3. J[t] = K[t] /\ J[u] <= J[t]
    BY <1>1, <2>2
  <2>4. \A q \in Q \ {t} : J[q] <= J[u]
    <3> TAKE q \in Q \ {t}
    <3>1. q = u \/ q = e \/ q \in Q \ {u, e}
      OBVIOUS
    <3>2. K[e] \in Nat /\ K[e] <= K[e]
      OBVIOUS
    <3> QED
      BY <1>2, <2>1, <2>2, <3>1, <3>2
  <2>5. Price(Q, f, J) <= Price(Q, f, M)
    <3>1. PICK a \in Nat, b \in Nat, c \in Nat : a = Price(Q, f, J) /\ b = Price(Q, f, K) /\ c = Price(Q, f, M)
      BY <1>0
    <3> QED
      BY <1>1, <2>2, <3>1
  <2> QED
    BY <1>1, <2>2, <2>3, <2>4, <2>5
<1> QED
  BY <1>3, <1>4

\* The deepest can be as high as the next: the other shares are multiples of its own.
LEMMA LevelTwo ==
  ASSUME NEW Q, IsFiniteSet(Q), NEW f, \A q \in Q : f[q] \in Nat, NEW n \in Nat, NEW K \in [Q -> 0..n],
         Total(Leaves(K, n), Q) <= 2 ^ n, NEW t \in Q, NEW u \in Q, t # u,
         K[u] <= K[t], \A q \in Q \ {t} : K[q] <= K[u]
  PROVE  \E J \in [Q -> 0..n] :
           /\ Total(Leaves(J, n), Q) <= 2 ^ n /\ Price(Q, f, J) <= Price(Q, f, K)
           /\ J[t] = J[u] /\ J[u] >= 1
<1>1. PICK m \in 0..n : m = K[u]
  OBVIOUS
<1>2. PICK S : S = Q \ {t}
  OBVIOUS
<1>3. S \in SUBSET Q /\ IsFiniteSet(S) /\ u \in S /\ S \cup {t} = Q /\ t \in Q \ S
  BY <1>2, FS_Subset
<1>4. PICK J : J = [K EXCEPT ![t] = m]
  OBVIOUS
<1>5. J \in [Q -> 0..n] /\ J[t] = m /\ J[u] = m /\ \A q \in S : J[q] = K[q]
  BY <1>1, <1>2, <1>4
<1>6. PICK v : v = Leaves(K, n)
  OBVIOUS
<1>7. PICK w : w = Leaves(J, n)
  OBVIOUS
<1>8. /\ Weights(v) /\ DOMAIN v = Q
      /\ \A q \in Q : v[q] = 2 ^ (n - K[q]) /\ n - K[q] \in Nat /\ 2 ^ (n - K[q]) \in Nat
  <2>1. IsFiniteSet(Q) /\ K \in [Q -> 0..n]
    OBVIOUS
  <2>2. /\ Weights(Leaves(K, n)) /\ DOMAIN Leaves(K, n) = Q
        /\ \A s \in Q : /\ K[s] \in 0..n /\ n - K[s] \in Nat /\ 2 ^ (n - K[s]) \in Nat
                        /\ Leaves(K, n)[s] = 2 ^ (n - K[s])
    BY ONLY <2>1, LeavesFacts, n \in Nat
  <2> QED
    BY ONLY <1>6, <2>2, Zenon
<1>9. /\ Weights(w) /\ DOMAIN w = Q /\ \A q \in Q : w[q] = 2 ^ (n - J[q]) /\ 2 ^ (n - J[q]) \in Nat
  <2>1. IsFiniteSet(Q) /\ J \in [Q -> 0..n]
    BY <1>5
  <2>2. /\ Weights(Leaves(J, n)) /\ DOMAIN Leaves(J, n) = Q
        /\ \A s \in Q : /\ J[s] \in 0..n /\ n - J[s] \in Nat /\ 2 ^ (n - J[s]) \in Nat
                        /\ Leaves(J, n)[s] = 2 ^ (n - J[s])
    BY ONLY <2>1, LeavesFacts, n \in Nat
  <2> QED
    BY ONLY <1>7, <2>2, Zenon
<1>10. PICK Levelled : Levelled = [q \in S |-> K[q]]
  OBVIOUS
<1>11. Levelled \in [S -> 0..m]
  <2>1. \A q \in S : K[q] \in 0..m
    <3> TAKE q \in S
    <3>1. K[q] \in 0..n /\ K[q] <= m
      BY <1>1, <1>2
    <3> QED
      BY <3>1
  <2> QED
    BY <1>10, <2>1
<1>12. PICK z : z = Leaves(Levelled, m)
  OBVIOUS
<1>13. /\ Weights(z) /\ DOMAIN z = S
       /\ \A q \in S : z[q] = 2 ^ (m - Levelled[q]) /\ m - Levelled[q] \in Nat /\ 2 ^ (m - Levelled[q]) \in Nat
  <2>1. IsFiniteSet(S) /\ Levelled \in [S -> 0..m] /\ m \in Nat
    BY <1>3, <1>11
  <2>2. /\ Weights(Leaves(Levelled, m)) /\ DOMAIN Leaves(Levelled, m) = S
        /\ \A s \in S : /\ Levelled[s] \in 0..m /\ m - Levelled[s] \in Nat /\ 2 ^ (m - Levelled[s]) \in Nat
                        /\ Leaves(Levelled, m)[s] = 2 ^ (m - Levelled[s])
    BY ONLY <2>1, LeavesFacts
  <2> QED
    BY ONLY <1>12, <2>2, Zenon
<1>14. n - m \in Nat /\ m \in Nat /\ m + (n - m) = n
  OBVIOUS
<1>15. PICK B \in Nat, Power \in Nat : B = 2 ^ (n - m) /\ Power = 2 ^ m /\ 2 ^ n = Power * B /\ B >= 1
  <2>1. 2 ^ (m + (n - m)) = 2 ^ m * 2 ^ (n - m)
    BY ONLY <1>14, PowerSum
  <2>2. 2 ^ m \in Nat /\ 2 ^ (n - m) \in Nat /\ 2 ^ (n - m) >= 1
    BY <1>14, Powers
  <2> QED
    BY <1>14, <2>1, <2>2
<1>16. \A q \in S : v[q] = B * z[q]
  <2> TAKE q \in S
  <2>1. PICK k \in Nat : k = K[q] /\ k <= m /\ Levelled[q] = k
    BY <1>1, <1>2, <1>10
  <2>2. n - m \in Nat /\ m - k \in Nat /\ (n - m) + (m - k) = n - k
    BY <1>14, <2>1
  <2>3. 2 ^ ((n - m) + (m - k)) = 2 ^ (n - m) * 2 ^ (m - k)
    BY ONLY <2>2, PowerSum
  <2>4. v[q] = 2 ^ (n - k) /\ z[q] = 2 ^ (m - k)
    BY <1>3, <1>8, <1>13, <2>1
  <2> QED
    BY <1>15, <2>2, <2>3, <2>4
<1>17. Total(v, S) = B * Total(z, S)
  BY <1>3, <1>8, <1>13, <1>16, TotalTimes
<1>18. PICK Y \in Nat : Y = Total(z, S)
  BY <1>13, TotalFacts
<1>19. v[t] \in Nat /\ v[t] >= 1
  BY <1>8, Powers
<1>20. Total(v, Q) = B * Y + v[t]
  <2>1. Total(v, S \cup {t}) = Total(v, S) + v[t]
    BY <1>3, <1>8, TotalFacts
  <2> QED
    BY <1>3, <1>17, <1>18, <2>1
<1>21. Y + 1 <= Power
  <2>1. B * Y + v[t] <= Power * B
    BY <1>6, <1>15, <1>20
  <2>2. PICK by \in Nat, pb \in Nat : by = B * Y /\ pb = Power * B /\ by < pb
    BY <1>19, <2>1
  <2>3. CASE Power <= Y
    <3>1. Power * B <= B * Y
      BY ONLY <2>3, Power \in Nat, Y \in Nat, B \in Nat
    <3> QED
      BY <2>2, <3>1
  <2> QED
    BY <2>3
<1>22. Total(w, Q) = B * Y + B
  <2>1. Total(w, S \cup {t}) = Total(w, S) + w[t]
    BY <1>3, <1>9, TotalFacts
  <2>2. Total(w, S) = Total(v, S)
    <3>1. \A q \in S : w[q] = v[q]
      BY <1>3, <1>5, <1>8, <1>9
    <3> QED
      BY <1>3, <1>8, <1>9, <3>1, TotalSame
  <2>3. w[t] = B
    BY <1>5, <1>9, <1>15
  <2> QED
    BY <1>3, <1>17, <1>18, <2>1, <2>2, <2>3
<1>23. Total(w, Q) <= 2 ^ n
  <2>1. (Y + 1) * B <= Power * B
    BY ONLY <1>21, Power \in Nat, Y \in Nat, B \in Nat
  <2>2. (Y + 1) * B = B * Y + B
    BY ONLY Y \in Nat, B \in Nat
  <2> QED
    BY <1>15, <1>22, <2>1, <2>2
<1>24. m >= 1
  <2>1. SUFFICES ASSUME m = 0 PROVE FALSE
    OBVIOUS
  <2>2. Power = 1
    BY <1>15, <2>1, Powers
  <2>3. z[u] \in Nat /\ z[u] >= 1
    BY <1>3, <1>13, Powers
  <2>4. Total(z, {u}) = z[u]
    BY <1>3, <1>13, TotalOne
  <2>5. Total(z, {u}) <= Total(z, S)
    BY <1>3, <1>13, TotalPart
  <2> QED
    BY <1>18, <1>21, <2>2, <2>3, <2>4, <2>5
<1>25. Price(Q, f, J) <= Price(Q, f, K)
  <2>1. K \in [Q -> Nat] /\ J \in [Q -> Nat]
    BY <1>5
  <2>2. PICK a, b : a = Products(f, J) /\ b = Products(f, K)
    OBVIOUS
  <2>3. /\ Weights(a) /\ DOMAIN a = Q /\ \A q \in Q : a[q] = f[q] * J[q] /\ f[q] * J[q] \in Nat
    BY ONLY <2>1, <2>2, ProductsFacts, IsFiniteSet(Q), \A q \in Q : f[q] \in Nat
  <2>4. /\ Weights(b) /\ DOMAIN b = Q /\ \A q \in Q : b[q] = f[q] * K[q] /\ f[q] * K[q] \in Nat
    BY ONLY <2>1, <2>2, ProductsFacts, IsFiniteSet(Q), \A q \in Q : f[q] \in Nat
  <2>5. \A q \in Q : a[q] <= b[q]
    <3> TAKE q \in Q
    <3>1. PICK g \in Nat, x \in Nat, y \in Nat : g = f[q] /\ x = J[q] /\ y = K[q] /\ x <= y
      <4>1. J[q] \in Nat /\ K[q] \in Nat /\ (q = t \/ q \in S)
        BY <1>3, <2>1
      <4>2. J[q] <= K[q]
        BY <1>1, <1>5, <4>1
      <4> QED
        BY <4>1, <4>2
    <3>2. g * x <= g * y
      BY ONLY <3>1, g \in Nat, x \in Nat, y \in Nat
    <3> QED
      BY <2>3, <2>4, <3>1, <3>2
  <2>6. Total(a, Q) <= Total(b, Q)
    BY <2>3, <2>4, <2>5, TotalMono
  <2> QED
    BY <2>2, <2>6 DEF Price
<1> QED
  BY <1>5, <1>7, <1>23, <1>24, <1>25

\* What joining the two rarest costs no more than.
Merged(Q, f, n, M, t, u, Others, g) ==
  \E N \in [Others -> 0..n] :
    /\ Total(Leaves(N, n), Others) <= 2 ^ n
    /\ Price(Others, g, N) + (f[t] + f[u]) <= Price(Q, f, M)

\* Depths for the trees become depths for those after a merge.
LEMMA MergeOnce ==
  ASSUME NEW Q, IsFiniteSet(Q), NEW f, \A q \in Q : f[q] \in Nat, NEW n \in Nat, NEW M \in [Q -> 0..n],
         Total(Leaves(M, n), Q) <= 2 ^ n, NEW t \in Q, NEW u \in Q, t # u,
         \A q \in Q : f[t] <= f[q], \A q \in Q \ {t} : f[u] <= f[q],
         NEW j, j \notin Q \ {t, u}, NEW g, g[j] = f[t] + f[u], \A q \in Q \ {t, u} : g[q] = f[q]
  PROVE  Merged(Q, f, n, M, t, u, (Q \ {t, u}) \cup {j}, g)
<1>0. \A K \in [Q -> 0..n] :
        /\ Weights(Products(f, K)) /\ DOMAIN Products(f, K) = Q
        /\ \A q \in Q : Products(f, K)[q] = f[q] * K[q] /\ f[q] * K[q] \in Nat
        /\ Price(Q, f, K) \in Nat
  <2> TAKE K \in [Q -> 0..n]
  <2>1. K \in [Q -> Nat]
    OBVIOUS
  <2>2. /\ Weights(Products(f, K)) /\ DOMAIN Products(f, K) = Q
        /\ \A q \in Q : Products(f, K)[q] = f[q] * K[q] /\ f[q] * K[q] \in Nat
    BY ONLY <2>1, ProductsFacts, IsFiniteSet(Q), \A q \in Q : f[q] \in Nat
  <2> QED
    BY <2>2, TotalFacts DEF Price
<1>1. PICK K \in [Q -> 0..n] :
           /\ Total(Leaves(K, n), Q) <= 2 ^ n /\ Price(Q, f, K) <= Price(Q, f, M)
           /\ K[u] <= K[t] /\ \A q \in Q \ {t} : K[q] <= K[u]
  BY RareDeep
<1>2. PICK J \in [Q -> 0..n] :
           /\ Total(Leaves(J, n), Q) <= 2 ^ n /\ Price(Q, f, J) <= Price(Q, f, K)
           /\ J[t] = J[u] /\ J[u] >= 1
  BY <1>1, LevelTwo
<1>3. PICK m \in Nat : m + 1 = J[t] /\ m + 1 = J[u] /\ m + 1 \in 0..n /\ m \in 0..n
  <2>1. J[t] \in 0..n /\ J[u] \in 0..n
    OBVIOUS
  <2>2. J[t] - 1 \in Nat /\ (J[t] - 1) + 1 = J[t] /\ J[t] - 1 \in 0..n
    BY <1>2, <2>1
  <2> QED
    BY <1>2, <2>1, <2>2
<1>4. PICK Others, After : Others = Q \ {t, u} /\ After = Others \cup {j}
  OBVIOUS
<1>5. Others \in SUBSET Q /\ Others \in SUBSET After /\ j \in After \ Others /\ IsFiniteSet(Others) /\ IsFiniteSet(After)
  <2>1. IsFiniteSet(Others)
    BY <1>4, FS_Subset
  <2> QED
    BY <1>4, <2>1, FS_AddElement
<1>6. PICK N : N = [q \in After |-> IF q = j THEN m ELSE J[q]]
  OBVIOUS
<1>7. N \in [After -> 0..n] /\ N[j] = m /\ \A q \in Others : N[q] = J[q]
  <2>1. \A q \in After : q = j \/ q \in Others
    BY <1>4
  <2>2. \A q \in Others : q # j /\ q \in After /\ q \in Q
    BY <1>5
  <2> QED
    BY <1>3, <1>5, <1>6, <2>1, <2>2
<1>8. PICK v : v = Leaves(J, n)
  OBVIOUS
<1>9. PICK w : w = Leaves(N, n)
  OBVIOUS
<1>10. /\ Weights(v) /\ DOMAIN v = Q /\ \A q \in Q : v[q] = 2 ^ (n - J[q]) /\ 2 ^ (n - J[q]) \in Nat
  <2>1. IsFiniteSet(Q) /\ J \in [Q -> 0..n]
    OBVIOUS
  <2>2. /\ Weights(Leaves(J, n)) /\ DOMAIN Leaves(J, n) = Q
        /\ \A s \in Q : /\ J[s] \in 0..n /\ n - J[s] \in Nat /\ 2 ^ (n - J[s]) \in Nat
                        /\ Leaves(J, n)[s] = 2 ^ (n - J[s])
    BY ONLY <2>1, LeavesFacts, n \in Nat
  <2> QED
    BY ONLY <1>8, <2>2, Zenon
<1>11. /\ Weights(w) /\ DOMAIN w = After /\ \A q \in After : w[q] = 2 ^ (n - N[q]) /\ 2 ^ (n - N[q]) \in Nat
  <2>1. IsFiniteSet(After) /\ N \in [After -> 0..n]
    BY <1>5, <1>7
  <2>2. /\ Weights(Leaves(N, n)) /\ DOMAIN Leaves(N, n) = After
        /\ \A s \in After : /\ N[s] \in 0..n /\ n - N[s] \in Nat /\ 2 ^ (n - N[s]) \in Nat
                        /\ Leaves(N, n)[s] = 2 ^ (n - N[s])
    BY ONLY <2>1, LeavesFacts, n \in Nat
  <2> QED
    BY ONLY <1>9, <2>2, Zenon
<1>12. Total(w, After) = Total(v, Q)
  <2>1. \A q \in Others : w[q] = v[q]
    BY <1>5, <1>7, <1>10, <1>11
  <2>2. Total(w, Others) = Total(v, Others)
    BY <1>5, <1>10, <1>11, <2>1, TotalSame
  <2>3. Total(v, Q) = Total(v, Others) + (v[t] + v[u]) /\ Total(v, Others) \in Nat
    BY <1>4, <1>10, TotalTwo
  <2>4. Total(w, Others \cup {j}) = Total(w, Others) + w[j]
    BY <1>5, <1>11, TotalFacts
  <2>5. PICK b \in Nat : b = 2 ^ (n - (m + 1)) /\ 2 ^ (n - m) = 2 * b
    <3>1. n - (m + 1) \in Nat /\ n - m = (n - (m + 1)) + 1
      BY <1>3
    <3> QED
      BY <3>1, Powers
  <2>6. v[t] = b /\ v[u] = b /\ w[j] = 2 * b
    BY <1>3, <1>5, <1>7, <1>10, <1>11, <2>5
  <2> QED
    BY <1>4, <2>2, <2>3, <2>4, <2>6
<1>13. Total(Leaves(N, n), After) <= 2 ^ n
  BY <1>2, <1>8, <1>9, <1>12
<1>14. \A q \in After : g[q] \in Nat
  <2>1. \A q \in After : q = j \/ q \in Others
    BY <1>4
  <2>2. f[t] + f[u] \in Nat
    OBVIOUS
  <2> QED
    BY <1>4, <2>1, <2>2
<1>15. PICK a : a = Products(f, J)
  OBVIOUS
<1>16. PICK c : c = Products(g, N)
  OBVIOUS
<1>17. Weights(a) /\ DOMAIN a = Q /\ \A q \in Q : a[q] = f[q] * J[q] /\ f[q] * J[q] \in Nat
  BY ONLY <1>0, <1>15, J \in [Q -> 0..n]
<1>18. Weights(c) /\ DOMAIN c = After /\ \A q \in After : c[q] = g[q] * N[q] /\ g[q] * N[q] \in Nat
  <2>1. N \in [After -> Nat]
    BY <1>7
  <2> QED
    BY ONLY <1>5, <1>14, <1>16, <2>1, ProductsFacts
<1>19. Total(c, After) + (f[t] + f[u]) = Total(a, Q)
  <2>1. \A q \in Others : c[q] = a[q]
    BY <1>4, <1>5, <1>7, <1>17, <1>18
  <2>2. Total(c, Others) = Total(a, Others)
    BY <1>5, <1>17, <1>18, <2>1, TotalSame
  <2>3. Total(a, Q) = Total(a, Others) + (a[t] + a[u]) /\ Total(a, Others) \in Nat
    BY <1>4, <1>17, TotalTwo
  <2>4. Total(c, Others \cup {j}) = Total(c, Others) + c[j]
    BY <1>5, <1>18, TotalFacts
  <2>5. PICK p \in Nat, q \in Nat : p = f[t] /\ q = f[u]
    OBVIOUS
  <2>6. a[t] = p * (m + 1) /\ a[u] = q * (m + 1) /\ c[j] = (p + q) * m
    BY <1>3, <1>5, <1>7, <1>17, <1>18, <2>5
  <2>7. (p + q) * m + (p + q) = p * (m + 1) + q * (m + 1)
    BY ONLY p \in Nat, q \in Nat, m \in Nat
  <2>8. PICK x \in Nat, y \in Nat, z \in Nat : x = p * (m + 1) /\ y = q * (m + 1) /\ z = (p + q) * m
    <3>1. p * (m + 1) \in Nat /\ q * (m + 1) \in Nat /\ (p + q) * m \in Nat
      BY ONLY p \in Nat, q \in Nat, m \in Nat
    <3> QED
      BY <3>1
  <2>9. z + (p + q) = x + y
    BY <2>7, <2>8
  <2>10. a[t] = x /\ a[u] = y /\ c[j] = z
    BY <2>6, <2>8
  <2>11. Total(c, After) = Total(a, Others) + z
    BY ONLY <1>4, <2>2, <2>4, <2>10
  <2>12. Total(a, Q) = Total(a, Others) + (x + y)
    BY ONLY <2>3, <2>10
  <2> QED
    BY ONLY <2>3, <2>5, <2>9, <2>11, <2>12, x \in Nat, y \in Nat, z \in Nat, p \in Nat, q \in Nat
<1>20. Price(After, g, N) + (f[t] + f[u]) <= Price(Q, f, M)
  <2>1. PICK x \in Nat, y \in Nat, z \in Nat : x = Price(Q, f, J) /\ y = Price(Q, f, K) /\ z = Price(Q, f, M)
    BY <1>0
  <2>2. Price(After, g, N) + (f[t] + f[u]) = x
    BY <1>15, <1>16, <1>19, <2>1 DEF Price
  <2>3. x <= y /\ y <= z
    BY <1>1, <1>2, <2>1
  <2>4. x <= z
    BY ONLY <2>3, x \in Nat, y \in Nat, z \in Nat
  <2> QED
    BY ONLY <2>1, <2>2, <2>4
<1>21. Merged(Q, f, n, M, t, u, After, g)
  BY ONLY <1>7, <1>13, <1>20, Zenon DEF Merged
<1> QED
  BY <1>4, <1>21

\* A sum taken over the images of things.
LEMMA TotalImage ==
  ASSUME NEW w, Weights(w), NEW v, Weights(v), NEW h, \A x \in DOMAIN w : h[x] \in DOMAIN v /\ v[h[x]] = w[x],
         \A x, y \in DOMAIN w : h[x] = h[y] => x = y
  PROVE  Total(v, {h[x] : x \in DOMAIN w}) = Total(w, DOMAIN w)
<1> DEFINE Image(S) == {h[x] : x \in S}
           G == {S \in SUBSET DOMAIN w : Total(v, Image(S)) = Total(w, S)}
<1>1. {} \in G
  <2>1. Image({}) = {}
    OBVIOUS
  <2>2. Total(v, {}) = 0 /\ Total(w, {}) = 0
    BY TotalFacts
  <2> QED
    BY <2>1, <2>2
<1>2. ASSUME NEW S \in SUBSET DOMAIN w, S \in G, NEW x \in DOMAIN w \ S PROVE S \cup {x} \in G
  <2>1. Image(S \cup {x}) = Image(S) \cup {h[x]}
    OBVIOUS
  <2>2. h[x] \in DOMAIN v \ Image(S) /\ Image(S) \in SUBSET DOMAIN v
    OBVIOUS
  <2>3. Total(v, Image(S)) = Total(w, S)
    BY <1>2
  <2> HIDE DEF Image
  <2>4. Total(v, Image(S) \cup {h[x]}) = Total(v, Image(S)) + v[h[x]]
    BY <2>2, TotalFacts
  <2>5. Total(w, S \cup {x}) = Total(w, S) + w[x]
    BY TotalFacts
  <2>6. Total(v, Image(S \cup {x})) = Total(w, S \cup {x})
    BY <2>1, <2>3, <2>4, <2>5
  <2> QED
    BY <2>6
<1> HIDE DEF G
<1>3. IsFiniteSet(DOMAIN w)
  BY DEF Weights
<1>4. \A S \in SUBSET DOMAIN w : S \in G
  BY ONLY <1>1, <1>2, <1>3, FiniteInduction
<1>5. DOMAIN w \in G
  BY <1>4
<1> QED
  BY <1>5 DEF G

-----------------------------------------------------------------------------
(* The code lengths are the best there are.                                *)

Present == {s \in Symbols : Occurs(s)}
Rates(Q) == [t \in Q |-> t.frequency]
TreeCost(c, t) == Total(Products(c, t.depth), DOMAIN t.depth)
Spent(c, Q) == Total([t \in Q |-> TreeCost(c, t)], Q)

\* The trees can still become one that costs no more than given lengths do.
Reaches(c, Q, U, l, n) ==
  \E M \in [Q -> 0..n] :
    /\ Total(Leaves(M, n), Q) <= 2 ^ n
    /\ Spent(c, Q) + Price(Q, Rates(Q), M) <= Price(U, c, l)
Feasible(U, l, n) == l \in [U -> 0..n] /\ Total(Leaves(l, n), U) <= 2 ^ n

BestInv ==
  /\ written \/ (decoding /\ pc \notin {"merge", "write"})
  /\ written /\ pc = "merge" =>
       \A n \in Nat : \A l : Feasible(Present, l, n) => Reaches(Counts, queue, Present, l, n)
  /\ written /\ pc # "merge" /\ Cardinality(Present) > 1 =>
       \A n \in Nat : \A l : Feasible(Present, l, n) =>
         Price(Present, Counts, lengths) <= Price(Present, Counts, l)

\* The symbols that occur, and how often.
LEMMA PresentFacts ==
  ASSUME input \in Seq(Symbols)
  PROVE  /\ Present \in SUBSET Symbols /\ IsFiniteSet(Present)
         /\ Weights(Counts) /\ DOMAIN Counts = Symbols /\ \A s \in Symbols : Counts[s] \in Nat
<1>1. Present \in SUBSET Symbols
  BY DEF Present
<1> QED
  BY <1>1, SymbolFacts, FS_Subset, CountsFacts

\* What trees cost is a number.
LEMMA TreeCostFacts ==
  ASSUME NEW c, Weights(c), DOMAIN c = Symbols, NEW t, IsTree(t)
  PROVE  /\ Weights(Products(c, t.depth)) /\ DOMAIN Products(c, t.depth) = DOMAIN t.depth
         /\ \A s \in DOMAIN t.depth : Products(c, t.depth)[s] = c[s] * t.depth[s]
         /\ TreeCost(c, t) \in Nat
<1>1. PICK D : D = DOMAIN t.depth
  OBVIOUS
<1>2. D \in SUBSET Symbols /\ t.depth \in [D -> Nat]
  BY <1>1 DEF IsTree
<1>3. IsFiniteSet(D) /\ \A q \in D : c[q] \in Nat
  BY <1>2, SymbolFacts, FS_Subset DEF Weights
<1>4. PICK d : d = t.depth /\ d \in [D -> Nat]
  BY <1>2
<1>5. /\ Weights(Products(c, d)) /\ DOMAIN Products(c, d) = D
      /\ \A q \in D : Products(c, d)[q] = c[q] * d[q] /\ c[q] * d[q] \in Nat
  BY ONLY <1>3, <1>4, ProductsFacts
<1>6. PICK p : p = Products(c, d)
  OBVIOUS
<1>7. Total(p, D) \in Nat
  BY <1>5, <1>6, TotalFacts
<1> QED
  BY <1>1, <1>4, <1>5, <1>6, <1>7 DEF TreeCost

\* What all trees cost is a number.
LEMMA SpentFacts ==
  ASSUME NEW c, Weights(c), DOMAIN c = Symbols, NEW Q, IsFiniteSet(Q), \A t \in Q : IsTree(t)
  PROVE  /\ Weights([t \in Q |-> TreeCost(c, t)]) /\ Spent(c, Q) \in Nat
<1>1. \A t \in Q : TreeCost(c, t) \in Nat
  BY TreeCostFacts
<1>2. PICK w : w = [t \in Q |-> TreeCost(c, t)]
  OBVIOUS
<1>3. w \in [Q -> Nat]
  BY <1>1, <1>2
<1>4. Weights(w) /\ DOMAIN w = Q
  BY ONLY <1>3, WeightsOf, IsFiniteSet(Q)
<1>5. Total(w, Q) \in Nat
  BY <1>4, TotalFacts
<1> QED
  BY <1>2, <1>4, <1>5 DEF Spent

\* A tree below a node costs as much more as its symbols occur.
LEMMA HalfCost ==
  ASSUME NEW c, Weights(c), DOMAIN c = Symbols, NEW t, IsTree(t), NEW D, D = DOMAIN t.depth,
         NEW p, Weights(p), D \in SUBSET DOMAIN p, \A s \in D : p[s] = c[s] * (1 + t.depth[s])
  PROVE  Total(p, D) = Total(c, D) + TreeCost(c, t)
<1>1. PICK v : v = Products(c, t.depth)
  OBVIOUS
<1>2. /\ Weights(v) /\ DOMAIN v = D /\ \A s \in D : v[s] = c[s] * t.depth[s]
  BY <1>1, TreeCostFacts
<1>3. D \in SUBSET Symbols /\ \A s \in D : t.depth[s] \in Nat /\ c[s] \in Nat
  BY DEF IsTree, Weights
<1>4. \A s \in D : p[s] = 1 * c[s] + v[s]
  <2> TAKE s \in D
  <2>1. PICK a \in Nat, b \in Nat : a = c[s] /\ b = t.depth[s]
    BY <1>3
  <2>2. a * (1 + b) = 1 * a + a * b
    BY ONLY a \in Nat, b \in Nat
  <2>3. p[s] = a * (1 + b) /\ v[s] = a * b
    BY <1>2, <2>1
  <2> QED
    BY ONLY <2>1, <2>2, <2>3
<1>5. Total(p, D) = 1 * Total(c, D) + Total(v, D)
  BY <1>2, <1>3, <1>4, TotalLinear
<1>6. Total(c, D) \in Nat
  BY <1>3, TotalFacts
<1>7. Total(v, D) = TreeCost(c, t)
  BY <1>1 DEF TreeCost
<1> QED
  BY ONLY <1>5, <1>6, <1>7

\* A join costs as much as the two trees occur.
LEMMA JoinedCost ==
  ASSUME NEW c, Weights(c), DOMAIN c = Symbols, NEW t, NEW u, IsTree(t), IsTree(u), IsTree(H!Joined(t, u)),
         DOMAIN t.depth \cap DOMAIN u.depth = {},
         t.frequency = Total(c, DOMAIN t.depth), u.frequency = Total(c, DOMAIN u.depth)
  PROVE  TreeCost(c, H!Joined(t, u)) = (TreeCost(c, t) + TreeCost(c, u)) + (t.frequency + u.frequency)
<1>1. PICK D, E : D = DOMAIN t.depth /\ E = DOMAIN u.depth
  OBVIOUS
<1>2. PICK j : j = H!Joined(t, u)
  OBVIOUS
<1>3. j.depth = [s \in D \cup E |-> 1 + IF s \in D THEN t.depth[s] ELSE u.depth[s]]
  BY <1>1, <1>2 DEF H!Joined
<1>4. /\ D \in SUBSET Symbols /\ E \in SUBSET Symbols /\ D \cap E = {} /\ DOMAIN j.depth = D \cup E
      /\ \A s \in D : j.depth[s] = 1 + t.depth[s]
      /\ \A s \in E : j.depth[s] = 1 + u.depth[s]
  <2>1. \A s \in E : s \notin D
    BY <1>1
  <2> QED
    BY <1>1, <1>3, <2>1 DEF IsTree
<1>5. PICK p : p = Products(c, j.depth)
  OBVIOUS
<1>6. /\ Weights(p) /\ DOMAIN p = D \cup E /\ \A s \in D \cup E : p[s] = c[s] * j.depth[s]
  <2>1. IsTree(j)
    BY <1>2
  <2>2. /\ Weights(Products(c, j.depth)) /\ DOMAIN Products(c, j.depth) = DOMAIN j.depth
        /\ \A s \in DOMAIN j.depth : Products(c, j.depth)[s] = c[s] * j.depth[s]
    BY ONLY <2>1, TreeCostFacts, Weights(c), DOMAIN c = Symbols
  <2> QED
    BY ONLY <1>4, <1>5, <2>2, Zenon
<1>7. Total(p, D) = Total(c, D) + TreeCost(c, t)
  <2>1. D \in SUBSET DOMAIN p /\ \A s \in D : p[s] = c[s] * (1 + t.depth[s])
    BY <1>4, <1>6
  <2> QED
    BY <1>1, <1>6, <2>1, HalfCost
<1>8. Total(p, E) = Total(c, E) + TreeCost(c, u)
  <2>1. E \in SUBSET DOMAIN p /\ \A s \in E : p[s] = c[s] * (1 + u.depth[s])
    BY <1>4, <1>6
  <2> QED
    BY <1>1, <1>6, <2>1, HalfCost
<1>9. Total(p, D \cup E) = Total(p, D) + Total(p, E)
  BY <1>4, <1>6, TotalUnion
<1>10. TreeCost(c, j) = Total(p, D \cup E)
  BY <1>4, <1>5 DEF TreeCost
<1>11. PICK a \in Nat, b \in Nat, x \in Nat, y \in Nat :
         a = TreeCost(c, t) /\ b = TreeCost(c, u) /\ x = Total(c, D) /\ y = Total(c, E)
  <2>1. TreeCost(c, t) \in Nat /\ TreeCost(c, u) \in Nat
    BY TreeCostFacts
  <2>2. Total(c, D) \in Nat /\ Total(c, E) \in Nat
    BY <1>4, TotalFacts
  <2> QED
    BY <2>1, <2>2
<1>12. TreeCost(c, j) = (x + a) + (y + b)
  BY ONLY <1>7, <1>8, <1>9, <1>10, <1>11
<1>13. t.frequency = x /\ u.frequency = y
  BY <1>1, <1>11
<1>14. (x + a) + (y + b) = (a + b) + (x + y)
  OBVIOUS
<1> QED
  BY ONLY <1>2, <1>11, <1>12, <1>13, <1>14

\* Symbols become trees.
LEMMA BestInit ==
  ASSUME HuffmanInv, H!Init
  PROVE  BestInv
<1>1. CASE written = TRUE
  <2>1. pc = "merge" /\ queue = {H!Leaf(s) : s \in {x \in Symbols : H!Frequency(x) > 0}}
    BY <1>1 DEF H!Init
  <2>2. input \in Seq(Symbols)
    BY DEF HuffmanInv
  <2>3. queue = {H!Leaf(s) : s \in Present}
    BY <2>1 DEF Present, Occurs
  <2>4. /\ Present \in SUBSET Symbols /\ IsFiniteSet(Present)
        /\ Weights(Counts) /\ DOMAIN Counts = Symbols /\ \A s \in Symbols : Counts[s] \in Nat
    BY <2>2, PresentFacts
  <2>5. PICK h : h = [s \in Present |-> H!Leaf(s)]
    OBVIOUS
  <2>6. queue = {h[s] : s \in Present} /\ \A s \in Present : h[s] \in queue
    BY <2>3, <2>5
  <2>7. \A s \in Present : /\ h[s].minimum = s /\ h[s].frequency = Counts[s] /\ h[s].depth = [x \in {s} |-> 0]
    BY <2>4, <2>5 DEF H!Leaf, Counts
  <2>8. \A s, x \in Present : h[s] = h[x] => s = x
    BY <2>7
  <2>9. IsFiniteSet(queue)
    <3>1. h \in [Present -> queue] /\ \A t \in queue : \E s \in Present : h[s] = t
      BY <2>3, <2>5
    <3>2. h \in Surjection(Present, queue)
      BY <3>1 DEF Surjection
    <3> QED
      BY <2>4, <3>2, FS_Surjection
  <2>10. \A t \in queue : IsTree(t)
    BY DEF HuffmanInv
  <2>11. Spent(Counts, queue) = 0
    <3>1. \A t \in queue : TreeCost(Counts, t) = 0
      <4> TAKE t \in queue
      <4>1. PICK s \in Present : t = h[s]
        BY <2>6
      <4>2. PICK d : d = t.depth /\ d = [x \in {s} |-> 0]
        BY <2>7, <4>1
      <4>3. DOMAIN d = {s} /\ d[s] = 0
        BY ONLY <4>2
      <4>4. PICK p : p = Products(Counts, d)
        OBVIOUS
      <4>5. Weights(p) /\ DOMAIN p = {s} /\ p[s] = Counts[s] * 0
        <5>1. IsTree(t)
          BY <2>10
        <5>2. /\ Weights(Products(Counts, t.depth)) /\ DOMAIN Products(Counts, t.depth) = DOMAIN t.depth
              /\ \A x \in DOMAIN t.depth : Products(Counts, t.depth)[x] = Counts[x] * t.depth[x]
          BY ONLY <2>4, <5>1, TreeCostFacts
        <5> QED
          BY <4>2, <4>3, <4>4, <5>2
      <4>6. p[s] = 0
        <5>1. Counts[s] \in Nat
          BY <2>4
        <5> QED
          BY <4>5, <5>1
      <4>7. Total(p, {s}) = 0
        BY <4>5, <4>6, TotalOne
      <4> QED
        BY <4>2, <4>3, <4>4, <4>7 DEF TreeCost
    <3>2. PICK w : w = [t \in queue |-> TreeCost(Counts, t)]
      OBVIOUS
    <3>3. Weights(w) /\ DOMAIN w = queue /\ \A t \in queue : w[t] = 0
      <4>1. Weights([t \in queue |-> TreeCost(Counts, t)])
        BY ONLY <2>4, <2>9, <2>10, SpentFacts
      <4> QED
        BY <3>1, <3>2, <4>1
    <3>4. Total(w, queue) = 0
      BY <3>3, TotalZero
    <3> QED
      BY <3>2, <3>4 DEF Spent
  <2>12. ASSUME NEW n \in Nat, NEW l, Feasible(Present, l, n) PROVE Reaches(Counts, queue, Present, l, n)
    <3>1. l \in [Present -> 0..n] /\ Total(Leaves(l, n), Present) <= 2 ^ n
      BY <2>12 DEF Feasible
    <3>2. PICK M : M = [t \in queue |-> l[t.minimum]]
      OBVIOUS
    <3>3. M \in [queue -> 0..n] /\ \A s \in Present : M[h[s]] = l[s]
      <4>1. \A s \in Present : h[s] \in queue /\ h[s].minimum = s /\ l[s] \in 0..n
        BY <2>6, <2>7, <3>1
      <4>2. \A t \in queue : \E s \in Present : t = h[s]
        BY <2>6
      <4>3. \A t \in queue : l[t.minimum] \in 0..n
        BY <4>1, <4>2
      <4> QED
        BY <3>2, <4>1, <4>3
    <3>4. PICK w, v : w = Leaves(l, n) /\ v = Leaves(M, n)
      OBVIOUS
    <3>5. Weights(w) /\ DOMAIN w = Present /\ \A s \in Present : w[s] = 2 ^ (n - l[s])
      <4>1. /\ Weights(Leaves(l, n)) /\ DOMAIN Leaves(l, n) = Present
            /\ \A s \in Present : /\ l[s] \in 0..n /\ n - l[s] \in Nat /\ 2 ^ (n - l[s]) \in Nat
                                  /\ Leaves(l, n)[s] = 2 ^ (n - l[s])
        BY ONLY <2>4, <3>1, LeavesFacts, n \in Nat
      <4> QED
        BY ONLY <3>4, <4>1, Zenon
    <3>6. Weights(v) /\ DOMAIN v = queue /\ \A t \in queue : v[t] = 2 ^ (n - M[t])
      <4>1. /\ Weights(Leaves(M, n)) /\ DOMAIN Leaves(M, n) = queue
            /\ \A s \in queue : /\ M[s] \in 0..n /\ n - M[s] \in Nat /\ 2 ^ (n - M[s]) \in Nat
                                /\ Leaves(M, n)[s] = 2 ^ (n - M[s])
        BY ONLY <2>9, <3>3, LeavesFacts, n \in Nat
      <4> QED
        BY ONLY <3>4, <4>1, Zenon
    <3>7. Total(v, queue) = Total(w, Present)
      <4>1. \A s \in DOMAIN w : h[s] \in DOMAIN v /\ v[h[s]] = w[s]
        BY <2>6, <3>3, <3>5, <3>6
      <4>2. \A s, x \in DOMAIN w : h[s] = h[x] => s = x
        BY <2>8, <3>5
      <4>3. Total(v, {h[s] : s \in DOMAIN w}) = Total(w, DOMAIN w)
        BY ONLY <3>5, <3>6, <4>1, <4>2, TotalImage
      <4> QED
        BY ONLY <2>6, <3>5, <4>3, Zenon
    <3>8. PICK a, b : a = Products(Counts, l) /\ b = Products(Rates(queue), M)
      OBVIOUS
    <3>9. Weights(a) /\ DOMAIN a = Present /\ \A s \in Present : a[s] = Counts[s] * l[s]
      <4>1. l \in [Present -> Nat] /\ \A s \in Present : Counts[s] \in Nat
        BY <2>4, <3>1
      <4>2. /\ Weights(Products(Counts, l)) /\ DOMAIN Products(Counts, l) = Present
            /\ \A q \in Present : Products(Counts, l)[q] = Counts[q] * l[q] /\ Counts[q] * l[q] \in Nat
        BY ONLY <2>4, <4>1, ProductsFacts
      <4> QED
        BY ONLY <3>8, <4>2, Zenon
    <3>10. \A t \in queue : Rates(queue)[t] \in Nat /\ Rates(queue)[t] = t.frequency
      <4>1. \A t \in queue : Rates(queue)[t] = t.frequency
        BY DEF Rates
      <4>2. \A t \in queue : t.frequency \in Nat
        <5> TAKE t \in queue
        <5>1. PICK s \in Present : t = h[s]
          BY <2>6
        <5>2. h[s].frequency = Counts[s] /\ s \in Symbols
          BY <2>4, <2>7
        <5>3. Counts[s] \in Nat
          BY ONLY <2>4, <5>2
        <5> QED
          BY ONLY <5>1, <5>2, <5>3
      <4> QED
        BY ONLY <4>1, <4>2
    <3>11. Weights(b) /\ DOMAIN b = queue /\ \A t \in queue : b[t] = t.frequency * M[t]
      <4>1. M \in [queue -> Nat]
        BY <3>3
      <4>2. PICK r : r = Rates(queue)
        OBVIOUS
      <4>3. \A t \in queue : r[t] \in Nat
        BY <3>10, <4>2
      <4>4. /\ Weights(Products(r, M)) /\ DOMAIN Products(r, M) = queue
            /\ \A q \in queue : Products(r, M)[q] = r[q] * M[q] /\ r[q] * M[q] \in Nat
        BY ONLY <2>9, <4>1, <4>3, ProductsFacts
      <4> QED
        BY <3>8, <3>10, <4>2, <4>4
    <3>12. Total(b, queue) = Total(a, Present)
      <4>1. \A s \in DOMAIN a : h[s] \in DOMAIN b /\ b[h[s]] = a[s]
        <5> TAKE s \in DOMAIN a
        <5>1. s \in Present /\ h[s] \in queue
          BY ONLY <2>6, <3>9
        <5>2. b[h[s]] = h[s].frequency * M[h[s]] /\ h[s] \in DOMAIN b
          BY ONLY <3>11, <5>1
        <5>3. h[s].frequency = Counts[s]
          BY ONLY <2>7, <5>1
        <5>4. M[h[s]] = l[s]
          BY ONLY <3>3, <5>1
        <5>5. a[s] = Counts[s] * l[s]
          BY ONLY <3>9, <5>1
        <5> QED
          BY ONLY <5>2, <5>3, <5>4, <5>5, Zenon
      <4>2. \A s, x \in DOMAIN a : h[s] = h[x] => s = x
        BY <2>8, <3>9
      <4>3. Total(b, {h[s] : s \in DOMAIN a}) = Total(a, DOMAIN a)
        BY ONLY <3>9, <3>11, <4>1, <4>2, TotalImage
      <4> QED
        BY ONLY <2>6, <3>9, <4>3, Zenon
    <3>13. Price(queue, Rates(queue), M) = Price(Present, Counts, l)
      BY <3>8, <3>12 DEF Price
    <3>14. Total(a, Present) \in Nat
      BY <3>9, TotalFacts
    <3>15. Spent(Counts, queue) + Price(queue, Rates(queue), M) <= Price(Present, Counts, l)
      <4>1. PICK x \in Nat : x = Price(Present, Counts, l)
        BY <3>8, <3>14 DEF Price
      <4> QED
        BY <2>11, <3>13, <4>1
    <3>16. Total(Leaves(M, n), queue) <= 2 ^ n
      BY <3>1, <3>4, <3>7
    <3> QED
      BY ONLY <3>3, <3>15, <3>16, Zenon DEF Reaches
  <2> QED
    BY <1>1, <2>1, <2>12 DEF BestInv
<1>2. CASE written # TRUE
  <2>1. written = FALSE /\ pc = "codes" /\ decoding = TRUE
    BY <1>2 DEF H!Init
  <2> QED
    BY <2>1 DEF BestInv
<1> QED
  BY <1>1, <1>2

\* Joining the two rarest trees costs what their symbols occur.
LEMMA BestMerge ==
  ASSUME HuffmanInv, TreesInv, BestInv, H!Merge
  PROVE  BestInv'
<1>1. pc = "merge" /\ pc' = pc /\ written' = written /\ input' = input /\ decoding' = decoding
  BY DEF H!Merge
<1>2. PICK t \in queue, u \in queue :
        /\ H!Before(t, u) /\ \A v \in queue \ {t, u} : H!Before(u, v)
        /\ queue' = (queue \ {t, u}) \cup {H!Joined(t, u)}
  BY DEF H!Merge
<1>3. written = TRUE
  BY <1>1 DEF BestInv, HuffmanInv
<1>4. /\ \A v \in queue : IsTree(v)
      /\ \A v, w \in queue : v = w \/ DOMAIN v.depth \cap DOMAIN w.depth = {}
      /\ input \in Seq(Symbols)
  BY DEF HuffmanInv, H!TypeOK
<1>5. /\ IsFiniteSet(queue)
      /\ \A v \in queue : Full(v) /\ v.frequency = Total(Counts, DOMAIN v.depth)
  BY <1>1, <1>3 DEF TreesInv
<1>6. PICK c : c = Counts
  OBVIOUS
<1>7. Weights(c) /\ DOMAIN c = Symbols /\ \A s \in Symbols : c[s] \in Nat
  BY <1>4, <1>6, CountsFacts
<1>8. \A v \in queue : v.frequency \in Nat
  <2> TAKE v \in queue
  <2>1. DOMAIN v.depth \in SUBSET Symbols
    BY <1>4 DEF IsTree
  <2>2. Total(c, DOMAIN v.depth) \in Nat
    BY <1>7, <2>1, TotalFacts
  <2> QED
    BY <1>5, <1>6, <2>2
<1>9. t # u
  <2>1. t.minimum \in Nat
    <3>1. t.minimum = H!Min(DOMAIN t.depth)
      BY DEF HuffmanInv, H!TypeOK
    <3>2. DOMAIN t.depth \in SUBSET Nat /\ DOMAIN t.depth # {}
      BY <1>4, SymbolFacts DEF IsTree
    <3>3. H!Min(DOMAIN t.depth) \in DOMAIN t.depth
      BY <3>2, MinimumFacts
    <3> QED
      BY <3>1, <3>2, <3>3
  <2>2. ~H!Before(t, t)
    BY <1>8, <2>1 DEF H!Before
  <2> QED
    BY <1>2, <2>2
<1>10. DOMAIN t.depth \cap DOMAIN u.depth = {}
  BY <1>4, <1>9
<1>11. PICK j : j = H!Joined(t, u)
  OBVIOUS
<1>12. DOMAIN j.depth = DOMAIN t.depth \cup DOMAIN u.depth /\ j.frequency = t.frequency + u.frequency
  BY <1>11 DEF H!Joined
<1>13. j \notin queue \ {t, u}
  <2> SUFFICES ASSUME j \in queue \ {t, u} PROVE FALSE
    OBVIOUS
  <2>1. DOMAIN j.depth \cap DOMAIN t.depth = {}
    BY <1>4
  <2>2. DOMAIN t.depth # {}
    BY <1>4 DEF IsTree
  <2> QED
    BY <1>12, <2>1, <2>2
<1>14. IsTree(j)
  <2>1. t.minimum = H!Min(DOMAIN t.depth) /\ u.minimum = H!Min(DOMAIN u.depth)
    BY DEF HuffmanInv, H!TypeOK
  <2> QED
    BY <1>4, <1>11, <2>1, JoinedIsTree
<1>15. PICK Others, After : Others = queue \ {t, u} /\ After = Others \cup {j}
  OBVIOUS
<1>16. queue' = After /\ Others \in SUBSET queue /\ Others \in SUBSET After /\ j \in After /\ j \notin Others /\ IsFiniteSet(Others) /\ IsFiniteSet(After)
  <2>1. IsFiniteSet(Others)
    BY <1>5, <1>15, FS_Subset
  <2> QED
    BY <1>2, <1>11, <1>13, <1>15, <2>1, FS_AddElement
<1>17. PICK f, g : f = Rates(queue) /\ g = Rates(After)
  OBVIOUS
<1>18. /\ \A q \in queue : f[q] = q.frequency /\ f[q] \in Nat
       /\ \A q \in After : g[q] = q.frequency
  BY <1>8, <1>17 DEF Rates
<1>19. \A q \in queue : f[t] <= f[q]
  <2> TAKE q \in queue
  <2>1. f[t] \in Nat /\ f[u] \in Nat /\ f[q] \in Nat
    BY <1>18
  <2>2. f[t] <= f[u]
    BY <1>2, <1>18, <2>1 DEF H!Before
  <2>3. CASE q \in {t, u}
    BY <2>1, <2>2, <2>3
  <2>4. CASE q \notin {t, u}
    <3>1. f[u] <= f[q]
      BY <1>2, <1>18, <2>1, <2>4 DEF H!Before
    <3> QED
      BY <2>1, <2>2, <3>1
  <2> QED
    BY <2>3, <2>4
<1>20. \A q \in queue \ {t} : f[u] <= f[q]
  <2> TAKE q \in queue \ {t}
  <2>1. f[u] \in Nat /\ f[q] \in Nat
    BY <1>18
  <2>2. CASE q = u
    BY <2>1, <2>2
  <2>3. CASE q # u
    BY <1>2, <1>18, <2>1, <2>3 DEF H!Before
  <2> QED
    BY <2>2, <2>3
<1>21. g[j] = f[t] + f[u] /\ \A q \in queue \ {t, u} : g[q] = f[q]
  BY <1>12, <1>15, <1>16, <1>18
<1>22. Spent(c, After) = Spent(c, queue) + (f[t] + f[u]) /\ Spent(c, queue) \in Nat /\ Spent(c, After) \in Nat
  <2>1. PICK w, v : w = [x \in queue |-> TreeCost(c, x)] /\ v = [x \in After |-> TreeCost(c, x)]
    OBVIOUS
  <2>2. Weights(w) /\ DOMAIN w = queue /\ Total(w, queue) \in Nat /\ \A x \in queue : w[x] = TreeCost(c, x)
    <3>1. /\ Weights([x \in queue |-> TreeCost(c, x)])
      BY ONLY <1>4, <1>5, <1>7, SpentFacts
    <3>2. Weights(w) /\ DOMAIN w = queue /\ \A x \in queue : w[x] = TreeCost(c, x)
      BY ONLY <2>1, <3>1
    <3> QED
      BY <3>2, TotalFacts
  <2>3. Weights(v) /\ DOMAIN v = After /\ Total(v, After) \in Nat /\ \A x \in After : v[x] = TreeCost(c, x)
    <3>0. \A x \in After : IsTree(x)
      BY <1>4, <1>14, <1>15
    <3>1. /\ Weights([x \in After |-> TreeCost(c, x)])
      BY ONLY <3>0, <1>16, <1>7, SpentFacts
    <3>2. Weights(v) /\ DOMAIN v = After /\ \A x \in After : v[x] = TreeCost(c, x)
      BY ONLY <2>1, <3>1
    <3> QED
      BY <3>2, TotalFacts
  <2>4. v[j] = (w[t] + w[u]) + (f[t] + f[u])
    <3>1. TreeCost(c, H!Joined(t, u)) = (TreeCost(c, t) + TreeCost(c, u)) + (t.frequency + u.frequency)
      <4>1. /\ IsTree(t) /\ IsTree(u) /\ IsTree(H!Joined(t, u))
            /\ t.frequency = Total(c, DOMAIN t.depth) /\ u.frequency = Total(c, DOMAIN u.depth)
        BY <1>4, <1>5, <1>6, <1>11, <1>14
      <4> QED
        BY ONLY <1>7, <1>10, <4>1, JoinedCost
    <3> QED
      BY <1>11, <1>16, <1>18, <2>2, <2>3, <3>1
  <2>5. \A x \in Others : v[x] = w[x]
    BY <1>16, <2>2, <2>3
  <2>6. Total(v, Others) = Total(w, Others)
    BY <1>16, <2>2, <2>3, <2>5, TotalSame
  <2>7. Total(w, queue) = Total(w, Others) + (w[t] + w[u]) /\ Total(w, Others) \in Nat
    BY <1>9, <1>15, <2>2, TotalTwo
  <2>8. Total(v, Others \cup {j}) = Total(v, Others) + v[j]
    BY <1>16, <2>3, TotalFacts
  <2>9. PICK a \in Nat, b \in Nat, x \in Nat, y \in Nat, z \in Nat :
          a = w[t] /\ b = w[u] /\ x = f[t] /\ y = f[u] /\ z = Total(w, Others)
    BY <1>18, <2>2, <2>7 DEF Weights
  <2>10. Total(v, After) = z + ((a + b) + (x + y)) /\ Total(w, queue) = z + (a + b)
    BY ONLY <1>15, <2>4, <2>6, <2>7, <2>8, <2>9
  <2>11. Spent(c, After) = Total(v, After) /\ Spent(c, queue) = Total(w, queue)
    BY <2>1 DEF Spent
  <2> QED
    BY ONLY <2>2, <2>3, <2>9, <2>10, <2>11
<1>23. PICK U : U = Present
  OBVIOUS
<1>24. Counts' = c /\ Present' = U
  BY <1>1, <1>6, <1>23 DEF Counts, Present, Occurs, H!Frequency
<1>25. ASSUME NEW n \in Nat, NEW l, Feasible(U, l, n) PROVE Reaches(c, After, U, l, n)
  <2>1. Reaches(c, queue, U, l, n)
    BY <1>1, <1>3, <1>6, <1>23, <1>25 DEF BestInv
  <2>2. PICK M \in [queue -> 0..n] :
          /\ Total(Leaves(M, n), queue) <= 2 ^ n
          /\ Spent(c, queue) + Price(queue, f, M) <= Price(U, c, l)
    BY ONLY <1>17, <2>1, Zenon DEF Reaches
  <2>3. Merged(queue, f, n, M, t, u, (queue \ {t, u}) \cup {j}, g)
    <3>1. \A q \in queue : f[q] \in Nat
      BY <1>18
    <3> QED
      BY ONLY <1>5, <1>9, <1>13, <1>19, <1>20, <1>21, <2>2, <3>1, n \in Nat, M \in [queue -> 0..n],
              t \in queue, u \in queue, MergeOnce
  <2>4. PICK N \in [After -> 0..n] :
          /\ Total(Leaves(N, n), After) <= 2 ^ n
          /\ Price(After, g, N) + (f[t] + f[u]) <= Price(queue, f, M)
    BY ONLY <1>15, <2>3, Zenon DEF Merged
  <2>5. PICK x \in Nat, y \in Nat : x = Price(After, g, N) /\ y = Price(queue, f, M)
    <3>1. Price(queue, f, M) \in Nat
      <4>1. M \in [queue -> Nat] /\ \A q \in queue : f[q] \in Nat
        BY <1>18
      <4>2. Weights(Products(f, M)) /\ DOMAIN Products(f, M) = queue
        BY ONLY <1>5, <4>1, ProductsFacts
      <4> QED
        BY <4>2, TotalFacts DEF Price
    <3>2. Price(After, g, N) \in Nat
      <4>1. N \in [After -> Nat] /\ \A q \in After : g[q] \in Nat
        <5>1. f[t] + f[u] \in Nat
          BY <1>18
        <5>2. \A q \in After : q = j \/ q \in queue \ {t, u}
          BY <1>15
        <5> QED
          BY <1>18, <1>21, <5>1, <5>2
      <4>2. Weights(Products(g, N)) /\ DOMAIN Products(g, N) = After
        BY ONLY <1>16, <4>1, ProductsFacts
      <4> QED
        BY <4>2, TotalFacts DEF Price
    <3> QED
      BY <3>1, <3>2
  <2>6. PICK a \in Nat, b \in Nat, d \in Nat, e \in Nat :
          a = Spent(c, queue) /\ b = f[t] /\ d = f[u] /\ e = Price(U, c, l)
    <3>1. Price(U, c, l) \in Nat
      <4>1. IsFiniteSet(U) /\ U \in SUBSET Symbols
        BY <1>4, <1>23, PresentFacts
      <4>2. l \in [U -> Nat] /\ \A q \in U : c[q] \in Nat
        BY <1>7, <1>25, <4>1 DEF Feasible
      <4>3. Weights(Products(c, l)) /\ DOMAIN Products(c, l) = U
        BY ONLY <4>1, <4>2, ProductsFacts
      <4> QED
        BY <4>3, TotalFacts DEF Price
    <3> QED
      BY <1>18, <1>22, <3>1
  <2>7. Spent(c, After) + Price(After, g, N) <= Price(U, c, l)
    <3>1. x + (b + d) <= y /\ a + y <= e /\ Spent(c, After) = a + (b + d)
      BY ONLY <1>22, <2>2, <2>4, <2>5, <2>6
    <3> QED
      BY ONLY <2>5, <2>6, <3>1, x \in Nat, y \in Nat, a \in Nat, b \in Nat, d \in Nat, e \in Nat
  <2> QED
    BY ONLY <1>17, <2>4, <2>7, Zenon DEF Reaches
<1>26. \A n \in Nat : \A l : Feasible(Present', l, n) => Reaches(Counts', queue', Present', l, n)
  BY ONLY <1>16, <1>24, <1>25, Zenon
<1> QED
  BY ONLY <1>1, <1>3, <1>26 DEF BestInv

\* With two symbols none has the empty code.
LEMMA NotAtRoot ==
  ASSUME NEW t, IsTree(t), Full(t), Cardinality(DOMAIN t.depth) > 1
  PROVE  \A s \in DOMAIN t.depth : t.depth[s] \in Nat /\ t.depth[s] >= 1
<1>1. PICK D, d : D = DOMAIN t.depth /\ d = t.depth
  OBVIOUS
<1>2. D \in SUBSET Symbols /\ IsFiniteSet(D) /\ d \in [D -> Nat]
  BY <1>1, SymbolFacts, FS_Subset DEF IsTree
<1>3. PICK n \in Nat : d \in [D -> 0..n]
  BY <1>2, LengthsBounded
<1>4. PICK v : v = Leaves(d, n)
  OBVIOUS
<1>5. Weights(v) /\ DOMAIN v = D /\ \A s \in D : n - d[s] \in Nat /\ v[s] = 2 ^ (n - d[s])
  <2>1. IsFiniteSet(D) /\ d \in [D -> 0..n]
    BY <1>2, <1>3
  <2>2. /\ Weights(Leaves(d, n)) /\ DOMAIN Leaves(d, n) = D
        /\ \A s \in D : /\ d[s] \in 0..n /\ n - d[s] \in Nat /\ 2 ^ (n - d[s]) \in Nat
                        /\ Leaves(d, n)[s] = 2 ^ (n - d[s])
    BY ONLY <2>1, LeavesFacts, n \in Nat
  <2> QED
    BY ONLY <1>4, <2>2, Zenon
<1>6. Total(v, D) = 2 ^ n
  BY <1>1, <1>3, <1>4 DEF Full
<1>7. ASSUME NEW s \in D, d[s] = 0 PROVE FALSE
  <2>1. PICK x \in D : x # s
    <3>1. D # {s}
      <4>1. Cardinality({s}) = 1
        BY FS_Singleton
      <4> QED
        BY <1>1, <4>1
    <3> QED
      BY <3>1
  <2>2. /\ Total(v, D \ {s, x}) \in Nat
        /\ Total(v, D) = Total(v, D \ {s, x}) + (v[s] + v[x])
    BY ONLY <1>5, <2>1, TotalTwo, s \in D, x \in D
  <2>3. PICK a \in Nat, b \in Nat, k \in Nat : a = 2 ^ n /\ k = n - d[x] /\ b = 2 ^ k /\ b >= 1
    <3>1. 2 ^ n \in Nat /\ \A k \in Nat : 2 ^ k \in Nat /\ 2 ^ k >= 1
      BY Powers
    <3> QED
      BY <1>5, <3>1
  <2>4. v[s] = a /\ v[x] = b
    <3>1. n - 0 = n
      OBVIOUS
    <3> QED
      BY <1>5, <1>7, <2>3, <3>1
  <2> QED
    BY ONLY <1>6, <2>2, <2>3, <2>4, a \in Nat, b \in Nat
<1>8. \A s \in D : d[s] \in Nat /\ d[s] # 0
  BY <1>2, <1>7
<1> QED
  BY <1>1, <1>8

\* The cost of one tree is the price of its depths.
LEMMA OneTreeCost ==
  ASSUME NEW c, Weights(c), DOMAIN c = Symbols, NEW t, IsTree(t), NEW l \in [Symbols -> Nat],
         \A s \in DOMAIN t.depth : l[s] = t.depth[s]
  PROVE  Spent(c, {t}) = Price(DOMAIN t.depth, c, l)
<1>1. PICK D, d : D = DOMAIN t.depth /\ d = t.depth
  OBVIOUS
<1>2. D \in SUBSET Symbols /\ \A s \in D : l[s] = d[s]
  BY <1>1 DEF IsTree
<1>3. PICK p, q : p = Products(c, d) /\ q = Products(c, l)
  OBVIOUS
<1>4. Weights(p) /\ DOMAIN p = D /\ \A s \in D : p[s] = c[s] * d[s]
  BY <1>1, <1>3, TreeCostFacts
<1>5. Weights(q) /\ DOMAIN q = Symbols /\ \A s \in Symbols : q[s] = c[s] * l[s]
  <2>1. IsFiniteSet(Symbols) /\ \A s \in Symbols : c[s] \in Nat
    BY SymbolFacts DEF Weights
  <2>2. /\ Weights(Products(c, l)) /\ DOMAIN Products(c, l) = Symbols
        /\ \A x \in Symbols : Products(c, l)[x] = c[x] * l[x] /\ c[x] * l[x] \in Nat
    BY ONLY <2>1, ProductsFacts, l \in [Symbols -> Nat]
  <2> QED
    BY ONLY <1>3, <2>2, Zenon
<1>6. \A s \in D : q[s] = p[s]
  <2> TAKE s \in D
  <2>1. s \in Symbols /\ l[s] = d[s]
    BY <1>2
  <2>2. q[s] = c[s] * l[s] /\ p[s] = c[s] * d[s]
    BY ONLY <1>4, <1>5, <2>1, s \in D
  <2> QED
    BY ONLY <2>1, <2>2, Zenon
<1>7. Total(q, D) = Total(p, D)
  BY <1>2, <1>4, <1>5, <1>6, TotalSame
<1>8. PICK w : w = [x \in {t} |-> TreeCost(c, x)]
  OBVIOUS
<1>9. Weights(w) /\ DOMAIN w = {t} /\ w[t] = TreeCost(c, t)
  <2>1. IsFiniteSet({t}) /\ \A x \in {t} : IsTree(x)
    BY FS_Singleton
  <2>2. Weights([x \in {t} |-> TreeCost(c, x)])
    BY ONLY <2>1, SpentFacts, Weights(c), DOMAIN c = Symbols
  <2> QED
    BY <1>8, <2>2
<1>10. Total(w, {t}) = w[t]
  BY <1>9, TotalOne
<1> QED
  BY <1>1, <1>3, <1>7, <1>8, <1>9, <1>10 DEF Spent, TreeCost, Price

\* The lengths of the one tree cost no more than any others.
LEMMA BestTakeLengths ==
  ASSUME HuffmanInv, TreesInv, BestInv, H!TakeLengths
  PROVE  BestInv'
<1>1. /\ pc = "merge" /\ pc' = "codes" /\ written' = written /\ input' = input /\ decoding' = decoding
      /\ \A t, u \in queue : t = u
      /\ lengths' = [s \in Symbols |->
           IF \E t \in queue : s \in DOMAIN t.depth
           THEN H!Bits((CHOOSE t \in queue : TRUE).depth[s]) ELSE 0]
  BY DEF H!TakeLengths
<1>2. written = TRUE
  BY <1>1 DEF BestInv, HuffmanInv
<1>3. /\ \A v \in queue : Full(v) /\ IsTree(v)
      /\ \A s \in Symbols : Occurs(s) <=> \E v \in queue : s \in DOMAIN v.depth
  BY <1>1, <1>2 DEF TreesInv, HuffmanInv
<1>4. PICK c, U, l : c = Counts /\ U = Present /\ l = lengths'
  OBVIOUS
<1>5. Counts' = c /\ Present' = U
  BY <1>1, <1>4 DEF Counts, Present, Occurs, H!Frequency
<1>6. /\ Weights(c) /\ DOMAIN c = Symbols /\ (\A s \in Symbols : c[s] \in Nat)
      /\ U \in SUBSET Symbols /\ IsFiniteSet(U)
  <2>1. input \in Seq(Symbols)
    BY DEF HuffmanInv
  <2> QED
    BY <1>4, <2>1, PresentFacts
<1>7. ASSUME Cardinality(U) > 1, NEW n \in Nat, NEW k, Feasible(U, k, n)
      PROVE  Price(U, c, l) <= Price(U, c, k)
  <2>1. PICK t \in queue : t = CHOOSE u \in queue : TRUE
    <3>1. queue # {}
      <4> SUFFICES ASSUME queue = {} PROVE FALSE
        OBVIOUS
      <4>1. U = {}
        BY <1>3, <1>4 DEF Present
      <4>2. Cardinality({}) = 0
        BY FS_EmptySet
      <4> QED
        BY <1>7, <4>1, <4>2
    <3> QED
      BY <3>1
  <2>2. queue = {t} /\ IsTree(t) /\ Full(t)
    BY <1>1, <1>3, <2>1
  <2>3. U = DOMAIN t.depth
    <3>1. DOMAIN t.depth \in SUBSET Symbols
      BY <2>2 DEF IsTree
    <3> QED
      BY <1>3, <1>4, <2>2, <3>1 DEF Present
  <2>4. \A s \in DOMAIN t.depth : t.depth[s] \in Nat /\ t.depth[s] >= 1
    <3>1. Cardinality(DOMAIN t.depth) > 1
      BY <1>7, <2>3
    <3> QED
      BY ONLY <2>2, <3>1, NotAtRoot
  <2>5. l = [s \in Symbols |-> IF s \in DOMAIN t.depth THEN H!Bits(t.depth[s]) ELSE 0]
    BY <1>1, <1>4, <2>1, <2>2
  <2>6. \A s \in DOMAIN t.depth : s \in Symbols /\ l[s] = t.depth[s] /\ l[s] \in Nat
    <3> TAKE s \in DOMAIN t.depth
    <3>1. PICK d \in Nat : d = t.depth[s] /\ d >= 1
      BY <2>4
    <3>2. H!Bits(d) = d
      BY <3>1, BitsFacts
    <3>3. s \in Symbols
      BY <1>6, <2>3
    <3> QED
      BY <2>5, <3>1, <3>2, <3>3
  <2>7. l \in [Symbols -> Nat]
    <3>1. \A s \in Symbols \ DOMAIN t.depth : l[s] = 0
      BY <2>5
    <3> QED
      BY <2>5, <2>6, <3>1
  <2>8. Spent(c, {t}) = Price(DOMAIN t.depth, c, l)
    BY ONLY <1>6, <2>2, <2>6, <2>7, OneTreeCost
  <2>9. Reaches(c, queue, U, k, n)
    BY <1>1, <1>2, <1>4, <1>7 DEF BestInv
  <2>10. PICK M \in [queue -> 0..n] : Spent(c, queue) + Price(queue, Rates(queue), M) <= Price(U, c, k)
    BY ONLY <2>9, Zenon DEF Reaches
  <2>11. Price(queue, Rates(queue), M) \in Nat
    <3>1. PICK f : f = Rates(queue)
      OBVIOUS
    <3>2. \A q \in queue : f[q] \in Nat
      <4>1. t.frequency = Total(c, DOMAIN t.depth)
        BY <1>1, <1>2, <1>4 DEF TreesInv
      <4>2. t.frequency \in Nat
        BY <1>6, <2>3, <4>1, TotalFacts
      <4> QED
        BY <2>2, <3>1, <4>2 DEF Rates
    <3>3. IsFiniteSet(queue) /\ M \in [queue -> Nat]
      <4>1. IsFiniteSet({t}) /\ queue = {t}
        BY <2>2, FS_Singleton
      <4>2. IsFiniteSet(queue)
        BY ONLY <4>1
      <4> QED
        BY <4>2
    <3>4. Weights(Products(f, M)) /\ DOMAIN Products(f, M) = queue
      BY ONLY <3>2, <3>3, ProductsFacts
    <3> QED
      BY <3>1, <3>4, TotalFacts DEF Price
  <2>12. Spent(c, queue) \in Nat
    <3>1. IsFiniteSet(queue) /\ \A x \in queue : IsTree(x)
      <4>1. IsFiniteSet({t})
        BY FS_Singleton
      <4> QED
        BY <1>3, <2>2, <4>1
    <3> QED
      BY ONLY <1>6, <3>1, SpentFacts
  <2>13. Price(U, c, k) \in Nat
    <3>1. k \in [U -> Nat] /\ \A q \in U : c[q] \in Nat
      BY <1>6, <1>7 DEF Feasible
    <3>2. Weights(Products(c, k)) /\ DOMAIN Products(c, k) = U
      BY ONLY <1>6, <3>1, ProductsFacts
    <3> QED
      BY <3>2, TotalFacts DEF Price
  <2>14. Spent(c, queue) <= Price(U, c, k)
    BY ONLY <2>10, <2>11, <2>12, <2>13
  <2> QED
    BY ONLY <2>2, <2>3, <2>8, <2>14
<1>8. Cardinality(Present') > 1 =>
        \A n \in Nat : \A k : Feasible(Present', k, n) =>
          Price(Present', Counts', lengths') <= Price(Present', Counts', k)
  BY ONLY <1>4, <1>5, <1>7, Zenon
<1> QED
  BY ONLY <1>1, <1>2, <1>8 DEF BestInv

\* A step that leaves the trees and the lengths alone.
LEMMA BestStays ==
  ASSUME BestInv, UNCHANGED <<written, input, lengths>>,
         pc' = "merge" <=> pc = "merge", pc = "merge" => queue' = queue,
         decoding /\ pc \notin {"merge", "write"} => decoding' /\ pc' \notin {"merge", "write"}
  PROVE  BestInv'
<1>1. written' = written /\ lengths' = lengths /\ Counts' = Counts /\ Present' = Present
  BY DEF Counts, Present, Occurs, H!Frequency
<1>2. CASE pc = "merge"
  <2>1. queue' = queue /\ pc' = "merge"
    BY <1>2
  <2> QED
    BY ONLY BestInv, <1>1, <1>2, <2>1 DEF BestInv
<1>3. CASE pc # "merge"
  <2>1. pc' # "merge"
    BY <1>3
  <2>2. written' \/ (decoding' /\ pc' \notin {"merge", "write"})
    BY <1>1, <1>3 DEF BestInv
  <2> QED
    BY ONLY BestInv, <1>1, <1>3, <2>1, <2>2 DEF BestInv
<1> QED
  BY <1>2, <1>3

\* Every step keeps the lengths best.
LEMMA BestStep ==
  ASSUME HuffmanInv, TreesInv, BestInv, H!Next
  PROVE  BestInv'
<1>1. CASE H!AssignCode \/ H!RefuseLengths \/ H!StartWriting \/ H!StartReading \/ H!WriteSymbol
           \/ H!ReadBit \/ H!FinishReading \/ H!ReadError \/ H!FinishWriting
  <2>1. UNCHANGED <<written, input, lengths>> /\ pc # "merge" /\ pc' # "merge"
    BY <1>1 DEF H!AssignCode, H!RefuseLengths, H!StartWriting, H!StartReading, H!WriteSymbol, H!ReadBit,
                H!FinishReading, H!ReadError, H!FinishWriting, H!file
  <2>2. decoding /\ pc \notin {"merge", "write"} => decoding' /\ pc' \notin {"merge", "write"}
    BY <1>1 DEF H!AssignCode, H!RefuseLengths, H!StartWriting, H!StartReading, H!WriteSymbol, H!ReadBit,
                H!FinishReading, H!ReadError, H!FinishWriting
  <2> QED
    BY <2>1, <2>2, BestStays
<1> QED
  BY <1>1, BestMerge, BestTakeLengths DEF H!Next

\* Nor does standing still change that.
LEMMA BestStill ==
  BestInv /\ UNCHANGED H!vars => BestInv'
BY BestStays DEF H!vars, H!file

\* What the input costs with given lengths, as the property sums it.
Cost(l, D) == H!MapThenSumSet(LAMBDA s : H!Frequency(s) * l[s], D)

\* The cost that the property sums is the price of the lengths.
LEMMA CostIs ==
  ASSUME input \in Seq(Symbols), NEW D \in SUBSET Symbols, NEW l, \A s \in D : l[s] \in Nat
  PROVE  Cost(l, D) = Price(D, Counts, [s \in D |-> l[s]])
<1> DEFINE Recursion(g) ==
             g = [s \in SUBSET D |->
                    IF s = {} THEN 0
                    ELSE LET x == CHOOSE y \in s : TRUE
                         IN  (H!Frequency(x) * l[x]) + g[s \ {x}]]
           c == CHOOSE g : Recursion(g)
<1>1. Cost(l, D) = c[D]
  BY ONLY DEF Cost, H!MapThenSumSet, H!MapThenFoldSet
<1>2. PICK k : k = [s \in D |-> l[s]]
  OBVIOUS
<1>3. k \in [D -> Nat] /\ \A s \in D : k[s] = l[s]
  BY <1>2
<1>4. IsFiniteSet(D) /\ \A s \in D : Counts[s] \in Nat /\ Counts[s] = H!Frequency(s)
  BY SymbolFacts, FS_Subset, CountsFacts
<1>5. PICK w : w = Products(Counts, k)
  OBVIOUS
<1>6. Weights(w) /\ DOMAIN w = D /\ \A s \in D : w[s] = H!Frequency(s) * l[s]
  <2>1. /\ Weights(Products(Counts, k)) /\ DOMAIN Products(Counts, k) = D
        /\ \A q \in D : Products(Counts, k)[q] = Counts[q] * k[q] /\ Counts[q] * k[q] \in Nat
    BY ONLY <1>3, <1>4, ProductsFacts
  <2> QED
    BY ONLY <1>3, <1>4, <1>5, <2>1, Zenon
<1>7. ASSUME NEW g PROVE Recursion(g) <=> Summed(w, D, g)
  <2>1. ASSUME NEW s \in SUBSET D
        PROVE  (IF s = {} THEN 0
                ELSE LET x == CHOOSE y \in s : TRUE
                     IN  (H!Frequency(x) * l[x]) + g[s \ {x}])
               = (IF s = {} THEN 0 ELSE w[Chosen(s)] + g[s \ {Chosen(s)}])
    <3>1. s # {} => Chosen(s) \in D
      BY DEF Chosen
    <3>2. Chosen(s) = CHOOSE y \in s : TRUE
      BY DEF Chosen
    <3>3. s # {} => w[Chosen(s)] = H!Frequency(Chosen(s)) * l[Chosen(s)]
      BY <1>6, <3>1
    <3> QED
      BY ONLY <3>2, <3>3
  <2>2. [s \in SUBSET D |->
           IF s = {} THEN 0
           ELSE LET x == CHOOSE y \in s : TRUE
                IN  (H!Frequency(x) * l[x]) + g[s \ {x}]]
        = [s \in SUBSET D |-> IF s = {} THEN 0 ELSE w[Chosen(s)] + g[s \ {Chosen(s)}]]
    BY ONLY <2>1, Zenon
  <2> QED
    BY ONLY <2>2, Zenon DEF Summed
<1> HIDE DEF Recursion
<1>8. PICK g : Summed(w, D, g)
  BY <1>6, SummedExists
<1>9. Recursion(c)
  BY <1>7, <1>8
<1>10. Summed(w, D, c)
  BY <1>7, <1>9
<1>11. Summed(w, D, CHOOSE h : Summed(w, D, h))
  BY <1>8
<1> HIDE DEF c
<1>12. PICK h : h = CHOOSE x : Summed(w, D, x)
  OBVIOUS
<1>13. c = h
  <2>1. Summed(w, DOMAIN w, c) /\ Summed(w, DOMAIN w, h)
    BY <1>6, <1>10, <1>11, <1>12
  <2> QED
    BY ONLY <1>6, <2>1, SummedOnce
<1>14. Total(w, D) = h[D]
  BY <1>6, <1>12 DEF Total
<1> QED
  BY <1>1, <1>2, <1>5, <1>13, <1>14 DEF Price

\* No prefix code takes fewer bits.
LEMMA BestSays ==
  HuffmanInv /\ TreesInv /\ BestInv => H!CodeIsOptimal
<1> SUFFICES ASSUME HuffmanInv, TreesInv, BestInv PROVE H!CodeIsOptimal
  OBVIOUS
<1>1. PICK U : U = H!Used
  OBVIOUS
<1>2. SUFFICES ASSUME pc = "write", H!Cardinality(U) > 1
               PROVE  \A l \in [U -> 1..(H!Cardinality(U) - 1)] :
                        H!Kraft(l, H!Cardinality(U) - 1) <= 2 ^ (H!Cardinality(U) - 1) =>
                          Cost(lengths, U) <= Cost(l, U)
  BY <1>1 DEF H!CodeIsOptimal, Cost
<1>3. input \in Seq(Symbols) /\ lengths \in [Symbols -> Nat]
  BY DEF HuffmanInv, H!TypeOK
<1>4. written = TRUE
  BY <1>2 DEF BestInv, TreesInv
<1>5. U = Present /\ U \in SUBSET Symbols /\ IsFiniteSet(U)
  <2>1. \A s \in Symbols : Occurs(s) <=> lengths[s] > 0
    BY <1>2, <1>4 DEF TreesInv
  <2>2. U = Present
    BY <1>1, <2>1 DEF H!Used, Present
  <2> QED
    BY <1>3, <2>2, PresentFacts
<1>6. PICK n \in Nat : n = H!Cardinality(U) - 1 /\ Cardinality(U) > 1
  <2>1. H!Cardinality(U) = Cardinality(U) /\ Cardinality(U) \in Nat
    BY <1>5, SameFinite, FS_CardinalityType
  <2> QED
    BY <1>2, <2>1
<1>7. ASSUME NEW l \in [U -> 1..n], H!Kraft(l, n) <= 2 ^ n PROVE Cost(lengths, U) <= Cost(l, U)
  <2>1. l \in [U -> 0..n] /\ \A s \in U : l[s] # 0 /\ l[s] \in Nat
    OBVIOUS
  <2>2. H!Kraft(l, n) = Total(Shares(l, n), U)
    BY ONLY <1>5, <2>1, KraftIs, n \in Nat
  <2>3. Shares(l, n) = Leaves(l, n)
    <3>1. DOMAIN l = U
      BY <2>1
    <3> QED
      BY <2>1, <3>1 DEF Shares, Leaves
  <2>4. Feasible(U, l, n)
    BY <1>7, <2>1, <2>2, <2>3 DEF Feasible
  <2>5. Price(U, Counts, lengths) <= Price(U, Counts, l)
    BY <1>2, <1>4, <1>5, <1>6, <2>4 DEF BestInv
  <2>6. Cost(l, U) = Price(U, Counts, l)
    <3>1. Cost(l, U) = Price(U, Counts, [s \in U |-> l[s]])
      BY ONLY <1>3, <1>5, <2>1, CostIs
    <3>2. l = [s \in U |-> l[s]]
      OBVIOUS
    <3> QED
      BY ONLY <3>1, <3>2, Zenon
  <2>7. Cost(lengths, U) = Price(U, Counts, lengths)
    <3>1. \A s \in U : lengths[s] \in Nat
      BY <1>3, <1>5
    <3>2. PICK k : k = [s \in U |-> lengths[s]]
      OBVIOUS
    <3>3. Cost(lengths, U) = Price(U, Counts, k)
      BY ONLY <1>3, <1>5, <3>1, <3>2, CostIs
    <3>4. k \in [U -> Nat] /\ \A s \in U : k[s] = lengths[s]
      BY <3>1, <3>2
    <3>5. \A s \in Symbols : Counts[s] \in Nat
      BY <1>3, CountsFacts
    <3>6. PICK p, q : p = Products(Counts, k) /\ q = Products(Counts, lengths)
      OBVIOUS
    <3>7. Weights(p) /\ DOMAIN p = U /\ \A s \in U : p[s] = Counts[s] * k[s]
      <4>1. \A s \in U : Counts[s] \in Nat
        BY <1>5, <3>5
      <4>2. /\ Weights(Products(Counts, k)) /\ DOMAIN Products(Counts, k) = U
            /\ \A x \in U : Products(Counts, k)[x] = Counts[x] * k[x] /\ Counts[x] * k[x] \in Nat
        BY ONLY <1>5, <3>4, <4>1, ProductsFacts
      <4> QED
        BY ONLY <3>6, <4>2, Zenon
    <3>8. Weights(q) /\ DOMAIN q = Symbols /\ \A s \in Symbols : q[s] = Counts[s] * lengths[s]
      <4>1. IsFiniteSet(Symbols)
        BY SymbolFacts
      <4>2. /\ Weights(Products(Counts, lengths)) /\ DOMAIN Products(Counts, lengths) = Symbols
            /\ \A x \in Symbols : /\ Products(Counts, lengths)[x] = Counts[x] * lengths[x]
                                  /\ Counts[x] * lengths[x] \in Nat
        BY ONLY <1>3, <3>5, <4>1, ProductsFacts
      <4> QED
        BY ONLY <3>6, <4>2, Zenon
    <3>9. \A s \in U : q[s] = p[s]
      <4> TAKE s \in U
      <4>1. s \in Symbols
        BY <1>5
      <4> QED
        BY ONLY <3>4, <3>7, <3>8, <4>1, s \in U, Zenon
    <3>10. Total(q, U) = Total(p, U)
      BY <1>5, <3>7, <3>8, <3>9, TotalSame
    <3> QED
      BY <3>3, <3>6, <3>10 DEF Price
  <2> QED
    BY ONLY <2>5, <2>6, <2>7, Zenon
<1> QED
  BY ONLY <1>6, <1>7, Zenon
=============================================================================
