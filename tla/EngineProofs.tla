---------------------------- MODULE EngineProofs ----------------------------
(***************************************************************************)
(* What the engine promises for any source, any archive and any number of  *)
(* steps of other programs, in three parts.                                *)
(*                                                                         *)
(* CreateArchive rests on the modification time: a file that has the time  *)
(* its entry recorded has the content it had then.  So what has been       *)
(* copied is that content as long as the time is still the recorded one,   *)
(* and otherwise the check after the copy refuses.                         *)
(*                                                                         *)
(* SourceScan rests on what the walk has still to do: a path that is       *)
(* wanted, that nobody has moved and whose directory has been entered is   *)
(* listed, or its name is still to be read in an open directory.  At the   *)
(* end of the walk nothing is left, and induction on the length of paths   *)
(* shows that all of them are listed.                                      *)
(*                                                                         *)
(* Restore rests on its temporary node, whole by the time it is committed  *)
(* to a name, and on what the preflight has accounted for, entry by entry. *)
(***************************************************************************)
EXTENDS MCEngine, TLAPS, FiniteSetTheorems, SequenceTheorems, WellFoundedInduction

-----------------------------------------------------------------------------
\* CreateArchive.

\* A recorded state is one the file was in, and is still in if the time is the
\* same; two entries of one inode and time agree.
ScanOK ==
  /\ \A i \in Inodes : mtime[i] <= writes
  /\ \A n \in Listed :
       /\ entries[n].mtime <= mtime[entries[n].inode]
       /\ entries[n].size = Len(atScan[n])
       /\ mtime[entries[n].inode] = entries[n].mtime => data[entries[n].inode] = atScan[n]
  /\ \A m, n \in Listed :
       entries[m].inode = entries[n].inode /\ entries[m].mtime = entries[n].mtime =>
         atScan[m] = atScan[n]

LinkOK ==
  /\ pc \in {"scan", "link"} => \A n \in Listed : entries[n].type = "Regular"
  /\ pc \notin {"scan", "link", "failed"} =>
       /\ AliasesAgree
       /\ \A n \in Listed : (entries[n].type = "Regular") <=> (Original(n) = n)

Packed(h) ==
  Order[h] \in Listed /\ entries[Order[h]].type = "Regular" => stored[Order[h]] = atScan[Order[h]]

Copied ==
  mtime[fd] = entries[Current].mtime =>
    \A r \in 1..Len(stored[Current]) : stored[Current][r] = atScan[Current][r]

PackOK ==
  /\ pc \in {"scan", "link"} => pos = 1
  /\ pc \in {"scan", "link", "pack", "copy"} =>
       /\ \A h \in 1..pos - 1 : Packed(h)
       /\ \A h \in DOMAIN Order : h > pos \/ (h = pos /\ pc # "copy") => stored[Order[h]] = <<>>
  /\ pc = "copy" =>
       /\ pos <= Len(Order) /\ Current \in Listed /\ entries[Current].type = "Regular"
       /\ fd = entries[Current].inode /\ Len(stored[Current]) <= Size(Current)
       /\ Copied
  /\ pc \notin {"scan", "link", "pack", "copy", "failed"} => \A h \in DOMAIN Order : Packed(h)

\* The stages that exist at each point.
StagesOK ==
  /\ pc \in {"scan", "link", "failed", "done"} => temps = {}
  /\ pc \in {"pack", "copy"} => temps = {"packed"}
  /\ pc = "compress" =>
       temps = {"packed"} \/ (compressing /\ temps = {"packed", "compressed"})
  /\ pc = "encrypt" =>
       \E x \in {"packed", "compressed"} :
         temps = {x} \/ (encrypting /\ temps = {x, "encoded"})
  /\ pc = "finalize" => \E x \in {"packed", "compressed", "encoded"} : temps = {x}
  /\ pc \in {"sync", "commit", "unlink", "syncParent"} =>
       \E x \in {"packed", "compressed", "encoded"} : temps \subseteq {x, "final"}

OutputOK ==
  /\ pc \in {"commit", "unlink", "syncParent", "done"} => synced
  /\ published => synced /\ pc \in {"unlink", "syncParent", "done", "failed"}
  /\ cancel /\ pc \in {"commit", "unlink", "syncParent"} => late
  /\ published /\ cancel => late

CreateInv == TypeOK /\ ScanOK /\ LinkOK /\ PackOK /\ StagesOK /\ OutputOK

-----------------------------------------------------------------------------
LEMMA LeastNatural ==
  ASSUME NEW R \in SUBSET Nat, R # {}
  PROVE  \E m \in R : \A h \in R : m <= h
<1>1. PICK m \in R : \A h \in R : ~(<<h, m>> \in OpToRel(<, Nat))
  BY NatLessThanWellFounded, WFMin, Zenon
<1>2. \A h \in R : ~(h < m)
  BY <1>1, Zenon DEF OpToRel
<1> QED
  BY <1>2

\* The order is a sequence of the paths, each once.
LEMMA OrderIsSequence ==
  /\ Len(Order) \in Nat /\ DOMAIN Order = 1..Len(Order)
  /\ \A h \in DOMAIN Order : Order[h] \in Names
  /\ \A n \in Names : \E h \in DOMAIN Order : n = Order[h]
  BY OrderAssumption DEF Names

LEMMA ContentsAreSequences ==
  ASSUME NEW c \in Contents
  PROVE  c \in Seq(0..MaxWrites) /\ Len(c) \in 0..MaxBlocks
<1>1. PICK n \in 0..MaxBlocks : c \in [1..n -> 0..MaxWrites]
  BY DEF Contents
<1> QED
  BY <1>1, BoundsAssumption

LEMMA SequencesAreContents ==
  ASSUME NEW c \in Seq(0..MaxWrites), Len(c) <= MaxBlocks
  PROVE  c \in Contents
<1>1. Len(c) \in 0..MaxBlocks /\ c \in [1..Len(c) -> 0..MaxWrites]
  BY BoundsAssumption
<1> QED
  BY <1>1 DEF Contents

LEMMA EmptyIsContent == <<>> \in Contents /\ Len(<<>>) = 0
<1>1. <<>> \in Seq(0..MaxWrites) /\ Len(<<>>) <= MaxBlocks
  BY BoundsAssumption
<1> QED
  BY <1>1, SequencesAreContents

\* An inode that was recorded has a first entry in the order, and only one.
LEMMA FirstExists ==
  ASSUME NEW e \in [Names -> Entry \cup {NoEntry}], NEW n \in Names, e[n] # NoEntry
  PROVE  \E h \in DOMAIN Order : /\ IsFirst(e, e[n].inode, h)
                                 /\ FirstOf(e, e[n].inode) = Order[h]
<1> DEFINE R == {h \in DOMAIN Order : e[Order[h]] # NoEntry /\ e[Order[h]].inode = e[n].inode}
<1>1. R \in SUBSET Nat /\ R # {}
  BY OrderIsSequence
<1>2. PICK m \in R : \A h \in R : m <= h
  BY <1>1, LeastNatural
<1>3. \A j \in 1..m - 1 : j \in DOMAIN Order /\ j \notin R
  BY <1>1, <1>2, OrderIsSequence
<1>4. IsFirst(e, e[n].inode, m) /\ m \in DOMAIN Order
  BY <1>2, <1>3 DEF IsFirst
<1>5. PICK h \in DOMAIN Order :
        IsFirst(e, e[n].inode, h) /\ h = CHOOSE j \in DOMAIN Order : IsFirst(e, e[n].inode, j)
  BY <1>4, Zenon
<1> QED
  BY <1>5, Zenon DEF FirstOf

LEMMA FirstIsUnique ==
  ASSUME NEW e, NEW inode, NEW h \in DOMAIN Order, NEW l \in DOMAIN Order,
         IsFirst(e, inode, h), IsFirst(e, inode, l)
  PROVE  h = l
  BY OrderIsSequence DEF IsFirst

LEMMA FirstIsListed ==
  ASSUME NEW e \in [Names -> Entry \cup {NoEntry}], NEW n \in Names, e[n] # NoEntry
  PROVE  LET o == FirstOf(e, e[n].inode)
         IN o \in Names /\ e[o] # NoEntry /\ e[o].inode = e[n].inode
  BY FirstExists, OrderIsSequence DEF IsFirst

\* Links are made of entries that keep their inodes, so the firsts stay.
LEMMA FirstIsKept ==
  ASSUME NEW e \in [Names -> Entry \cup {NoEntry}], NEW f \in [Names -> Entry \cup {NoEntry}],
         \A n \in Names : e[n] = NoEntry <=> f[n] = NoEntry,
         \A n \in Names : e[n] # NoEntry => e[n].inode = f[n].inode,
         NEW n \in Names, e[n] # NoEntry
  PROVE  FirstOf(f, f[n].inode) = FirstOf(e, e[n].inode)
<1>1. PICK h \in DOMAIN Order : IsFirst(e, e[n].inode, h) /\ FirstOf(e, e[n].inode) = Order[h]
  BY FirstExists
<1>2. PICK l \in DOMAIN Order : IsFirst(f, f[n].inode, l) /\ FirstOf(f, f[n].inode) = Order[l]
  BY FirstExists
<1>3. IsFirst(f, f[n].inode, h)
  <2>1. /\ Order[h] \in Names /\ f[Order[h]] # NoEntry /\ f[Order[h]].inode = f[n].inode
    BY <1>1, OrderIsSequence DEF IsFirst
  <2>2. \A j \in 1..h - 1 : Order[j] \in Names
    BY OrderIsSequence
  <2> QED
    BY <1>1, <2>1, <2>2 DEF IsFirst
<1> QED
  BY <1>1, <1>2, <1>3, FirstIsUnique

\* The last blocks of a file are cut off.
LEMMA CutIsSequence ==
  ASSUME NEW R, NEW q \in Seq(R), NEW n \in Nat, n <= Len(q)
  PROVE  SubSeq(q, 1, n) \in Seq(R) /\ Len(SubSeq(q, 1, n)) = n
<1>1. SubSeq(q, 1, n) \in Seq(R)
  OBVIOUS
<1>2. Len(SubSeq(q, 1, n)) = n
  OBVIOUS
<1> QED
  BY <1>1, <1>2

LEMMA AppendedIsSequence ==
  ASSUME NEW q \in Seq(0..MaxWrites), NEW v \in 0..MaxWrites
  PROVE  /\ Append(q, v) \in Seq(0..MaxWrites) /\ Len(Append(q, v)) = Len(q) + 1
         /\ Append(q, v)[Len(q) + 1] = v
         /\ \A r \in 1..Len(q) : Append(q, v)[r] = q[r]
  OBVIOUS

\* Two stages are two.
LEMMA PairIsSmall ==
  ASSUME NEW x, NEW y, NEW R, R \subseteq {x, y}
  PROVE  Cardinality(R) <= 2
<1>1. IsFiniteSet({x}) /\ Cardinality({x}) = 1
  BY FS_Singleton
<1>2. IsFiniteSet({x} \cup {y}) /\ Cardinality({x} \cup {y}) <= 2
  BY <1>1, FS_AddElement
<1>3. R \in SUBSET ({x} \cup {y})
  OBVIOUS
<1>4. Cardinality(R) <= Cardinality({x} \cup {y}) /\ IsFiniteSet(R)
  BY <1>2, <1>3, FS_Subset
<1>5. Cardinality(R) \in Nat /\ Cardinality({x} \cup {y}) \in Nat
  BY <1>2, <1>4, FS_CardinalityType
<1> QED
  BY <1>2, <1>4, <1>5

-----------------------------------------------------------------------------
LEMMA InitInv == Init => CreateInv
<1> SUFFICES ASSUME Init PROVE CreateInv
  OBVIOUS
<1>1. <<>> \in Contents /\ Len(<<>>) = 0 /\ [r \in 1..MaxBlocks |-> 0] \in Contents
  <2>1. MaxBlocks \in 0..MaxBlocks /\ 0 \in 0..MaxWrites
    BY BoundsAssumption
  <2>2. [r \in 1..MaxBlocks |-> 0] \in [1..MaxBlocks -> 0..MaxWrites]
    BY <2>1
  <2> QED
    BY <2>1, <2>2, EmptyIsContent DEF Contents
<1>2. Listed = {}
  BY DEF Init, Listed
<1>3. 1 \in 1..Len(Order) + 1 /\ 0 \in 0..MaxWrites
  BY OrderIsSequence, BoundsAssumption
<1>4. TypeOK
  BY <1>1, <1>3 DEF Init, TypeOK, Stages
<1>5. ScanOK /\ LinkOK
  BY <1>2, BoundsAssumption DEF Init, ScanOK, LinkOK
<1>6. PackOK
  BY OrderIsSequence DEF Init, PackOK
<1>7. StagesOK /\ OutputOK
  BY DEF Init, StagesOK, OutputOK
<1> QED
  BY <1>4, <1>5, <1>6, <1>7 DEF CreateInv

\* What the source and the entries say stays true while neither changes.
LEMMA ScanKept ==
  ASSUME ScanOK, UNCHANGED <<data, mtime, writes, scan>>
  PROVE  ScanOK'
  BY DEF ScanOK, scan, Listed

LEMMA LinkKept ==
  ASSUME LinkOK, UNCHANGED scan,
         pc' \notin {"scan", "link", "failed"} => pc \notin {"scan", "link", "failed"},
         pc' \in {"scan", "link"} => pc \in {"scan", "link"}
  PROVE  LinkOK'
  BY DEF LinkOK, scan, Listed, AliasesAgree, Original, Size

\* The last stages, and a failure, leave everything packed as it is.
LEMMA PackKept ==
  ASSUME PackOK, UNCHANGED <<scan, pos, stored>>,
         \/ pc' = "failed"
         \/ /\ pc \notin {"scan", "link", "pack", "copy", "failed"}
            /\ pc' \notin {"scan", "link", "pack", "copy"}
  PROVE  PackOK'
  BY DEF PackOK, Packed, scan, Listed

-----------------------------------------------------------------------------
(* Other programs.                                                         *)

LEMMA WriteInv ==
  ASSUME CreateInv, NEW i \in Inodes, Write(i)
  PROVE  CreateInv'
<1> USE DEF CreateInv
<1>1. /\ writes' = writes + 1 /\ writes \in Nat /\ writes' \in 0..MaxWrites
      /\ mtime' = [mtime EXCEPT ![i] = writes + 1]
      /\ mtime \in [Inodes -> 0..MaxWrites] /\ data \in [Inodes -> Contents]
      /\ UNCHANGED <<at, control, scan, packing, target, request>>
  BY BoundsAssumption DEF Write, TypeOK
<1>2. PICK c \in Contents : data' = [data EXCEPT ![i] = c]
  <2>1. data[i] \in Seq(0..MaxWrites) /\ Len(data[i]) \in 0..MaxBlocks /\ MaxBlocks \in Nat
    BY <1>1, ContentsAreSequences, BoundsAssumption
  <2>2. ASSUME NEW r \in DOMAIN data[i], data' = [data EXCEPT ![i][r] = writes + 1]
        PROVE  \E c \in Contents : data' = [data EXCEPT ![i] = c]
    <3> DEFINE c == [data[i] EXCEPT ![r] = writes + 1]
    <3>1. c \in Seq(0..MaxWrites) /\ Len(c) = Len(data[i])
      BY <1>1, <2>1
    <3> HIDE DEF c
    <3>2. c \in Contents
      BY <2>1, <3>1, SequencesAreContents
    <3> QED
      BY <2>2, <3>2 DEF c
  <2>3. ASSUME Len(data[i]) < MaxBlocks, data' = [data EXCEPT ![i] = Append(@, writes + 1)]
        PROVE  \E c \in Contents : data' = [data EXCEPT ![i] = c]
    <3> DEFINE c == Append(data[i], writes + 1)
    <3>1. c \in Seq(0..MaxWrites) /\ Len(c) = Len(data[i]) + 1
      BY <1>1, <2>1
    <3> HIDE DEF c
    <3>2. c \in Contents
      BY <2>1, <2>3, <3>1, SequencesAreContents
    <3> QED
      BY <2>3, <3>2 DEF c
  <2>4. ASSUME data[i] # <<>>, data' = [data EXCEPT ![i] = SubSeq(@, 1, Len(@) - 1)]
        PROVE  \E c \in Contents : data' = [data EXCEPT ![i] = c]
    <3> DEFINE c == SubSeq(data[i], 1, Len(data[i]) - 1)
    <3>1. c \in Seq(0..MaxWrites) /\ Len(c) = Len(data[i]) - 1
      <4>1. Len(data[i]) - 1 \in Nat /\ Len(data[i]) - 1 <= Len(data[i])
        BY <2>1, <2>4
      <4> QED
        BY <2>1, <4>1, CutIsSequence, Zenon
    <3> HIDE DEF c
    <3>2. c \in Contents
      BY <2>1, <3>1, SequencesAreContents
    <3> QED
      BY <2>4, <3>2 DEF c
  <2> QED
    BY <2>2, <2>3, <2>4 DEF Write
<1>3. mtime'[i] = writes + 1 /\ \A j \in Inodes \ {i} : mtime'[j] = mtime[j] /\ data'[j] = data[j]
  BY <1>1, <1>2
<1>4. \A n \in Listed : /\ entries[n] \in Entry /\ entries[n].inode \in Inodes
                         /\ entries[n].mtime \in Nat /\ entries[n].mtime <= writes
                         /\ mtime[entries[n].inode] \in Nat
  <2> SUFFICES ASSUME NEW n \in Listed
               PROVE  /\ entries[n] \in Entry /\ entries[n].inode \in Inodes
                      /\ entries[n].mtime \in Nat /\ entries[n].mtime <= writes
                      /\ mtime[entries[n].inode] \in Nat
    OBVIOUS
  <2>1. entries[n] \in Entry
    BY DEF Listed, TypeOK
  <2>2. entries[n].inode \in Inodes /\ entries[n].mtime \in Nat
    BY <2>1, BoundsAssumption DEF Entry
  <2>3. mtime[entries[n].inode] \in Nat /\ mtime[entries[n].inode] <= writes
    BY <1>1, <2>2, BoundsAssumption DEF ScanOK
  <2> QED
    BY <1>1, <2>1, <2>2, <2>3 DEF ScanOK
<1>5. TypeOK'
  <2>1. data' \in [Inodes -> Contents]
    BY <1>1, <1>2
  <2>2. mtime' \in [Inodes -> 0..MaxWrites]
    BY <1>1
  <2> QED
    BY <1>1, <2>1, <2>2 DEF TypeOK, control, scan, packing, target, request
<1>6. ScanOK'
  <2>1. \A j \in Inodes : mtime'[j] <= writes'
    BY <1>1, <1>3, BoundsAssumption DEF ScanOK
  <2>2. Listed' = Listed /\ entries' = entries /\ atScan' = atScan
    BY <1>1 DEF Listed, scan
  <2>3. \A n \in Listed : entries[n].mtime <= mtime'[entries[n].inode]
    BY <1>1, <1>3, <1>4 DEF ScanOK
  <2>4. \A n \in Listed : mtime'[entries[n].inode] = entries[n].mtime =>
                             data'[entries[n].inode] = atScan[n]
    BY <1>1, <1>3, <1>4 DEF ScanOK
  <2> QED
    BY <2>1, <2>2, <2>3, <2>4 DEF ScanOK
<1>7. LinkOK'
  BY <1>1, LinkKept DEF control
<1>8. PackOK'
  <2>1. Listed' = Listed /\ UNCHANGED <<entries, atScan, stored, pos, pc, fd>>
    BY <1>1 DEF Listed, scan, packing, control
  <2>2. pc = "copy" => Copied'
    <3> SUFFICES ASSUME pc = "copy", mtime'[fd] = entries[Current].mtime
                 PROVE  \A r \in 1..Len(stored[Current]) : stored[Current][r] = atScan[Current][r]
      BY <2>1 DEF Copied, Current
    <3>1. Current \in Listed /\ fd = entries[Current].inode /\ Copied
      BY DEF PackOK
    <3>2. fd # i
      BY <1>1, <1>3, <1>4, <3>1
    <3>3. mtime[fd] = entries[Current].mtime
      BY <1>3, <1>4, <3>1, <3>2
    <3> QED
      BY <3>1, <3>3 DEF Copied
  <2> QED
    BY <2>1, <2>2 DEF PackOK, Packed, Current, Size
<1>9. StagesOK' /\ OutputOK'
  BY <1>1 DEF StagesOK, OutputOK, control, target, request
<1> QED
  BY <1>5, <1>6, <1>7, <1>8, <1>9

LEMMA OthersInv ==
  ASSUME CreateInv, (\E n \in Names, i \in Inodes \cup {NoInode} : Relink(n, i)) \/ Interfere \/ Cancel
  PROVE  CreateInv'
<1> USE DEF CreateInv
<1>1. ASSUME NEW n \in Names, NEW i \in Inodes \cup {NoInode}, Relink(n, i) PROVE CreateInv'
  <2>1. UNCHANGED <<data, mtime, writes, control, scan, packing, target, request>>
    BY <1>1 DEF Relink
  <2>2. TypeOK'
    BY <1>1, <2>1 DEF Relink, TypeOK, control, scan, packing, target, request
  <2>3. ScanOK' /\ LinkOK'
    BY <2>1, ScanKept, LinkKept DEF control
  <2>4. PackOK'
    BY <2>1 DEF PackOK, Packed, Copied, Current, Size, Listed, scan, packing, control
  <2>5. StagesOK' /\ OutputOK'
    BY <2>1 DEF StagesOK, OutputOK, control, target, request
  <2> QED
    BY <2>2, <2>3, <2>4, <2>5
<1>2. CASE Interfere
  <2>1. UNCHANGED <<source, control, scan, packing, temps, synced, published, request>>
    BY <1>2 DEF Interfere
  <2>2. TypeOK'
    BY <1>2, <2>1 DEF Interfere, TypeOK, source, control, scan, packing, request
  <2>3. ScanOK' /\ LinkOK'
    BY <2>1, ScanKept, LinkKept DEF control, source
  <2>4. PackOK'
    BY <2>1 DEF PackOK, Packed, Copied, Current, Size, Listed, scan, packing, control, source
  <2>5. StagesOK' /\ OutputOK'
    BY <2>1 DEF StagesOK, OutputOK, control, request
  <2> QED
    BY <2>2, <2>3, <2>4, <2>5
<1>3. CASE Cancel
  <2>1. UNCHANGED <<source, control, scan, packing, target>> /\ pc \in Working
    BY <1>3 DEF Cancel
  <2>2. late' \in BOOLEAN /\ cancel' = TRUE
    BY <1>3 DEF Cancel
  <2>3. TypeOK'
    BY <2>1, <2>2 DEF TypeOK, source, control, scan, packing, target
  <2>4. ScanOK' /\ LinkOK'
    BY <2>1, ScanKept, LinkKept DEF control, source
  <2>5. PackOK'
    BY <2>1 DEF PackOK, Packed, Copied, Current, Size, Listed, scan, packing, control, source
  <2>6. StagesOK'
    BY <2>1 DEF StagesOK, control, target
  <2>7. pc \in {"commit", "unlink", "syncParent"} => late'
    BY <1>3 DEF Cancel
  <2>8. published => pc \in {"commit", "unlink", "syncParent"}
    BY <2>1 DEF OutputOK, Working
  <2>9. OutputOK'
    BY <2>1, <2>2, <2>7, <2>8 DEF OutputOK, control, target
  <2> QED
    BY <2>3, <2>4, <2>5, <2>6, <2>9
<1> QED
  BY <1>1, <1>2, <1>3

-----------------------------------------------------------------------------
(* create() itself.                                                        *)

LEMMA ScanEntryInv ==
  ASSUME CreateInv, NEW n \in Names, ScanEntry(n)
  PROVE  CreateInv'
<1> USE DEF CreateInv
<1>1. /\ pc = "scan" /\ pc' \in {"scan", "link"}
      /\ UNCHANGED <<source, compressing, encrypting, packing, target, request>>
      /\ unseen' \subseteq Names
  BY DEF ScanEntry, TypeOK
<1>2. CASE UNCHANGED <<entries, atScan>>
  <2>1. TypeOK'
    BY <1>1, <1>2 DEF TypeOK, Stages, source, packing, target, request
  <2>2. ScanOK' /\ LinkOK'
    BY <1>1, <1>2 DEF ScanOK, LinkOK, Listed, source
  <2>3. PackOK'
    BY <1>1, <1>2 DEF PackOK, Packed, Listed, packing
  <2>4. StagesOK' /\ OutputOK'
    BY <1>1 DEF StagesOK, OutputOK, target, request
  <2> QED
    BY <2>1, <2>2, <2>3, <2>4
<1>3. CASE ~UNCHANGED <<entries, atScan>>
  <2> DEFINE i == at[n]
             e == [inode |-> i, mtime |-> mtime[i], size |-> Len(data[i]), type |-> "Regular"]
  <2>1. /\ i \in Inodes /\ entries' = [entries EXCEPT ![n] = e]
        /\ atScan' = [atScan EXCEPT ![n] = data[i]]
    BY <1>3 DEF ScanEntry, TypeOK
  <2>2. /\ data[i] \in Contents /\ Len(data[i]) \in 0..MaxBlocks /\ mtime[i] \in 0..MaxWrites
        /\ mtime[i] \in Nat
    BY <2>1, ContentsAreSequences, BoundsAssumption DEF TypeOK
  <2>3. e \in Entry /\ e # NoEntry
    BY <2>1, <2>2, NoEntryAssumption DEF Entry
  <2>4. /\ e.inode = i /\ e.mtime = mtime[i] /\ e.size = Len(data[i]) /\ e.type = "Regular"
    OBVIOUS
  <2> HIDE DEF e, i
  <2>5. /\ entries' \in [Names -> Entry \cup {NoEntry}] /\ atScan' \in [Names -> Contents]
        /\ entries'[n] = e /\ atScan'[n] = data[i]
        /\ \A m \in Names \ {n} : entries'[m] = entries[m] /\ atScan'[m] = atScan[m]
    BY <2>1, <2>2, <2>3 DEF TypeOK
  <2>6. Listed' = Listed \cup {n}
    BY <2>3, <2>5 DEF Listed
  <2>7. TypeOK'
    BY <1>1, <2>5 DEF TypeOK, Stages, source, packing, target, request
  <2>8. ScanOK'
    <3>1. \A m \in Listed' :
            /\ entries'[m].mtime <= mtime[entries'[m].inode]
            /\ entries'[m].size = Len(atScan'[m])
            /\ mtime[entries'[m].inode] = entries'[m].mtime => data[entries'[m].inode] = atScan'[m]
      <4> TAKE m \in Listed'
      <4>1. CASE m = n
        BY <2>2, <2>4, <2>5, <4>1
      <4>2. CASE m # n
        <5>1. m \in Listed /\ m \in Names \ {n}
          BY <2>6, <4>2 DEF Listed
        <5> QED
          BY <2>5, <5>1 DEF ScanOK
      <4> QED
        BY <4>1, <4>2
    <3>2. \A l, m \in Listed' :
            entries'[l].inode = entries'[m].inode /\ entries'[l].mtime = entries'[m].mtime =>
              atScan'[l] = atScan'[m]
      <4> SUFFICES ASSUME NEW l \in Listed', NEW m \in Listed',
                          entries'[l].inode = entries'[m].inode, entries'[l].mtime = entries'[m].mtime
                   PROVE  atScan'[l] = atScan'[m]
        OBVIOUS
      <4>1. CASE l \in Listed \ {n} /\ m \in Listed \ {n}
        BY <2>5, <4>1 DEF ScanOK, Listed
      <4>2. CASE l = n /\ m \in Listed \ {n}
        BY <2>4, <2>5, <4>2 DEF ScanOK, Listed
      <4>3. CASE m = n /\ l \in Listed \ {n}
        BY <2>4, <2>5, <4>3 DEF ScanOK, Listed
      <4> QED
        BY <2>6, <4>1, <4>2, <4>3
    <3> QED
      BY <1>1, <3>1, <3>2 DEF ScanOK, source
  <2>9. LinkOK'
    BY <1>1, <2>4, <2>5, <2>6 DEF LinkOK, Listed
  <2>10. PackOK'
    BY <1>1, OrderIsSequence DEF PackOK, packing
  <2>11. StagesOK' /\ OutputOK'
    BY <1>1 DEF StagesOK, OutputOK, target, request
  <2> QED
    BY <2>7, <2>8, <2>9, <2>10, <2>11
<1> QED
  BY <1>2, <1>3

LEMMA LinkAliasesInv ==
  ASSUME CreateInv, LinkAliases
  PROVE  CreateInv'
<1> USE DEF CreateInv
<1>1. /\ pc = "link" /\ pc' = "pack" /\ AliasesAgree /\ temps' = temps \cup {"packed"}
      /\ UNCHANGED <<source, compressing, encrypting, unseen, atScan, packing, synced, output,
                     published, request>>
      /\ \A n \in Listed : entries[n].type = "Regular"
      /\ entries \in [Names -> Entry \cup {NoEntry}]
  BY DEF LinkAliases, LinkOK, TypeOK
<1>2. \A n \in Names :
        entries'[n] = IF n \in Listed /\ Original(n) # n
                      THEN [entries[n] EXCEPT !.type = "Hardlink"] ELSE entries[n]
  BY DEF LinkAliases
<1>3. ASSUME NEW n \in Listed
      PROVE  /\ entries'[n] \in Entry /\ entries'[n].inode = entries[n].inode
             /\ entries'[n].mtime = entries[n].mtime /\ entries'[n].size = entries[n].size
             /\ (entries'[n].type = "Regular") <=> (Original(n) = n)
  <2>1. entries[n] \in Entry /\ n \in Names
    BY <1>1 DEF Listed
  <2>2. CASE Original(n) # n
    <3>1. entries'[n] = [entries[n] EXCEPT !.type = "Hardlink"]
      BY <1>2, <2>1, <2>2
    <3> QED
      BY <2>1, <2>2, <3>1 DEF Entry
  <2>3. CASE Original(n) = n
    BY <1>1, <1>2, <2>1, <2>3
  <2> QED
    BY <2>2, <2>3
<1>4. \A n \in Names \ Listed : entries'[n] = NoEntry
  BY <1>2 DEF Listed
<1>5. entries' \in [Names -> Entry \cup {NoEntry}] /\ Listed' = Listed
  <2>1. DOMAIN entries' = Names /\ entries' = [n \in Names |-> entries'[n]]
    BY DEF LinkAliases
  <2>2. \A n \in Names : entries'[n] \in Entry \cup {NoEntry}
    BY <1>3, <1>4
  <2>3. \A n \in Names : entries'[n] # NoEntry <=> n \in Listed
    BY <1>3, <1>4, NoEntryAssumption DEF Listed
  <2> QED
    BY <2>1, <2>2, <2>3 DEF Listed
<1>6. \A n \in Listed : Original(n)' = Original(n)
  <2> TAKE n \in Listed
  <2>1. /\ \A m \in Names : entries[m] = NoEntry <=> entries'[m] = NoEntry
        /\ \A m \in Names : entries[m] # NoEntry => entries[m].inode = entries'[m].inode
        /\ n \in Names /\ entries[n] # NoEntry
    BY <1>3, <1>5 DEF Listed
  <2> QED
    BY <1>1, <1>5, <2>1, FirstIsKept DEF Original
<1>7. TypeOK'
  BY <1>1, <1>5 DEF TypeOK, Stages, source, packing, request
<1>8. ScanOK'
  BY <1>1, <1>3, <1>5 DEF ScanOK, source
<1>9. LinkOK'
  <2>1. AliasesAgree'
    <3> SUFFICES ASSUME NEW n \in Listed
                 PROVE  /\ entries'[n].size = entries'[Original(n)].size
                        /\ entries'[n].mtime = entries'[Original(n)].mtime
      BY <1>5, <1>6 DEF AliasesAgree, Size
    <3>1. Original(n) \in Listed
      BY <1>1, FirstIsListed DEF Original, Listed
    <3> QED
      BY <1>1, <1>3, <3>1 DEF AliasesAgree, Size
  <2>2. \A n \in Listed' : (entries'[n].type = "Regular") <=> (Original(n)' = n)
    BY <1>3, <1>5, <1>6
  <2> QED
    BY <1>1, <2>1, <2>2 DEF LinkOK
<1>10. PackOK'
  BY <1>1, OrderIsSequence DEF PackOK, packing
<1>11. StagesOK' /\ OutputOK'
  BY <1>1 DEF StagesOK, OutputOK, request
<1> QED
  BY <1>7, <1>8, <1>9, <1>10, <1>11

\* The entry being packed is one of the paths, and no other entry is.
LEMMA CurrentIsName ==
  ASSUME TypeOK, pos <= Len(Order)
  PROVE  /\ pos \in DOMAIN Order /\ pos \in Nat /\ pos + 1 \in 1..Len(Order) + 1
         /\ Current \in Names
         /\ \A h \in DOMAIN Order : h # pos => Order[h] # Current
  BY OrderAssumption, OrderIsSequence DEF TypeOK, Current

LEMMA PackNextInv ==
  ASSUME CreateInv, PackNext
  PROVE  CreateInv'
<1> USE DEF CreateInv
<1>1. /\ pc = "pack" /\ pos <= Len(Order) /\ pos' = pos + 1
      /\ UNCHANGED <<source, control, scan, fd, stored, target, request>>
      /\ ~(Current \in Listed /\ entries[Current].type = "Regular")
  BY DEF PackNext, Listed
<1>2. /\ pos \in DOMAIN Order /\ pos \in Nat /\ pos + 1 \in 1..Len(Order) + 1
  BY <1>1, CurrentIsName
<1>3. TypeOK'
  BY <1>1, <1>2 DEF TypeOK, source, control, scan, target, request
<1>4. ScanOK' /\ LinkOK'
  BY <1>1, ScanKept, LinkKept DEF control, source
<1>5. PackOK'
  <2>1. \A h \in 1..pos : Packed(h)
    BY <1>1, <1>2 DEF PackOK, Packed, Current
  <2>2. \A h \in DOMAIN Order : h > pos => stored[Order[h]] = <<>>
    BY <1>1 DEF PackOK
  <2>3. pc' = "pack" /\ Listed' = Listed /\ UNCHANGED <<entries, atScan, stored>>
    BY <1>1 DEF control, scan, Listed
  <2>4. \A h \in 1..pos' - 1 : Packed(h)'
    BY <1>1, <1>2, <2>1, <2>3 DEF Packed
  <2>5. \A h \in DOMAIN Order : h >= pos' => stored'[Order[h]] = <<>>
    BY <1>1, <1>2, <2>2, <2>3, OrderIsSequence
  <2> QED
    BY <1>1, <1>2, <2>3, <2>4, <2>5, OrderIsSequence DEF PackOK
<1>6. StagesOK' /\ OutputOK'
  BY <1>1 DEF StagesOK, OutputOK, control, target, request
<1> QED
  BY <1>3, <1>4, <1>5, <1>6

LEMMA OpenSourceInv ==
  ASSUME CreateInv, OpenSource
  PROVE  CreateInv'
<1> USE DEF CreateInv
<1>1. /\ pc = "pack" /\ pc' = "copy" /\ pos <= Len(Order)
      /\ Current \in Listed /\ entries[Current].type = "Regular"
      /\ SameFileState(Current, at[Current]) /\ fd' = at[Current]
      /\ UNCHANGED <<source, compressing, encrypting, scan, pos, stored, target, request>>
  BY DEF OpenSource
<1>2. pos \in DOMAIN Order /\ pos \in Nat /\ Current \in Names
  BY <1>1, CurrentIsName
<1>3. fd' = entries[Current].inode /\ fd' \in Inodes /\ fd' # NoInode
  BY <1>1, <1>2, InodesAssumption DEF SameFileState, TypeOK
<1>4. TypeOK'
  BY <1>1, <1>3 DEF TypeOK, Stages, source, scan, target, request
<1>5. ScanOK' /\ LinkOK'
  BY <1>1, ScanKept, LinkKept DEF source
<1>6. PackOK'
  <2>1. stored[Current] = <<>> /\ Len(stored[Current]) = 0
    BY <1>1, <1>2, EmptyIsContent DEF PackOK, Current
  <2>2. Size(Current) \in Nat
    <3>1. entries[Current] \in Entry
      BY <1>1, <1>2 DEF TypeOK, Listed
    <3> QED
      BY <3>1, BoundsAssumption DEF Entry, Size
  <2>3. Listed' = Listed /\ Current' = Current /\ UNCHANGED <<entries, atScan, stored, pos>>
    BY <1>1 DEF scan, Listed, Current
  <2>4. Copied'
    BY <2>1, <2>3 DEF Copied
  <2>5. \A h \in 1..pos' - 1 : Packed(h)'
    BY <1>1, <2>3 DEF PackOK, Packed
  <2>6. \A h \in DOMAIN Order : h > pos' => stored'[Order[h]] = <<>>
    BY <1>1, <2>3 DEF PackOK
  <2> QED
    BY <1>1, <1>2, <1>3, <2>1, <2>2, <2>3, <2>4, <2>5, <2>6, OrderIsSequence DEF PackOK, Size
<1>7. StagesOK' /\ OutputOK'
  BY <1>1 DEF StagesOK, OutputOK, target, request
<1> QED
  BY <1>4, <1>5, <1>6, <1>7

\* What is copied of the current entry, and from where.
LEMMA CopyingFacts ==
  ASSUME CreateInv, pc = "copy"
  PROVE  /\ pos \in DOMAIN Order /\ pos \in Nat /\ pos <= Len(Order)
         /\ pos + 1 \in 1..Len(Order) + 1
         /\ Current \in Names /\ Current \in Listed /\ entries[Current].type = "Regular"
         /\ fd = entries[Current].inode /\ fd \in Inodes
         /\ stored \in [Names -> Contents]
         /\ stored[Current] \in Seq(0..MaxWrites) /\ Len(stored[Current]) \in Nat
         /\ data[fd] \in Seq(0..MaxWrites) /\ Len(data[fd]) \in Nat
         /\ atScan[Current] \in Seq(0..MaxWrites) /\ Size(Current) = Len(atScan[Current])
         /\ Size(Current) \in 0..MaxBlocks /\ Len(stored[Current]) <= Size(Current)
         /\ Copied
<1> USE DEF CreateInv
<1>1. /\ pos <= Len(Order) /\ Current \in Listed /\ entries[Current].type = "Regular"
      /\ fd = entries[Current].inode /\ Len(stored[Current]) <= Size(Current) /\ Copied
  BY DEF PackOK
<1>2. /\ pos \in DOMAIN Order /\ pos \in Nat /\ Current \in Names
      /\ pos + 1 \in 1..Len(Order) + 1
  BY <1>1, CurrentIsName
<1>3. entries[Current] \in Entry
  BY <1>1, <1>2 DEF TypeOK, Listed
<1>4. fd \in Inodes /\ Size(Current) \in 0..MaxBlocks
  BY <1>1, <1>3 DEF Entry, Size
<1>5. /\ stored[Current] \in Contents /\ data[fd] \in Contents /\ atScan[Current] \in Contents
      /\ stored \in [Names -> Contents]
  BY <1>2, <1>4 DEF TypeOK
<1>6. /\ stored[Current] \in Seq(0..MaxWrites) /\ Len(stored[Current]) \in Nat
      /\ data[fd] \in Seq(0..MaxWrites) /\ Len(data[fd]) \in Nat
      /\ atScan[Current] \in Seq(0..MaxWrites)
  BY <1>5, ContentsAreSequences, BoundsAssumption
<1>7. Size(Current) = Len(atScan[Current])
  BY <1>1 DEF ScanOK, Size
<1> QED
  BY <1>1, <1>2, <1>4, <1>5, <1>6, <1>7

LEMMA ReadSourceInv ==
  ASSUME CreateInv, ReadSource
  PROVE  CreateInv'
<1> USE DEF CreateInv
<1> DEFINE done == Len(stored[Current])
           c == Append(stored[Current], data[fd][done + 1])
<1>1. /\ pc = "copy" /\ Size(Current) - done > 0 /\ done < Len(data[fd])
      /\ stored' = [stored EXCEPT ![Current] = c]
      /\ UNCHANGED <<source, control, scan, pos, fd, target, request>>
  BY DEF ReadSource, Remaining
<1>2. /\ pos \in DOMAIN Order /\ pos \in Nat /\ pos <= Len(Order)
      /\ Current \in Names /\ Current \in Listed /\ entries[Current].type = "Regular"
      /\ fd = entries[Current].inode /\ fd \in Inodes
      /\ stored \in [Names -> Contents]
      /\ stored[Current] \in Seq(0..MaxWrites) /\ done \in Nat
      /\ data[fd] \in Seq(0..MaxWrites) /\ Len(data[fd]) \in Nat
      /\ atScan[Current] \in Seq(0..MaxWrites) /\ Size(Current) = Len(atScan[Current])
      /\ Size(Current) \in 0..MaxBlocks /\ done <= Size(Current)
      /\ Copied
  BY <1>1, CopyingFacts
<1>3. /\ c \in Seq(0..MaxWrites) /\ Len(c) = done + 1 /\ c[done + 1] = data[fd][done + 1]
      /\ \A r \in 1..done : c[r] = stored[Current][r]
  <2>1. data[fd][done + 1] \in 0..MaxWrites
    <3> DEFINE d == data[fd]
    <3>1. d \in Seq(0..MaxWrites) /\ Len(d) \in Nat /\ done \in Nat /\ done < Len(d)
      BY <1>1, <1>2
    <3> HIDE DEF d, done
    <3>2. d[done + 1] \in 0..MaxWrites
      <4>1. done + 1 \in 1..Len(d)
        BY <3>1
      <4> QED
        BY <3>1, <4>1, ElementOfSeq
    <3> QED
      BY <3>2, Zenon DEF d, done
  <2> QED
    <3> DEFINE q == stored[Current]
               v == data[fd][done + 1]
    <3>1. q \in Seq(0..MaxWrites) /\ v \in 0..MaxWrites
      BY <1>2, <2>1
    <3> HIDE DEF q, v
    <3>2. /\ Append(q, v) \in Seq(0..MaxWrites) /\ Len(Append(q, v)) = Len(q) + 1
          /\ Append(q, v)[Len(q) + 1] = v
          /\ \A r \in 1..Len(q) : Append(q, v)[r] = q[r]
      BY <3>1, AppendedIsSequence
    <3> QED
      BY <3>2, Zenon DEF q, v
<1> HIDE DEF c
<1>4. Len(c) <= Size(Current) /\ Len(c) <= MaxBlocks
  <2>1. /\ Size(Current) \in Nat /\ Size(Current) <= MaxBlocks
        /\ Size(Current) - done > 0 /\ done \in Nat /\ Len(c) = done + 1
    BY <1>1, <1>2, <1>3, BoundsAssumption
  <2> HIDE DEF done
  <2> QED
    BY <2>1, BoundsAssumption
<1>5. c \in Contents
  BY <1>3, <1>4, SequencesAreContents
<1>6. /\ stored' \in [Names -> Contents] /\ stored'[Current] = c
      /\ \A n \in Names : n # Current => stored'[n] = stored[n]
  BY <1>1, <1>2, <1>5
<1>7. TypeOK'
  BY <1>1, <1>6 DEF TypeOK, source, control, scan, target, request
<1>8. ScanOK' /\ LinkOK'
  BY <1>1, ScanKept, LinkKept DEF control, source
<1>9. PackOK'
  <2>1. /\ Listed' = Listed /\ Current' = Current
        /\ UNCHANGED <<entries, atScan, pos, pc, fd, mtime, data>>
    BY <1>1 DEF scan, Listed, Current, control, source
  <2>2. \A h \in DOMAIN Order : h # pos => stored'[Order[h]] = stored[Order[h]]
    BY <1>2, <1>6, CurrentIsName, OrderIsSequence
  <2>3. \A h \in 1..pos' - 1 : Packed(h)'
    <3> TAKE h \in 1..pos' - 1
    <3>1. h \in DOMAIN Order /\ h # pos /\ h \in 1..pos - 1
      BY <1>2, <2>1, OrderIsSequence
    <3>2. Packed(h) /\ stored'[Order[h]] = stored[Order[h]]
      BY <1>1, <2>2, <3>1 DEF PackOK
    <3> QED
      BY <2>1, <3>2 DEF Packed
  <2>4. \A h \in DOMAIN Order : h > pos' => stored'[Order[h]] = <<>>
    BY <1>1, <1>2, <2>1, <2>2 DEF PackOK
  <2>5. Copied'
    <3> SUFFICES ASSUME mtime[fd] = entries[Current].mtime, NEW r \in 1..Len(c)
                 PROVE  c[r] = atScan[Current][r]
      BY <1>6, <2>1 DEF Copied
    <3>1. data[fd] = atScan[Current]
      BY <1>2 DEF ScanOK
    <3>2. CASE r = done + 1
      BY <1>3, <3>1, <3>2
    <3>3. CASE r # done + 1
      <4>1. c[r] = stored[Current][r] /\ r \in 1..Len(stored[Current])
        BY <1>2, <1>3, <3>3
      <4> QED
        BY <1>2, <4>1 DEF Copied
    <3> QED
      BY <3>2, <3>3
  <2> QED
    BY <1>1, <1>2, <1>4, <1>6, <2>1, <2>3, <2>4, <2>5 DEF PackOK, Size
<1>10. StagesOK' /\ OutputOK'
  BY <1>1 DEF StagesOK, OutputOK, control, target, request
<1> QED
  BY <1>7, <1>8, <1>9, <1>10

\* The checks after the copy make it the content at the scan.
LEMMA CloseSourceInv ==
  ASSUME CreateInv, CloseSource
  PROVE  CreateInv'
<1> USE DEF CreateInv
<1>1. /\ pc = "copy" /\ pc' = "pack" /\ Size(Current) - Len(stored[Current]) = 0
      /\ SameFileState(Current, fd) /\ fd' = NoInode /\ pos' = pos + 1
      /\ UNCHANGED <<source, compressing, encrypting, scan, stored, target, request>>
  BY DEF CloseSource, Remaining
<1>2. /\ pos \in DOMAIN Order /\ pos \in Nat /\ pos <= Len(Order)
      /\ pos + 1 \in 1..Len(Order) + 1
      /\ stored[Current] \in Seq(0..MaxWrites) /\ Len(stored[Current]) \in Nat
      /\ atScan[Current] \in Seq(0..MaxWrites) /\ Size(Current) = Len(atScan[Current])
      /\ Size(Current) \in 0..MaxBlocks /\ Copied
  BY <1>1, CopyingFacts
<1>3. stored[Current] = atScan[Current]
  <2>1. \A r \in 1..Len(stored[Current]) : stored[Current][r] = atScan[Current][r]
    BY <1>1, <1>2 DEF Copied, SameFileState
  <2>2. Len(stored[Current]) = Len(atScan[Current])
    BY <1>1, <1>2
  <2> QED
    BY <1>2, <2>1, <2>2
<1>4. TypeOK'
  BY <1>1, <1>2, InodesAssumption DEF TypeOK, Stages, source, scan, target, request
<1>5. ScanOK' /\ LinkOK'
  BY <1>1, ScanKept, LinkKept DEF source
<1>6. PackOK'
  <2>1. Listed' = Listed /\ UNCHANGED <<entries, atScan, stored>>
    BY <1>1 DEF scan, Listed
  <2>2. \A h \in 1..pos : Packed(h)
    BY <1>1, <1>2, <1>3 DEF PackOK, Packed, Current
  <2>3. \A h \in 1..pos' - 1 : Packed(h)'
    BY <1>1, <1>2, <2>1, <2>2 DEF Packed
  <2>4. \A h \in DOMAIN Order : h >= pos' => stored'[Order[h]] = <<>>
    BY <1>1, <1>2, <2>1, OrderIsSequence DEF PackOK
  <2> QED
    BY <1>1, <1>2, <2>1, <2>3, <2>4, OrderIsSequence DEF PackOK
<1>7. StagesOK' /\ OutputOK'
  BY <1>1 DEF StagesOK, OutputOK, target, request
<1> QED
  BY <1>4, <1>5, <1>6, <1>7

LEMMA FinishPackInv ==
  ASSUME CreateInv, FinishPack
  PROVE  CreateInv'
<1> USE DEF CreateInv
<1>1. /\ pc = "pack" /\ pc' = "compress" /\ pos = Len(Order) + 1
      /\ UNCHANGED <<source, compressing, encrypting, scan, packing, target, request>>
  BY DEF FinishPack
<1>2. TypeOK'
  BY <1>1 DEF TypeOK, Stages, source, scan, packing, target, request
<1>3. ScanOK' /\ LinkOK'
  BY <1>1, ScanKept, LinkKept DEF source
<1>4. PackOK'
  <2>1. Listed' = Listed /\ UNCHANGED <<entries, atScan, stored>>
    BY <1>1 DEF scan, Listed, packing
  <2>2. \A h \in DOMAIN Order : Packed(h)
    BY <1>1, OrderIsSequence DEF PackOK
  <2> QED
    BY <1>1, <2>1, <2>2 DEF PackOK, Packed
<1>5. StagesOK' /\ OutputOK'
  BY <1>1 DEF StagesOK, OutputOK, target, request
<1> QED
  BY <1>2, <1>3, <1>4, <1>5

\* The stages after packing, and the commit, touch temporary files only.
LEMMA LaterStagesInv ==
  ASSUME CreateInv,
         Compress \/ Encrypt \/ Finalize \/ SyncFinal \/ CommitFileNoReplace
                  \/ UnlinkTemporary \/ SyncParent
  PROVE  CreateInv'
<1> USE DEF CreateInv
<1>1. /\ pc \notin {"scan", "link", "pack", "copy", "failed"}
      /\ pc' \in Stages \ {"scan", "link", "pack", "copy", "failed"}
      /\ UNCHANGED <<source, compressing, encrypting, scan, packing, request>>
  BY DEF Compress, Encrypt, Finalize, SyncFinal, CommitFileNoReplace, UnlinkTemporary,
         SyncParent, Stages
<1>2. temps \subseteq {"packed", "compressed", "encoded", "final"}
  BY DEF TypeOK
<1>3. /\ temps' \subseteq {"packed", "compressed", "encoded", "final"}
      /\ synced' \in BOOLEAN /\ output' \in {"nothing", "foreign", "ours"}
      /\ published' \in BOOLEAN
  BY <1>2 DEF TypeOK, Compress, Encrypt, Finalize, SyncFinal, CommitFileNoReplace,
              UnlinkTemporary, SyncParent
<1>4. TypeOK'
  BY <1>1, <1>3 DEF TypeOK, source, scan, packing, request
<1>5. ScanOK' /\ LinkOK'
  BY <1>1, ScanKept, LinkKept DEF source
<1>6. PackOK'
  BY <1>1, PackKept DEF packing
<1>7. StagesOK'
  <2>1. CASE Compress
    BY <2>1 DEF Compress, StagesOK
  <2>2. CASE Encrypt
    BY <2>2 DEF Encrypt, StagesOK
  <2>3. CASE Finalize
    BY <2>3 DEF Finalize, StagesOK
  <2>4. CASE SyncFinal
    BY <2>4 DEF SyncFinal, StagesOK
  <2>5. CASE CommitFileNoReplace
    BY <2>5 DEF CommitFileNoReplace, StagesOK
  <2>6. CASE UnlinkTemporary
    BY <2>6 DEF UnlinkTemporary, StagesOK
  <2>7. CASE SyncParent
    BY <2>7 DEF SyncParent, StagesOK
  <2> QED
    BY <2>1, <2>2, <2>3, <2>4, <2>5, <2>6, <2>7
<1>8. OutputOK'
  <2>1. CASE Compress \/ Encrypt \/ Finalize
    BY <1>1, <2>1 DEF Compress, Encrypt, Finalize, OutputOK, request
  <2>2. CASE SyncFinal
    BY <1>1, <2>2 DEF SyncFinal, OutputOK, request
  <2>3. CASE CommitFileNoReplace
    BY <1>1, <2>3 DEF CommitFileNoReplace, OutputOK, request
  <2>4. CASE UnlinkTemporary \/ SyncParent
    BY <1>1, <2>4 DEF UnlinkTemporary, SyncParent, OutputOK, request
  <2> QED
    BY <2>1, <2>2, <2>3, <2>4
<1> QED
  BY <1>4, <1>5, <1>6, <1>7, <1>8

LEMMA FailInv ==
  ASSUME CreateInv, Fail
  PROVE  CreateInv'
<1> USE DEF CreateInv
<1>1. /\ pc' = "failed" /\ temps' = {} /\ fd' = NoInode
      /\ UNCHANGED <<source, compressing, encrypting, scan, pos, stored, synced, output,
                     published, request>>
  BY DEF Fail
<1>2. TypeOK'
  BY <1>1 DEF TypeOK, Stages, source, scan, request
<1>3. ScanOK' /\ LinkOK'
  BY <1>1, ScanKept, LinkKept DEF source
<1>4. PackOK'
  BY <1>1, PackKept
<1>5. StagesOK' /\ OutputOK'
  BY <1>1 DEF StagesOK, OutputOK, request
<1> QED
  BY <1>2, <1>3, <1>4, <1>5

LEMMA NextInv == CreateInv /\ [Next]_vars => CreateInv'
<1> SUFFICES ASSUME CreateInv, [Next]_vars PROVE CreateInv'
  OBVIOUS
<1>1. CASE Others
  BY <1>1, WriteInv, OthersInv DEF Others
<1>2. CASE Create
  BY <1>2, ScanEntryInv, LinkAliasesInv, PackNextInv, OpenSourceInv, ReadSourceInv,
     CloseSourceInv, FinishPackInv, LaterStagesInv DEF Create
<1>3. CASE Fail
  BY <1>3, FailInv
<1>4. CASE UNCHANGED vars
  <2>1. UNCHANGED <<source, control, scan, packing, target, request>>
    BY <1>4 DEF vars
  <2>2. CreateInv
    OBVIOUS
  <2>3. TypeOK'
    BY <2>1, <2>2 DEF CreateInv, TypeOK, source, control, scan, packing, target, request
  <2>4. ScanOK' /\ LinkOK'
    BY <2>1, <2>2, ScanKept, LinkKept DEF CreateInv, control, source
  <2>5. PackOK'
    BY <2>1, <2>2 DEF CreateInv, PackOK, Packed, Copied, Current, Size, Listed, scan, packing,
                      control, source
  <2>6. StagesOK' /\ OutputOK'
    BY <2>1, <2>2 DEF CreateInv, StagesOK, OutputOK, control, target, request
  <2> QED
    BY <2>3, <2>4, <2>5, <2>6 DEF CreateInv
<1> QED
  BY <1>1, <1>2, <1>3, <1>4 DEF Next

LEMMA SpecInv == Spec => []CreateInv
  BY InitInv, NextInv, PTL DEF Spec

-----------------------------------------------------------------------------
\* What is packed under the first path of an inode is the content of all.
LEMMA SnapshotIsPacked ==
  ASSUME CreateInv
  PROVE  ArchiveIsSnapshot
<1> USE DEF CreateInv
<1> SUFFICES ASSUME pc \notin {"scan", "link", "pack", "copy", "failed"}, NEW n \in Listed
             PROVE  stored[Original(n)] = atScan[n]
  BY DEF ArchiveIsSnapshot
<1> DEFINE o == Original(n)
<1>1. /\ entries \in [Names -> Entry \cup {NoEntry}] /\ n \in Names /\ entries[n] # NoEntry
  BY DEF TypeOK, Listed
<1>2. o \in Listed /\ entries[o].inode = entries[n].inode
  BY <1>1, FirstIsListed DEF Original, Listed
<1>3. Original(o) = o
  BY <1>2 DEF Original
<1> HIDE DEF o
<1>4. entries[o].type = "Regular"
  BY <1>2, <1>3 DEF LinkOK
<1>5. stored[o] = atScan[o]
  <2>1. PICK h \in DOMAIN Order : Order[h] = o
    BY <1>2, OrderIsSequence DEF Listed
  <2> QED
    BY <1>2, <1>4, <2>1 DEF PackOK, Packed
<1>6. atScan[n] = atScan[o]
  BY <1>2 DEF ScanOK, LinkOK, AliasesAgree, o
<1> QED
  BY <1>5, <1>6 DEF o

LEMMA StagesAreFew ==
  ASSUME CreateInv
  PROVE  TwoStagesAtMost
<1>1. \E x, y \in {"packed", "compressed", "encoded", "final"} : temps \subseteq {x, y}
  BY DEF CreateInv, StagesOK, TypeOK, Stages
<1> QED
  BY <1>1, PairIsSmall DEF TwoStagesAtMost

\* The state of BackupEngine::create has its type: the descriptor of a source
\* file is open exactly while the file is copied.
THEOREM TypeCorrect == Spec => []TypeOK
<1>1. CreateInv => TypeOK
  BY DEF CreateInv
<1> QED
  BY <1>1, SpecInv, PTL

\* What create() publishes is a snapshot, synchronized, not cancelled in time,
\* and made with at most two temporary files, whatever other programs do to
\* the source and to the output path meanwhile.
THEOREM PublishedCorrect == Spec => []PublishedIsSound
<1>1. CreateInv => PublishedIsSound
  <2> SUFFICES ASSUME CreateInv PROVE PublishedIsSound
    OBVIOUS
  <2>1. PublishedIsDurable /\ CancelledIsNotPublished
    BY DEF CreateInv, OutputOK, PublishedIsDurable, CancelledIsNotPublished
  <2> QED
    BY <2>1, SnapshotIsPacked, StagesAreFew DEF PublishedIsSound
<1> QED
  BY <1>1, SpecInv, PTL

LEMMA CreateKeeps == Next => Keeps
<1> SUFFICES ASSUME Next, output = "foreign" PROVE output' # "ours"
  BY DEF Keeps
<1>1. CASE Others
  BY <1>1 DEF Others, Write, Relink, Interfere, Cancel, target
<1>2. CASE Create
  BY <1>2 DEF Create, ScanEntry, LinkAliases, PackNext, OpenSource, ReadSource, CloseSource,
     FinishPack, Compress, Encrypt, Finalize, SyncFinal, CommitFileNoReplace,
     UnlinkTemporary, SyncParent, target
<1>3. CASE Fail
  BY <1>3 DEF Fail
<1> QED
  BY <1>1, <1>2, <1>3 DEF Next

\* No step puts the archive over a file somebody else has made meanwhile.
THEOREM ForeignIsKeptAlways == Spec => ForeignIsKept
  BY CreateKeeps, PTL DEF Spec, ForeignIsKept

-----------------------------------------------------------------------------
\* SourceScan: paths, and what normalizeIncludes makes of them.

\* The components that Clean has kept after each component of a path.
KeepsFrom(parts, kept, n) ==
  kept[n] = IF n = 0 THEN <<>>
            ELSE IF parts[n] = Here THEN kept[n - 1] ELSE Append(kept[n - 1], parts[n])

LEMMA KeptExists ==
  ASSUME NEW U, NEW parts \in Seq(U), NEW n \in 0..Len(parts)
  PROVE  \E kept \in [0..n -> Seq(U)] : \A m \in 0..n : KeepsFrom(parts, kept, m)
<1> DEFINE Good(m) == \E kept \in [0..m -> Seq(U)] : \A j \in 0..m : KeepsFrom(parts, kept, j)
           Bad == {m \in 0..Len(parts) : ~Good(m)}
<1>1. Len(parts) \in Nat /\ Bad \in SUBSET Nat
  OBVIOUS
<1>2. SUFFICES Bad = {}
  BY <1>2
<1>3. SUFFICES ASSUME Bad # {} PROVE FALSE
  OBVIOUS
<1>4. PICK m \in Bad : \A h \in Bad : m <= h
  <2> HIDE DEF Bad
  <2> QED
    BY <1>1, <1>3, LeastNatural
<1>5. CASE m = 0
  <2> DEFINE kept == [j \in 0..0 |-> <<>>]
  <2>1. kept \in [0..0 -> Seq(U)] /\ \A j \in 0..0 : KeepsFrom(parts, kept, j)
    BY DEF KeepsFrom
  <2>2. Good(0)
    BY <2>1
  <2> QED
    BY <1>5, <2>2
<1>6. CASE m # 0
  <2>1. m \in Nat /\ m - 1 \in 0..Len(parts) /\ m \in 1..Len(parts) /\ ~(m <= m - 1)
    BY <1>1, <1>6
  <2>2. Good(m - 1)
    BY <1>4, <2>1
  <2>3. PICK kept \in [0..m - 1 -> Seq(U)] : \A j \in 0..m - 1 : KeepsFrom(parts, kept, j)
    BY <2>2
  <2> DEFINE next == IF parts[m] = Here THEN kept[m - 1] ELSE Append(kept[m - 1], parts[m])
             more == [j \in 0..m |-> IF j = m THEN next ELSE kept[j]]
  <2>4. next \in Seq(U)
    <3>1. parts[m] \in U /\ kept[m - 1] \in Seq(U)
      BY <2>1
    <3> QED
      BY <3>1
  <2>5. more \in [0..m -> Seq(U)]
    <3> HIDE DEF next
    <3>1. \A j \in 0..m : j # m => kept[j] \in Seq(U)
      BY <2>1
    <3> QED
      BY <2>4, <3>1
  <2>6. ASSUME NEW j \in 0..m PROVE KeepsFrom(parts, more, j)
    <3>1. CASE j = m
      <4>1. m - 1 \in 0..m /\ m - 1 # m /\ m \in 0..m
        BY <2>1
      <4>2. more[m] = next /\ more[m - 1] = kept[m - 1]
        BY <4>1
      <4> HIDE DEF more
      <4> QED
        BY <2>1, <3>1, <4>2 DEF KeepsFrom
    <3>2. CASE j # m
      <4>1. j \in 0..m - 1 /\ (j # 0 => j - 1 \in 0..m /\ j - 1 # m)
        BY <2>1, <3>2
      <4>2. more[j] = kept[j] /\ (j # 0 => more[j - 1] = kept[j - 1])
        BY <3>2, <4>1
      <4> HIDE DEF more
      <4> QED
        BY <2>3, <4>1, <4>2 DEF KeepsFrom
    <3> QED
      BY <3>1, <3>2
  <2>7. Good(m)
    <3> HIDE DEF more
    <3> QED
      BY <2>5, <2>6
  <2> QED
    BY <2>7
<1> QED
  BY <1>5, <1>6

\* lexically_normal, as Clean has it, keeps names of the path, none of them a dot.
KeptOf(parts, kept) ==
  kept = [n \in 0..Len(parts) |->
           IF n = 0 THEN <<>>
           ELSE IF parts[n] = Here THEN kept[n - 1] ELSE Append(kept[n - 1], parts[n])]

LEMMA CleanIsKept ==
  ASSUME NEW U, NEW parts \in Seq(U)
  PROVE  \E kept \in [0..Len(parts) -> Seq(U)] :
           /\ \A m \in 0..Len(parts) : KeepsFrom(parts, kept, m)
           /\ S!Clean(parts) = kept[Len(parts)]
<1>1. Len(parts) \in Nat /\ Len(parts) \in 0..Len(parts)
  OBVIOUS
<1>2. PICK kept \in [0..Len(parts) -> Seq(U)] : \A m \in 0..Len(parts) : KeepsFrom(parts, kept, m)
  BY <1>1, KeptExists
<1>3. KeptOf(parts, kept)
  BY <1>2 DEF KeptOf, KeepsFrom
<1> DEFINE c == CHOOSE f : KeptOf(parts, f)
<1>4. KeptOf(parts, c)
  BY <1>3
<1>5. S!Clean(parts) = c[Len(parts)]
  BY DEF S!Clean, KeptOf
<1>6. c = [n \in 0..Len(parts) |->
           IF n = 0 THEN <<>>
           ELSE IF parts[n] = Here THEN c[n - 1] ELSE Append(c[n - 1], parts[n])]
  BY <1>4 DEF KeptOf
<1> HIDE DEF c
<1> DEFINE Bad == {m \in 0..Len(parts) : c[m] # kept[m]}
<1>7. Bad = {}
  <2>1. SUFFICES ASSUME Bad # {} PROVE FALSE
    OBVIOUS
  <2>2. Bad \in SUBSET Nat
    OBVIOUS
  <2>3. PICK m \in Bad : \A h \in Bad : m <= h
    <3> HIDE DEF Bad
    <3> QED
      BY <2>1, <2>2, LeastNatural
  <2>4. m \in 0..Len(parts) /\ c[m] # kept[m]
    OBVIOUS
  <2>5. m # 0 => m - 1 \in 0..Len(parts) /\ m - 1 \notin Bad
    BY <2>2, <2>3
  <2>6. m # 0 => c[m - 1] = kept[m - 1]
    BY <2>5
  <2>7. KeepsFrom(parts, kept, m)
    BY <1>2, <2>4
  <2>8. c[m] = IF m = 0 THEN <<>>
               ELSE IF parts[m] = Here THEN c[m - 1] ELSE Append(c[m - 1], parts[m])
    BY ONLY <1>6, <2>4, Zenon
  <2> HIDE DEF Bad
  <2> QED
    BY <2>4, <2>6, <2>7, <2>8 DEF KeepsFrom
<1>8. c[Len(parts)] = kept[Len(parts)]
  BY <1>1, <1>7
<1> QED
  BY <1>2, <1>5, <1>8

LEMMA CleanIsClean ==
  ASSUME NEW parts, parts \in Seq(S!Range(parts))
  PROVE  /\ S!Clean(parts) \in Seq(S!Range(S!Clean(parts)))
         /\ Here \notin S!Range(S!Clean(parts))
<1> DEFINE U == S!Range(parts) \ {Here}
           R == S!Range(parts)
<1>1. Len(parts) \in Nat /\ parts \in Seq(R) /\ Len(parts) \in 0..Len(parts)
  OBVIOUS
<1>2. PICK kept \in [0..Len(parts) -> Seq(R)] :
           /\ \A m \in 0..Len(parts) : KeepsFrom(parts, kept, m)
           /\ S!Clean(parts) = kept[Len(parts)]
  <2> HIDE DEF R
  <2> QED
    BY <1>1, CleanIsKept
<1> DEFINE Bad == {m \in 0..Len(parts) : kept[m] \notin Seq(U)}
<1>3. Bad = {}
  <2>1. SUFFICES ASSUME Bad # {} PROVE FALSE
    OBVIOUS
  <2>2. Bad \in SUBSET Nat
    OBVIOUS
  <2>3. PICK m \in Bad : \A h \in Bad : m <= h
    <3> HIDE DEF Bad
    <3> QED
      BY <2>1, <2>2, LeastNatural
  <2>4. m \in 0..Len(parts) /\ kept[m] \notin Seq(U) /\ m \in Nat
    OBVIOUS
  <2>5. m # 0 => m - 1 \in 0..Len(parts) /\ m - 1 \notin Bad
    BY <2>2, <2>3
  <2>6. m # 0 => kept[m - 1] \in Seq(U)
    BY <2>5
  <2>7. KeepsFrom(parts, kept, m)
    BY <1>2, <2>4
  <2>8. m # 0 => m \in 1..Len(parts) /\ parts[m] \in R
    BY <1>1, <2>4
  <2>9. m # 0 /\ parts[m] # Here => parts[m] \in U
    BY <2>8
  <2> HIDE DEF Bad, U, R
  <2>10. CASE m = 0
    BY <2>4, <2>7, <2>10 DEF KeepsFrom
  <2>11. CASE m # 0 /\ parts[m] = Here
    BY <2>4, <2>6, <2>7, <2>11 DEF KeepsFrom
  <2>12. CASE m # 0 /\ parts[m] # Here
    <3>1. Append(kept[m - 1], parts[m]) \in Seq(U)
      BY <2>6, <2>9, <2>12
    <3> QED
      BY <2>4, <2>7, <2>12, <3>1 DEF KeepsFrom
  <2> QED
    BY <2>10, <2>11, <2>12
<1>4. S!Clean(parts) \in Seq(U)
  BY <1>1, <1>2, <1>3
<1> HIDE DEF R
<1>5. \A n \in DOMAIN S!Clean(parts) : S!Clean(parts)[n] \in U
  <2> HIDE DEF U
  <2> QED
    BY <1>4
<1>6. Here \notin S!Range(S!Clean(parts))
  BY <1>5 DEF S!Range
<1>7. S!Clean(parts) \in Seq(S!Range(S!Clean(parts)))
  <2> DEFINE q == S!Clean(parts)
  <2>1. q \in [1..Len(q) -> S!Range(q)] /\ Len(q) \in Nat
    <3>1. q \in [1..Len(q) -> U] /\ Len(q) \in Nat
      <4> HIDE DEF q, U
      <4>1. q \in Seq(U)
        BY <1>4 DEF q
      <4> QED
        BY <4>1
    <3> HIDE DEF q, U
    <3> QED
      BY <3>1 DEF S!Range
  <2> HIDE DEF q
  <2>2. q \in Seq(S!Range(q))
    BY <2>1, SeqDef
  <2> QED
    BY <2>2 DEF q
<1> QED
  BY <1>6, <1>7

-----------------------------------------------------------------------------
IsPath(p) == p \in Seq(S!Range(p))

\* Sequences of the same length with the same elements are the same.
LEMMA SamePath ==
  ASSUME NEW p, NEW q, IsPath(p), IsPath(q), Len(p) = Len(q),
         \A i \in 1..Len(p) : p[i] = q[i]
  PROVE  p = q
<1> DEFINE U == S!Range(p) \cup S!Range(q)
<1>1. p \in Seq(U) /\ q \in Seq(U)
  <2> DEFINE P == S!Range(p)  Q == S!Range(q)
  <2>1. p \in Seq(P) /\ q \in Seq(Q) /\ P \subseteq P \cup Q /\ Q \subseteq P \cup Q
    BY DEF IsPath
  <2> HIDE DEF P, Q
  <2>2. p \in Seq(P \cup Q) /\ q \in Seq(P \cup Q)
    BY <2>1, SeqMonotonic
  <2> QED
    BY <2>2 DEF P, Q
<1> HIDE DEF U
<1> QED
  BY <1>1, SeqEqual

LEMMA PartIsPath ==
  ASSUME NEW p, IsPath(p), NEW n \in 0..Len(p)
  PROVE  /\ IsPath(SubSeq(p, 1, n)) /\ Len(SubSeq(p, 1, n)) = n
         /\ \A i \in 1..n : SubSeq(p, 1, n)[i] = p[i]
<1> DEFINE U == S!Range(p)
           q == SubSeq(p, 1, n)
<1>1. p \in Seq(U) /\ Len(p) \in Nat /\ n \in Nat
  BY DEF IsPath
<1> HIDE DEF U
<1>2. \A i \in 1..n : p[i] \in U
  BY <1>1
<1>3. q = [i \in 1..n |-> p[i]]
  BY <1>1, <1>2
<1> HIDE DEF q
<1>4. Len(q) = n /\ \A i \in 1..n : q[i] = p[i]
  BY <1>1, <1>3
<1>5. q \in [1..n -> S!Range(q)]
  BY <1>3 DEF S!Range
<1>6. q \in Seq(S!Range(q))
  BY <1>1, <1>5, SeqDef
<1> QED
  BY <1>4, <1>6 DEF q, IsPath

LEMMA PrefixMeans ==
  ASSUME NEW p, NEW q, IsPath(p), IsPath(q)
  PROVE  S!IsPrefix(p, q) <=> (Len(p) <= Len(q) /\ \A i \in 1..Len(p) : p[i] = q[i])
<1>1. Len(p) \in Nat /\ Len(q) \in Nat
  <2> DEFINE P == S!Range(p)  Q == S!Range(q)
  <2>1. p \in Seq(P) /\ q \in Seq(Q)
    BY DEF IsPath
  <2> HIDE DEF P, Q
  <2> QED
    BY <2>1
<1>2. SUFFICES ASSUME Len(p) <= Len(q)
              PROVE  S!IsPrefix(p, q) <=> \A i \in 1..Len(p) : p[i] = q[i]
  BY <1>1 DEF S!IsPrefix
<1> DEFINE m == Len(p)
           s == SubSeq(p, 1, m)
           t == SubSeq(q, 1, m)
<1>3. m \in 0..Len(p) /\ m \in 0..Len(q)
  BY <1>1, <1>2
<1>4. IsPath(s) /\ Len(s) = m /\ \A i \in 1..m : s[i] = p[i]
  BY <1>3, PartIsPath
<1>5. IsPath(t) /\ Len(t) = m /\ \A i \in 1..m : t[i] = q[i]
  BY <1>3, PartIsPath
<1>6. S!IsPrefix(p, q) <=> s = t
  BY <1>2 DEF S!IsPrefix
<1> HIDE DEF s, t
<1>7. s = t => \A i \in 1..m : p[i] = q[i]
  BY <1>4, <1>5
<1>8. (\A i \in 1..m : p[i] = q[i]) => s = t
  <2>1. SUFFICES ASSUME \A i \in 1..m : p[i] = q[i] PROVE s = t
    OBVIOUS
  <2>2. \A i \in 1..Len(s) : s[i] = t[i]
    BY <1>4, <1>5, <2>1
  <2> QED
    BY <1>4, <1>5, <2>2, SamePath
<1> QED
  BY <1>6, <1>7, <1>8

\* The directory of a path.
LEMMA FrontFacts ==
  ASSUME NEW p, IsPath(p), p # <<>>
  PROVE  /\ Len(p) \in Nat /\ Len(p) >= 1
         /\ IsPath(S!Front(p)) /\ Len(S!Front(p)) = Len(p) - 1
         /\ \A i \in 1..Len(p) - 1 : S!Front(p)[i] = p[i]
         /\ S!Front(p) = <<>> <=> Len(p) = 1
<1> DEFINE U == S!Range(p)
<1>1. p \in Seq(U)
  BY DEF IsPath
<1> HIDE DEF U
<1>2. Len(p) \in Nat /\ Len(p) >= 1 /\ Len(p) - 1 \in 0..Len(p)
  BY <1>1
<1>3. /\ IsPath(S!Front(p)) /\ Len(S!Front(p)) = Len(p) - 1
      /\ \A i \in 1..Len(p) - 1 : S!Front(p)[i] = p[i]
  BY <1>2, PartIsPath DEF S!Front
<1> DEFINE q == S!Front(p)
           W == S!Range(q)
<1>4. q \in Seq(W)
  BY <1>3 DEF IsPath
<1> HIDE DEF W, q
<1>5. q = <<>> <=> Len(q) = 0
  BY <1>4
<1>6. S!Front(p) = <<>> <=> Len(S!Front(p)) = 0
  BY <1>5 DEF q
<1> QED
  BY <1>2, <1>3, <1>6

LEMMA TreePaths ==
  ASSUME NEW p \in Tree
  PROVE  /\ IsPath(p) /\ p # <<>> /\ Here \notin S!Range(p)
         /\ Len(p) > 1 => S!Front(p) \in Tree
  BY ScanAssumption DEF S!TreeAssumption, IsPath

\* What is below the directory of a path is above the path.
LEMMA PrefixOfFront ==
  ASSUME NEW p, NEW q, IsPath(p), IsPath(q), q # <<>>, S!IsPrefix(p, S!Front(q))
  PROVE  S!IsPrefix(p, q)
<1>1. /\ Len(q) \in Nat /\ IsPath(S!Front(q)) /\ Len(S!Front(q)) = Len(q) - 1
      /\ \A i \in 1..Len(q) - 1 : S!Front(q)[i] = q[i]
  BY FrontFacts
<1>2. Len(p) <= Len(S!Front(q)) /\ \A i \in 1..Len(p) : p[i] = S!Front(q)[i]
  BY <1>1, PrefixMeans
<1>3. Len(p) \in Nat
  <2> DEFINE P == S!Range(p)
  <2>1. p \in Seq(P)
    BY DEF IsPath
  <2> HIDE DEF P
  <2> QED
    BY <2>1
<1>4. Len(p) <= Len(q) /\ \A i \in 1..Len(p) : p[i] = q[i]
  BY <1>1, <1>2, <1>3
<1> QED
  BY <1>4, PrefixMeans

\* What is related to a path that has a directory is related to the directory.
LEMMA RelatedUp ==
  ASSUME NEW p, NEW s, IsPath(p), IsPath(s), p # <<>>, S!Related(s, p)
  PROVE  S!Related(s, S!Front(p))
<1>1. /\ Len(p) \in Nat /\ IsPath(S!Front(p)) /\ Len(S!Front(p)) = Len(p) - 1
      /\ \A i \in 1..Len(p) - 1 : S!Front(p)[i] = p[i]
  BY FrontFacts
<1>2. Len(s) \in Nat
  <2> DEFINE P == S!Range(s)
  <2>1. s \in Seq(P)
    BY DEF IsPath
  <2> HIDE DEF P
  <2> QED
    BY <2>1
<1>3. CASE S!IsPrefix(p, s)
  <2>1. Len(p) <= Len(s) /\ \A i \in 1..Len(p) : p[i] = s[i]
    BY <1>3, PrefixMeans
  <2>2. Len(S!Front(p)) <= Len(s) /\ \A i \in 1..Len(S!Front(p)) : S!Front(p)[i] = s[i]
    BY <1>1, <1>2, <2>1
  <2> QED
    BY <1>1, <2>2, PrefixMeans DEF S!Related
<1>4. CASE S!IsPrefix(s, p)
  <2>1. Len(s) <= Len(p) /\ \A i \in 1..Len(s) : s[i] = p[i]
    BY <1>4, PrefixMeans
  <2>2. CASE Len(s) = Len(p)
    <3>1. Len(S!Front(p)) <= Len(s) /\ \A i \in 1..Len(S!Front(p)) : S!Front(p)[i] = s[i]
      BY <1>1, <1>2, <2>1, <2>2
    <3> QED
      BY <1>1, <3>1, PrefixMeans DEF S!Related
  <2>3. CASE Len(s) # Len(p)
    <3>1. Len(s) <= Len(S!Front(p)) /\ \A i \in 1..Len(s) : s[i] = S!Front(p)[i]
      BY <1>1, <1>2, <2>1, <2>3
    <3> QED
      BY <1>1, <3>1, PrefixMeans DEF S!Related
  <2> QED
    BY <2>2, <2>3
<1> QED
  BY <1>3, <1>4 DEF S!Related

-----------------------------------------------------------------------------
SelectedPaths == \A s \in selected : IsPath(s) /\ s # <<>> /\ Here \notin S!Range(s)

\* isSelected, with its look at the paths above and below, keeps exactly the
\* paths related to a selected one.
LEMMA WantedMeans ==
  ASSUME SelectedPaths, NEW p, IsPath(p)
  PROVE  S!Wanted(p) <=> selected = {} \/ \E s \in selected : S!Related(s, p)
<1>1. Len(p) \in Nat
  <2> DEFINE P == S!Range(p)
  <2>1. p \in Seq(P)
    BY DEF IsPath
  <2> HIDE DEF P
  <2> QED
    BY <2>1
<1>2. ASSUME S!InsideSelection(p) PROVE \E s \in selected : S!Related(s, p)
  <2>1. PICK n \in 1..Len(p) - 1 : SubSeq(p, 1, n) \in selected
    BY <1>2 DEF S!InsideSelection
  <2> DEFINE s == SubSeq(p, 1, n)
  <2>2. n \in 0..Len(p)
    BY <1>1
  <2>3. IsPath(s) /\ Len(s) = n /\ \A i \in 1..n : s[i] = p[i]
    BY <2>2, PartIsPath
  <2> HIDE DEF s
  <2>4. S!IsPrefix(s, p)
    BY <1>1, <2>2, <2>3, PrefixMeans
  <2> QED
    BY <2>1, <2>4 DEF s, S!Related
<1>3. ASSUME NEW s \in selected, S!Related(s, p), s # p, ~S!IsPrefix(p, s)
      PROVE  S!InsideSelection(p)
  <2>1. IsPath(s) /\ s # <<>>
    BY DEF SelectedPaths
  <2>2. Len(s) \in Nat /\ Len(s) >= 1
    BY <2>1, FrontFacts
  <2>3. Len(s) <= Len(p) /\ \A i \in 1..Len(s) : s[i] = p[i]
    BY <1>3, <2>1, PrefixMeans DEF S!Related
  <2>4. Len(s) # Len(p)
    BY <1>3, <2>1, <2>3, SamePath
  <2>5. Len(s) \in 1..Len(p) - 1 /\ Len(s) \in 0..Len(p)
    BY <1>1, <2>2, <2>3, <2>4
  <2> DEFINE t == SubSeq(p, 1, Len(s))
  <2>6. IsPath(t) /\ Len(t) = Len(s) /\ \A i \in 1..Len(s) : t[i] = p[i]
    BY <2>5, PartIsPath
  <2> HIDE DEF t
  <2>7. \A i \in 1..Len(t) : t[i] = s[i]
    BY <2>3, <2>6
  <2>8. t = s
    BY <2>1, <2>6, <2>7, SamePath
  <2> QED
    BY <2>5, <2>8 DEF S!InsideSelection, t
<1>4. ASSUME NEW s \in selected, S!Related(s, p) PROVE S!Wanted(p)
  BY <1>3, <1>4 DEF S!Wanted, S!SelectsBelow
<1>5. p \in selected => \E s \in selected : S!Related(s, p)
  <2>1. SUFFICES ASSUME p \in selected PROVE S!Related(p, p)
    OBVIOUS
  <2>2. \A i \in 1..Len(p) : p[i] = p[i]
    OBVIOUS
  <2>3. S!IsPrefix(p, p)
    BY <1>1, <2>2, PrefixMeans
  <2> QED
    BY <2>3 DEF S!Related
<1>6. S!SelectsBelow(p) => \E s \in selected : S!Related(s, p)
  BY DEF S!SelectsBelow, S!Related
<1> QED
  BY <1>2, <1>4, <1>5, <1>6 DEF S!Wanted

LEMMA WantedUp ==
  ASSUME SelectedPaths, NEW p \in Tree, Len(p) > 1, S!Wanted(p)
  PROVE  S!Wanted(S!Front(p))
<1>1. IsPath(p) /\ p # <<>> /\ S!Front(p) \in Tree
  BY TreePaths
<1>2. IsPath(S!Front(p))
  BY <1>1, FrontFacts
<1>3. selected = {} \/ \E s \in selected : S!Related(s, p)
  BY <1>1, WantedMeans
<1>4. selected = {} \/ \E s \in selected : S!Related(s, S!Front(p))
  BY <1>1, <1>3, RelatedUp DEF SelectedPaths
<1> QED
  BY <1>2, <1>4, WantedMeans

-----------------------------------------------------------------------------
\* SourceScan: the invariant of the walk.
Walking == {"walk", "record", "increment", "check", "done"}

RequestOK == \A raw \in includes : raw.parts \in Seq(S!Range(raw.parts))

SelectedOK ==
  /\ SelectedPaths
  /\ step \in Walking => /\ \A raw \in includes : S!Proper(raw)
                       /\ selected = {S!Clean(raw.parts) : raw \in includes}

Open == [dir : Tree \cup {<<>>}, left : SUBSET Tree]

StackOK ==
  /\ stack \in Seq(Open)
  /\ step \in {"record", "increment"} =>
       current \in Tree /\ stack # <<>> /\ S!Front(current) = S!Last(stack).dir
  /\ step \in {"check", "done"} => stack = <<>>

\* What other programs have changed is closed downwards.
TouchedOK == \A p \in Tree : Len(p) > 1 /\ S!Front(p) \in touched => p \in touched

CurrentOK ==
  /\ step \in {"record", "increment"} /\ current \notin touched =>
       kind[current] # "none" /\ isDirectory = (kind[current] = "dir")
  /\ step = "increment" => current \in S!Listed

EntriesOK ==
  /\ \A p \in S!Listed : S!Wanted(p) /\ (p \notin touched => recorded[p] = kind[p])
  /\ step = "normalize" => S!Listed = {}
  /\ step = "done" => selected \subseteq S!Listed

\* The walk has still to look at p, or it has already been where p is.
Pending(p) ==
  \/ step = "record" /\ current = p
  \/ \E i \in 1..Len(stack) : stack[i].dir = S!Front(p) /\ p \in stack[i].left
Reached(p) ==
  \/ S!Front(p) = <<>>
  \/ S!Front(p) \in S!Listed /\ ~(step = "increment" /\ current = S!Front(p))

CompleteOK ==
  step \in Walking =>
    \A p \in Tree \ touched :
      kind[p] # "none" /\ S!Wanted(p) /\ Reached(p) => p \in S!Listed \/ Pending(p)

ScanInv ==
  /\ S!TypeOK /\ RequestOK /\ SelectedOK /\ StackOK /\ TouchedOK /\ CurrentOK
  /\ EntriesOK /\ CompleteOK /\ S!RefusedForAReason

\* A walk that has come to its end has listed everything that is wanted and
\* that nobody has moved.
LEMMA WalkIsComplete ==
  ASSUME ScanInv, step \in {"check", "done"}
  PROVE  \A p \in Tree \ touched : kind[p] # "none" /\ S!Wanted(p) => p \in S!Listed
<1> DEFINE Missed == {p \in Tree \ touched : kind[p] # "none" /\ S!Wanted(p) /\ p \notin S!Listed}
           Lengths == {n \in Nat : \E p \in Missed : Len(p) = n}
<1>1. SUFFICES ASSUME Missed # {} PROVE FALSE
  OBVIOUS
<1>2. \A p \in Missed : p \in Tree /\ Len(p) \in Nat /\ Len(p) >= 1
  BY TreePaths, FrontFacts
<1>3. Lengths # {}
  <2>1. PICK p \in Missed : TRUE
    BY <1>1
  <2>2. Len(p) \in Lengths
    BY <1>2, <2>1
  <2> QED
    BY <2>2
<1>4. PICK m \in Lengths : \A h \in Lengths : m <= h
  <2>1. Lengths \in SUBSET Nat
    OBVIOUS
  <2> HIDE DEF Lengths
  <2> QED
    BY <1>3, <2>1, LeastNatural
<1>5. PICK p \in Missed : Len(p) = m
  BY <1>4
<1>6. /\ p \in Tree /\ p \notin touched /\ kind[p] # "none" /\ S!Wanted(p) /\ p \notin S!Listed
      /\ Len(p) \in Nat /\ Len(p) >= 1 /\ IsPath(p) /\ p # <<>>
  BY <1>2, <1>5, TreePaths
<1>7. stack = <<>> /\ step \in Walking /\ step # "record" /\ step # "increment"
  BY DEF ScanInv, StackOK, Walking
<1>8. ~Pending(p)
  BY <1>7 DEF Pending
<1>9. ~Reached(p)
  BY <1>6, <1>7, <1>8 DEF ScanInv, CompleteOK
<1>10. S!Front(p) # <<>> /\ S!Front(p) \notin S!Listed
  BY <1>7, <1>9 DEF Reached
<1>11. Len(p) > 1 /\ S!Front(p) \in Tree /\ Len(S!Front(p)) = Len(p) - 1
  <2>1. Len(p) > 1 /\ Len(S!Front(p)) = Len(p) - 1
    BY <1>6, <1>10, FrontFacts
  <2> QED
    BY <1>6, <2>1, TreePaths
<1>12. S!Front(p) \notin touched
  BY <1>6, <1>11 DEF ScanInv, TouchedOK
<1>13. kind[S!Front(p)] # "none"
  BY <1>6, <1>11 DEF ScanInv, S!TypeOK, S!Trees, S!IsTree
<1>14. S!Wanted(S!Front(p))
  BY <1>6, <1>11, WantedUp DEF ScanInv, SelectedOK
<1>15. S!Front(p) \in Missed
  BY <1>10, <1>11, <1>12, <1>13, <1>14
<1>16. Len(S!Front(p)) \in Lengths
  BY <1>2, <1>15
<1>17. m <= m - 1 /\ m \in Nat
  BY <1>4, <1>5, <1>6, <1>11, <1>16
<1> QED
  BY <1>17

LEMMA SelectionCorrect ==
  ASSUME ScanInv PROVE S!SelectionIsExact
<1>1. SUFFICES ASSUME step = "done" PROVE S!SelectionIsExact
  BY DEF S!SelectionIsExact
<1>2. selected \subseteq S!Listed
  BY <1>1 DEF ScanInv, EntriesOK
<1>3. ASSUME NEW p \in Tree
      PROVE  S!Wanted(p) <=> selected = {} \/ \E s \in selected : S!Related(s, p)
  BY TreePaths, WantedMeans DEF ScanInv, SelectedOK
<1>4. \A p \in S!Listed : p \in Tree /\ S!Wanted(p)
  BY DEF ScanInv, EntriesOK, S!Listed
<1>5. \A p \in S!Listed : p \notin touched => kind[p] # "none"
  BY DEF ScanInv, EntriesOK, S!Listed
<1>6. \A p \in Tree \ touched : kind[p] # "none" /\ S!Wanted(p) => p \in S!Listed
  BY <1>1, WalkIsComplete
<1>7. ASSUME NEW p \in Tree
      PROVE  LET wanted == selected = {} \/ \E s \in selected : S!Related(s, p) IN
             /\ p \in S!Listed => wanted
             /\ p \notin touched => (p \in S!Listed) = (wanted /\ kind[p] # "none")
  <2> DEFINE wanted == selected = {} \/ \E s \in selected : S!Related(s, p)
  <2>1. S!Wanted(p) <=> wanted
    BY <1>3
  <2> HIDE DEF wanted
  <2>2. p \in S!Listed => wanted
    BY <1>4, <2>1
  <2>3. p \notin touched => (p \in S!Listed) = (wanted /\ kind[p] # "none")
    BY <1>4, <1>5, <1>6, <2>1
  <2> QED
    BY <2>2, <2>3 DEF wanted
<1> QED
  BY <1>2, <1>7 DEF S!SelectionIsExact

-----------------------------------------------------------------------------
LEMMA ScanInit == S!Init => ScanInv
<1>1. SUFFICES ASSUME S!Init PROVE ScanInv
  OBVIOUS
<1>2. MaxChanges \in Nat
  BY ScanAssumption DEF S!TreeAssumption
<1>3. S!Listed = {}
  BY <1>1 DEF S!Init, S!Idle, S!Listed
<1>4. S!TypeOK
  <2>1. kind \in S!Trees /\ listing \in BOOLEAN /\ selected = {} /\ step = "normalize"
    BY <1>1 DEF S!Init
  <2>2. stack = <<>> /\ current = <<>> /\ isDirectory = FALSE
    BY <1>1 DEF S!Init, S!Idle
  <2>3. recorded \in [Tree -> S!Kinds]
    BY <1>1 DEF S!Init, S!Idle, S!Kinds
  <2>4. touched \subseteq Tree /\ changes \in 0..MaxChanges
    BY <1>1, <1>2 DEF S!Init
  <2>5. DOMAIN stack = {} /\ Len(stack) = 0
    BY <2>2
  <2>6. \A i \in 2..Len(stack) : FALSE
    BY <2>5
  <2> QED
    BY <2>1, <2>2, <2>3, <2>4, <2>5, <2>6 DEF S!TypeOK
<1>5. RequestOK
  BY <1>1, ScanAssumption DEF S!Init, RequestOK, S!TreeAssumption
<1>6. SelectedOK /\ StackOK /\ TouchedOK
  BY <1>1 DEF S!Init, S!Idle, SelectedOK, SelectedPaths, Walking, StackOK, TouchedOK
<1>7. CurrentOK /\ EntriesOK /\ CompleteOK /\ S!RefusedForAReason
  BY <1>1, <1>3 DEF S!Init, S!Idle, CurrentOK, EntriesOK, CompleteOK, Walking, S!RefusedForAReason
<1> QED
  BY <1>4, <1>5, <1>6, <1>7 DEF ScanInv

LEMMA ChangeKeeps ==
  ASSUME ScanInv, NEW q \in Tree, S!Change(q) PROVE ScanInv'
<1>1. PICK new \in S!Trees : /\ kind' = new
                           /\ \A p \in Tree \ S!Below(q) : new[p] = kind[p]
  BY DEF S!Change
<1>2. /\ step \in {"walk", "record", "increment"} /\ changes < MaxChanges
      /\ touched' = touched \cup S!Below(q) /\ changes' = changes + 1
      /\ listing' = listing /\ includes' = includes /\ selected' = selected /\ step' = step
      /\ stack' = stack /\ current' = current /\ isDirectory' = isDirectory
      /\ recorded' = recorded
  BY DEF S!Change, S!walk
<1>3. MaxChanges \in Nat
  BY ScanAssumption DEF S!TreeAssumption
<1>4. S!Below(q) \subseteq Tree
  BY DEF S!Below
<1>5. changes' \in 0..MaxChanges
  BY <1>2, <1>3 DEF ScanInv, S!TypeOK
<1>6. S!Listed' = S!Listed
  BY <1>2 DEF S!Listed
<1>7. \A p : S!Wanted(p)' <=> S!Wanted(p)
  BY <1>2 DEF S!Wanted, S!SelectsBelow, S!InsideSelection
<1>8. \A p \in Tree : p \notin touched' => p \notin touched /\ kind'[p] = kind[p]
  BY <1>1, <1>2
<1>9. S!TypeOK'
  BY <1>1, <1>2, <1>4, <1>5 DEF ScanInv, S!TypeOK, S!Children
<1>10. RequestOK' /\ SelectedOK' /\ StackOK'
  BY <1>2 DEF ScanInv, RequestOK, SelectedOK, SelectedPaths, StackOK, Open
<1>11. TouchedOK'
  <2>1. SUFFICES ASSUME NEW p \in Tree, Len(p) > 1, S!Front(p) \in touched' PROVE p \in touched'
    BY DEF TouchedOK
  <2>2. CASE S!Front(p) \in touched
    BY <1>2, <2>1, <2>2 DEF ScanInv, TouchedOK
  <2>3. CASE S!Front(p) \in S!Below(q)
    <3>1. S!IsPrefix(q, S!Front(p))
      BY <2>3 DEF S!Below
    <3>2. IsPath(q) /\ IsPath(p) /\ p # <<>>
      BY TreePaths
    <3>3. S!IsPrefix(q, p)
      BY <3>1, <3>2, PrefixOfFront
    <3> QED
      BY <1>2, <3>3 DEF S!Below
  <2> QED
    BY <1>2, <2>1, <2>2, <2>3
<1>12. CurrentOK'
  BY <1>2, <1>6, <1>8 DEF ScanInv, CurrentOK, StackOK
<1>13. EntriesOK'
  <2>1. \A p \in S!Listed : p \in Tree
    BY DEF S!Listed
  <2> QED
    BY <1>2, <1>6, <1>7, <1>8, <2>1 DEF ScanInv, EntriesOK
<1>14. CompleteOK'
  <2>1. \A p : Reached(p)' <=> Reached(p)
    BY <1>2, <1>6 DEF Reached
  <2>2. \A p : Pending(p)' <=> Pending(p)
    BY <1>2 DEF Pending
  <2> QED
    BY <1>2, <1>6, <1>7, <1>8, <2>1, <2>2 DEF ScanInv, CompleteOK
<1>15. S!RefusedForAReason'
  BY <1>2 DEF S!RefusedForAReason
<1> QED
  BY <1>9, <1>10, <1>11, <1>12, <1>13, <1>14, <1>15 DEF ScanInv

LEMMA NormalizeKeeps ==
  ASSUME ScanInv, S!NormalizeIncludes PROVE ScanInv'
<1>1. /\ step = "normalize" /\ listing' = listing /\ includes' = includes
      /\ current' = current /\ isDirectory' = isDirectory /\ recorded' = recorded
      /\ kind' = kind /\ touched' = touched /\ changes' = changes
  BY DEF S!NormalizeIncludes, S!others
<1>2. S!Listed = {} /\ S!Listed' = {}
  BY <1>1 DEF ScanInv, EntriesOK, S!Listed
<1>3. RequestOK' /\ TouchedOK'
  BY <1>1 DEF ScanInv, RequestOK, TouchedOK
<1>4. CASE \A raw \in includes : S!Proper(raw)
  <2>1. /\ selected' = {S!Clean(raw.parts) : raw \in includes}
        /\ stack' = <<[dir |-> <<>>, left |-> S!Children(<<>>)]>> /\ step' = "walk"
    BY <1>4 DEF S!NormalizeIncludes
  <2>2. SelectedPaths'
    <3>1. SUFFICES ASSUME NEW raw \in includes
                  PROVE  LET s == S!Clean(raw.parts) IN
                         IsPath(s) /\ s # <<>> /\ Here \notin S!Range(s)
      BY <2>1 DEF SelectedPaths
    <3>2. raw.parts \in Seq(S!Range(raw.parts))
      BY DEF ScanInv, RequestOK
    <3>3. S!Clean(raw.parts) # <<>>
      BY <1>4 DEF S!Proper
    <3> QED
      BY <3>2, <3>3, CleanIsClean DEF IsPath
  <2>3. SelectedOK'
    BY <1>1, <1>4, <2>1, <2>2 DEF SelectedOK, S!Proper
  <2> DEFINE opened == [dir |-> <<>>, left |-> S!Children(<<>>)]
  <2>4. opened \in Open /\ opened.dir = <<>> /\ opened.left = S!Children(<<>>)
    BY DEF Open, S!Children
  <2> HIDE DEF opened
  <2>5. stack' = <<opened>> /\ Len(stack') = 1 /\ stack'[1] = opened
    BY <2>1 DEF opened
  <2>6. StackOK'
    BY <2>1, <2>4, <2>5 DEF StackOK
  <2>7. S!TypeOK'
    <3>1. \A p \in selected' : p # <<>> /\ Here \notin S!Range(p)
      BY <2>2 DEF SelectedPaths
    <3>2. \A i \in DOMAIN stack' : stack'[i] = opened
      BY <2>5
    <3>3. \A i \in DOMAIN stack' : /\ stack'[i].dir \in Tree \cup {<<>>}
                                   /\ stack'[i].left \subseteq S!Children(stack'[i].dir)
      BY <2>4, <3>2
    <3>4. \A i \in 2..Len(stack') : S!Front(stack'[i].dir) = stack'[i - 1].dir
      BY <2>5
    <3> QED
      BY <1>1, <2>1, <3>1, <3>3, <3>4 DEF ScanInv, S!TypeOK
  <2>8. CurrentOK' /\ EntriesOK' /\ S!RefusedForAReason'
    BY <1>2, <2>1 DEF CurrentOK, EntriesOK, S!RefusedForAReason
  <2>9. CompleteOK'
    <3>1. SUFFICES ASSUME NEW p \in Tree, Reached(p)' PROVE Pending(p)'
      BY DEF CompleteOK
    <3>2. S!Front(p) = <<>>
      BY <1>2, <3>1 DEF Reached
    <3>3. p \in S!Children(<<>>)
      BY <3>2 DEF S!Children
    <3> QED
      BY <2>4, <2>5, <3>2, <3>3 DEF Pending
  <2> QED
    BY <1>3, <2>3, <2>6, <2>7, <2>8, <2>9 DEF ScanInv
<1>5. CASE ~\A raw \in includes : S!Proper(raw)
  <2>1. selected' = selected /\ stack' = stack /\ step' = "failed"
    BY <1>5 DEF S!NormalizeIncludes
  <2>2. S!TypeOK'
    BY <1>1, <2>1 DEF ScanInv, S!TypeOK, S!Children
  <2>3. SelectedOK' /\ StackOK'
    BY <1>1, <2>1 DEF ScanInv, SelectedOK, SelectedPaths, Walking, StackOK, Open
  <2>4. CurrentOK' /\ EntriesOK' /\ CompleteOK'
    BY <1>2, <2>1 DEF CurrentOK, EntriesOK, CompleteOK, Walking
  <2>5. S!RefusedForAReason'
    BY <1>1, <1>5 DEF S!RefusedForAReason, S!Proper
  <2> QED
    BY <1>3, <2>2, <2>3, <2>4, <2>5 DEF ScanInv
<1> QED
  BY <1>4, <1>5

\* The names that are still to be read, when one of them is taken.
LEMMA TakenName ==
  ASSUME NEW st \in Seq(Open), st # <<>>, NEW p
  PROVE  LET now == [st EXCEPT ![Len(st)].left = @ \ {p}] IN
         /\ now \in Seq(Open) /\ Len(now) = Len(st) /\ now # <<>>
         /\ \A i \in 1..Len(st) :
              /\ now[i].dir = st[i].dir
              /\ now[i].left = IF i = Len(st) THEN st[i].left \ {p} ELSE st[i].left
<1> DEFINE now == [st EXCEPT ![Len(st)].left = @ \ {p}]
           m == Len(st)
           top == [st[m] EXCEPT !.left = @ \ {p}]
<1>1. m \in Nat /\ m >= 1 /\ m \in 1..Len(st) /\ st[m] \in Open
  OBVIOUS
<1>2. top \in Open /\ top.dir = st[m].dir /\ top.left = st[m].left \ {p}
  BY <1>1 DEF Open
<1>3. now = [st EXCEPT ![m] = top]
  OBVIOUS
<1> HIDE DEF now, top
<1>4. now \in Seq(Open) /\ Len(now) = Len(st)
  BY <1>1, <1>2, <1>3
<1>5. \A i \in 1..Len(st) : now[i] = IF i = m THEN top ELSE st[i]
  BY <1>1, <1>2, <1>3
<1>6. now # <<>>
  BY <1>1, <1>4
<1>7. ASSUME NEW i \in 1..Len(st)
      PROVE  /\ now[i].dir = st[i].dir
             /\ now[i].left = IF i = m THEN st[i].left \ {p} ELSE st[i].left
  BY <1>2, <1>5
<1> QED
  BY <1>4, <1>6, <1>7 DEF now

LEMMA ReadNameKeeps ==
  ASSUME ScanInv, NEW q \in Tree, S!ReadName(q) PROVE ScanInv'
<1>1. /\ step = "walk" /\ stack # <<>> /\ q \in S!Last(stack).left
      /\ listing' = listing /\ includes' = includes /\ selected' = selected
      /\ recorded' = recorded /\ kind' = kind /\ touched' = touched /\ changes' = changes
      /\ stack' = [stack EXCEPT ![Len(stack)].left = @ \ {q}]
  BY DEF S!ReadName, S!others
<1>2. \/ kind[q] = "none" /\ step' = step /\ current' = current /\ isDirectory' = isDirectory
      \/ kind[q] # "none" /\ current' = q /\ isDirectory' = (kind[q] = "dir")
         /\ step' = "record"
  BY DEF S!ReadName
<1>3. /\ stack \in Seq(Open) /\ Len(stack) \in Nat /\ Len(stack) >= 1
      /\ S!Last(stack) = stack[Len(stack)] /\ Len(stack) \in 1..Len(stack)
      /\ DOMAIN stack = 1..Len(stack)
  BY <1>1 DEF ScanInv, StackOK, S!Last
<1>4. /\ stack' \in Seq(Open) /\ Len(stack') = Len(stack) /\ stack' # <<>>
      /\ \A i \in 1..Len(stack) :
           /\ stack'[i].dir = stack[i].dir
           /\ stack'[i].left = IF i = Len(stack) THEN stack[i].left \ {q} ELSE stack[i].left
  BY <1>1, <1>3, TakenName
<1>5. DOMAIN stack' = 1..Len(stack)
  BY <1>4
<1>6. S!Front(q) = S!Last(stack).dir /\ S!Last(stack)' = stack'[Len(stack)]
  <2>1. q \in S!Children(stack[Len(stack)].dir)
    BY <1>1, <1>3 DEF ScanInv, S!TypeOK
  <2> QED
    BY <1>3, <1>4, <2>1 DEF S!Children, S!Last
<1>7. S!Listed' = S!Listed
  BY <1>1 DEF S!Listed
<1>8. \A p : S!Wanted(p)' <=> S!Wanted(p)
  BY <1>1 DEF S!Wanted, S!SelectsBelow, S!InsideSelection
<1>9. S!TypeOK'
  <2>1. \A i \in DOMAIN stack' : /\ stack'[i].dir \in Tree \cup {<<>>}
                                 /\ stack'[i].left \subseteq S!Children(stack'[i].dir)
    BY <1>3, <1>4, <1>5 DEF ScanInv, S!TypeOK
  <2>2. \A i \in 2..Len(stack') : S!Front(stack'[i].dir) = stack'[i - 1].dir
    <3>1. SUFFICES ASSUME NEW i \in 2..Len(stack)
                  PROVE  S!Front(stack'[i].dir) = stack'[i - 1].dir
      BY <1>4
    <3>2. i \in 1..Len(stack) /\ i - 1 \in 1..Len(stack)
      BY <1>3
    <3>3. S!Front(stack[i].dir) = stack[i - 1].dir
      BY DEF ScanInv, S!TypeOK
    <3> QED
      BY <1>4, <3>2, <3>3
  <2>3. /\ step' \in {"walk", "record"} /\ current' \in Tree \cup {<<>>}
        /\ isDirectory' \in BOOLEAN
    BY <1>1, <1>2 DEF ScanInv, S!TypeOK
  <2>4. /\ kind' \in S!Trees /\ listing' \in BOOLEAN /\ recorded' \in [Tree -> S!Kinds]
        /\ touched' \subseteq Tree /\ changes' \in 0..MaxChanges
        /\ \A p \in selected' : p # <<>> /\ Here \notin S!Range(p)
    BY <1>1 DEF ScanInv, S!TypeOK
  <2> QED
    BY <2>1, <2>2, <2>3, <2>4 DEF S!TypeOK
<1>10. RequestOK' /\ TouchedOK'
  BY <1>1 DEF ScanInv, RequestOK, TouchedOK
<1>11. SelectedOK'
  BY <1>1, <1>2 DEF ScanInv, SelectedOK, SelectedPaths, Walking, S!Proper
<1>12. StackOK'
  <2>1. S!Front(q) = stack'[Len(stack)].dir
    BY <1>3, <1>4, <1>6
  <2>2. step' = "record" => current' = q
    BY <1>1, <1>2
  <2>3. step' \in {"walk", "record"}
    BY <1>1, <1>2
  <2> QED
    BY <1>4, <1>6, <2>1, <2>2, <2>3 DEF StackOK, Open
<1>13. CurrentOK' /\ S!RefusedForAReason'
  BY <1>1, <1>2 DEF CurrentOK, S!RefusedForAReason
<1>14. EntriesOK'
  <2>1. step' \in {"walk", "record"}
    BY <1>1, <1>2
  <2> QED
    BY <1>1, <1>7, <1>8, <2>1 DEF ScanInv, EntriesOK
<1>15. CompleteOK'
  <2>1. SUFFICES ASSUME NEW p \in Tree \ touched, kind[p] # "none", S!Wanted(p), Reached(p)',
                        p \notin S!Listed
                PROVE  Pending(p)'
    BY <1>1, <1>7, <1>8 DEF CompleteOK
  <2>2. Reached(p)
    BY <1>1, <1>7, <2>1 DEF Reached
  <2>3. PICK i \in 1..Len(stack) : stack[i].dir = S!Front(p) /\ p \in stack[i].left
    BY <1>1, <2>1, <2>2 DEF ScanInv, CompleteOK, Walking, Pending
  <2>4. CASE p = q
    BY <1>1, <1>2, <2>1, <2>4 DEF Pending
  <2>5. CASE p # q
    <3>1. stack'[i].dir = S!Front(p) /\ p \in stack'[i].left /\ i \in 1..Len(stack')
      BY <1>4, <2>3, <2>5
    <3> QED
      BY <3>1 DEF Pending
  <2> QED
    BY <2>4, <2>5
<1> QED
  BY <1>9, <1>10, <1>11, <1>12, <1>13, <1>14, <1>15 DEF ScanInv

LEMMA LeaveKeeps ==
  ASSUME ScanInv, S!Leave PROVE ScanInv'
<1>1. /\ step = "walk" /\ stack # <<>> /\ S!Last(stack).left = {}
      /\ listing' = listing /\ includes' = includes /\ selected' = selected
      /\ current' = current /\ isDirectory' = isDirectory
      /\ recorded' = recorded /\ kind' = kind /\ touched' = touched /\ changes' = changes
      /\ stack' = S!Front(stack) /\ step' = IF Len(stack) = 1 THEN "check" ELSE "walk"
  BY DEF S!Leave, S!others
<1>2. /\ stack \in Seq(Open) /\ Len(stack) \in Nat /\ Len(stack) >= 1
      /\ S!Last(stack) = stack[Len(stack)]
      /\ DOMAIN stack = 1..Len(stack)
  BY <1>1 DEF ScanInv, StackOK, S!Last
<1>3. /\ stack' \in Seq(Open) /\ Len(stack') = Len(stack) - 1
      /\ \A i \in 1..Len(stack) - 1 : stack'[i] = stack[i]
  <2>1. stack' = SubSeq(stack, 1, Len(stack) - 1)
    BY <1>1 DEF S!Front
  <2> QED
    BY <1>2, <2>1
<1>4. DOMAIN stack' = 1..Len(stack) - 1 /\ (step' = "check" => stack' = <<>>)
  BY <1>1, <1>2, <1>3
<1>5. S!Listed' = S!Listed
  BY <1>1 DEF S!Listed
<1>6. \A p : S!Wanted(p)' <=> S!Wanted(p)
  BY <1>1 DEF S!Wanted, S!SelectsBelow, S!InsideSelection
<1>7. step' \in {"walk", "check"}
  BY <1>1
<1>8. S!TypeOK'
  <2>1. \A i \in DOMAIN stack' : /\ stack'[i].dir \in Tree \cup {<<>>}
                                 /\ stack'[i].left \subseteq S!Children(stack'[i].dir)
    BY <1>2, <1>3, <1>4 DEF ScanInv, S!TypeOK
  <2>2. \A i \in 2..Len(stack') : S!Front(stack'[i].dir) = stack'[i - 1].dir
    <3>1. SUFFICES ASSUME NEW i \in 2..Len(stack) - 1
                  PROVE  S!Front(stack'[i].dir) = stack'[i - 1].dir
      BY <1>3
    <3>2. i \in 1..Len(stack) - 1 /\ i - 1 \in 1..Len(stack) - 1 /\ i \in 2..Len(stack)
      BY <1>2
    <3>3. S!Front(stack[i].dir) = stack[i - 1].dir
      BY <3>2 DEF ScanInv, S!TypeOK
    <3> QED
      BY <1>3, <3>2, <3>3
  <2>3. /\ kind' \in S!Trees /\ listing' \in BOOLEAN /\ recorded' \in [Tree -> S!Kinds]
        /\ touched' \subseteq Tree /\ changes' \in 0..MaxChanges
        /\ current' \in Tree \cup {<<>>} /\ isDirectory' \in BOOLEAN
        /\ \A p \in selected' : p # <<>> /\ Here \notin S!Range(p)
    BY <1>1 DEF ScanInv, S!TypeOK
  <2> QED
    BY <1>7, <2>1, <2>2, <2>3 DEF S!TypeOK
<1>9. RequestOK' /\ TouchedOK'
  BY <1>1 DEF ScanInv, RequestOK, TouchedOK
<1>10. SelectedOK'
  BY <1>1, <1>7 DEF ScanInv, SelectedOK, SelectedPaths, Walking, S!Proper
<1>11. StackOK'
  BY <1>3, <1>4, <1>7 DEF StackOK, Open
<1>12. CurrentOK' /\ S!RefusedForAReason'
  BY <1>7 DEF CurrentOK, S!RefusedForAReason
<1>13. EntriesOK'
  BY <1>1, <1>5, <1>6, <1>7 DEF ScanInv, EntriesOK
<1>14. CompleteOK'
  <2>1. SUFFICES ASSUME NEW p \in Tree \ touched, kind[p] # "none", S!Wanted(p), Reached(p)',
                        p \notin S!Listed
                PROVE  Pending(p)'
    BY <1>1, <1>5, <1>6 DEF CompleteOK
  <2>2. Reached(p)
    BY <1>1, <1>5, <2>1 DEF Reached
  <2>3. PICK i \in 1..Len(stack) : stack[i].dir = S!Front(p) /\ p \in stack[i].left
    BY <1>1, <2>1, <2>2 DEF ScanInv, CompleteOK, Walking, Pending
  <2>4. i # Len(stack)
    BY <1>1, <1>2, <2>3
  <2>5. i \in 1..Len(stack) - 1 /\ i \in 1..Len(stack')
    <3>1. Len(stack) \in Nat /\ i \in 1..Len(stack) /\ Len(stack') = Len(stack) - 1
      BY <1>2, <1>3
    <3> QED
      BY ONLY <2>4, <3>1
  <2> QED
    BY <1>3, <2>3, <2>5 DEF Pending
<1> QED
  BY <1>8, <1>9, <1>10, <1>11, <1>12, <1>13, <1>14 DEF ScanInv

LEMMA RecordKeeps ==
  ASSUME ScanInv, S!Record PROVE ScanInv'
<1>1. /\ step = "record" /\ stack' = stack
      /\ listing' = listing /\ includes' = includes /\ selected' = selected
      /\ current' = current /\ isDirectory' = isDirectory
      /\ kind' = kind /\ touched' = touched /\ changes' = changes
  BY DEF S!Record, S!others
<1>2. \/ ~S!Wanted(current) /\ step' = "walk" /\ recorded' = recorded
      \/ S!Wanted(current) /\ kind[current] = "none" /\ step' = "failed" /\ recorded' = recorded
      \/ S!Wanted(current) /\ kind[current] # "none" /\ step' = "increment"
         /\ recorded' = [recorded EXCEPT ![current] = kind[current]]
  BY DEF S!Record
<1>3. /\ current \in Tree /\ stack # <<>> /\ S!Front(current) = S!Last(stack).dir
      /\ current \notin touched => kind[current] # "none"
                                   /\ isDirectory = (kind[current] = "dir")
  BY <1>1 DEF ScanInv, StackOK, CurrentOK
<1>4. /\ recorded \in [Tree -> S!Kinds] /\ kind \in [Tree -> S!Kinds]
      /\ kind \in S!Trees /\ S!Last(stack)' = S!Last(stack)
  BY <1>1 DEF ScanInv, S!TypeOK, S!Trees, S!Last
<1>5. \A p : S!Wanted(p)' <=> S!Wanted(p)
  BY <1>1 DEF S!Wanted, S!SelectsBelow, S!InsideSelection
<1>6. step' \in {"walk", "failed", "increment"} /\ recorded' \in [Tree -> S!Kinds]
  BY <1>2, <1>3, <1>4
<1>7. /\ S!Listed \subseteq S!Listed'
      /\ \A p \in S!Listed' : p # current => p \in S!Listed /\ recorded'[p] = recorded[p]
  BY <1>2, <1>3, <1>4 DEF S!Listed
<1>8. step' = "increment" =>
        S!Wanted(current) /\ current \in S!Listed' /\ recorded'[current] = kind[current]
  BY <1>2, <1>3, <1>4 DEF S!Listed
<1>9. step' # "increment" => recorded' = recorded /\ S!Listed' = S!Listed
  BY <1>2 DEF S!Listed
<1>10. S!TypeOK'
  BY <1>1, <1>6 DEF ScanInv, S!TypeOK, S!Children
<1>11. RequestOK' /\ TouchedOK'
  BY <1>1 DEF ScanInv, RequestOK, TouchedOK
<1>12. SelectedOK' /\ StackOK'
  BY <1>1, <1>3, <1>4, <1>6
  DEF ScanInv, SelectedOK, SelectedPaths, Walking, S!Proper, StackOK, Open
<1>13. CurrentOK'
  BY <1>1, <1>3, <1>6, <1>8 DEF CurrentOK
<1>14. EntriesOK'
  <2>1. ASSUME NEW p \in S!Listed' PROVE S!Wanted(p)' /\ (p \notin touched => recorded'[p] = kind[p])
    <3>1. CASE step' = "increment" /\ p = current
      BY <1>5, <1>8, <3>1
    <3>2. CASE p \in S!Listed /\ recorded'[p] = recorded[p]
      BY <1>5, <3>2 DEF ScanInv, EntriesOK
    <3> QED
      BY <1>7, <1>9, <2>1, <3>1, <3>2
  <2> QED
    BY <1>1, <1>6, <2>1 DEF EntriesOK
<1>15. CompleteOK'
  <2>1. SUFFICES ASSUME NEW p \in Tree \ touched, kind[p] # "none", S!Wanted(p), Reached(p)',
                        p \notin S!Listed', step' # "failed"
                PROVE  Pending(p)'
    BY <1>1, <1>5 DEF CompleteOK, Walking
  <2>2. p # current
    BY <1>2, <1>8, <1>6, <2>1
  <2>3. p \notin S!Listed
    BY <1>7, <2>1
  <2>4. Reached(p)
    <3>1. CASE S!Front(p) = <<>>
      BY <3>1 DEF Reached
    <3>2. CASE S!Front(p) \in S!Listed' /\ ~(step' = "increment" /\ current = S!Front(p))
      <4>1. S!Front(p) \in S!Listed
        BY <1>7, <1>9, <3>2
      <4> QED
        BY <1>1, <4>1 DEF Reached
    <3> QED
      BY <1>1, <2>1, <3>1, <3>2 DEF Reached
  <2>5. PICK i \in 1..Len(stack) : stack[i].dir = S!Front(p) /\ p \in stack[i].left
    BY <1>1, <2>1, <2>2, <2>3, <2>4 DEF ScanInv, CompleteOK, Walking, Pending
  <2> QED
    BY <1>1, <2>5 DEF Pending
<1>16. S!RefusedForAReason'
  <2>1. step' = "failed" => touched # {}
    BY <1>2, <1>3
  <2> QED
    BY <1>1, <2>1 DEF S!RefusedForAReason
<1> QED
  BY <1>10, <1>11, <1>12, <1>13, <1>14, <1>15, <1>16 DEF ScanInv

LEMMA IncrementKeeps ==
  ASSUME ScanInv, S!Increment PROVE ScanInv'
<1>1. /\ step = "increment"
      /\ listing' = listing /\ includes' = includes /\ selected' = selected
      /\ current' = current /\ isDirectory' = isDirectory /\ recorded' = recorded
      /\ kind' = kind /\ touched' = touched /\ changes' = changes
  BY DEF S!Increment, S!others
<1> DEFINE opened == [dir |-> current, left |-> S!Children(current)]
<1>2. \/ ~isDirectory /\ step' = "walk" /\ stack' = stack
      \/ isDirectory /\ kind[current] # "dir" /\ step' = "failed" /\ stack' = stack
      \/ isDirectory /\ kind[current] = "dir" /\ step' = "walk" /\ stack' = Append(stack, opened)
  BY DEF S!Increment
<1>3. /\ current \in Tree /\ stack # <<>> /\ S!Front(current) = S!Last(stack).dir
      /\ current \notin touched => kind[current] # "none"
                                   /\ isDirectory = (kind[current] = "dir")
      /\ current \in S!Listed
  BY <1>1 DEF ScanInv, StackOK, CurrentOK
<1>4. /\ stack \in Seq(Open) /\ Len(stack) \in Nat /\ Len(stack) >= 1
      /\ S!Last(stack) = stack[Len(stack)] /\ DOMAIN stack = 1..Len(stack)
  BY <1>3 DEF ScanInv, StackOK, S!Last
<1>5. opened \in Open /\ opened.dir = current /\ opened.left = S!Children(current)
  BY <1>3 DEF Open, S!Children
<1> HIDE DEF opened
<1>6. /\ Append(stack, opened) \in Seq(Open) /\ Len(Append(stack, opened)) = Len(stack) + 1
      /\ Append(stack, opened)[Len(stack) + 1] = opened
      /\ \A i \in 1..Len(stack) : Append(stack, opened)[i] = stack[i]
      /\ DOMAIN Append(stack, opened) = 1..Len(stack) + 1
  BY <1>4, <1>5
<1>7. stack' \in Seq(Open) /\ step' \in {"walk", "failed"}
  BY <1>2, <1>4, <1>6
<1>8. S!Listed' = S!Listed
  BY <1>1 DEF S!Listed
<1>9. \A p : S!Wanted(p)' <=> S!Wanted(p)
  BY <1>1 DEF S!Wanted, S!SelectsBelow, S!InsideSelection
<1>10. S!TypeOK'
  <2>1. /\ kind' \in S!Trees /\ listing' \in BOOLEAN /\ recorded' \in [Tree -> S!Kinds]
        /\ touched' \subseteq Tree /\ changes' \in 0..MaxChanges
        /\ current' \in Tree \cup {<<>>} /\ isDirectory' \in BOOLEAN
        /\ \A p \in selected' : p # <<>> /\ Here \notin S!Range(p)
    BY <1>1 DEF ScanInv, S!TypeOK
  <2>2. CASE stack' = stack
    BY <1>7, <2>1, <2>2 DEF ScanInv, S!TypeOK, S!Children
  <2>3. CASE stack' = Append(stack, opened)
    <3>1. ASSUME NEW i \in DOMAIN stack'
          PROVE  /\ stack'[i].dir \in Tree \cup {<<>>}
                 /\ stack'[i].left \subseteq S!Children(stack'[i].dir)
      <4>1. CASE i = Len(stack) + 1
        BY <1>3, <1>5, <1>6, <2>3, <4>1
      <4>2. CASE i \in 1..Len(stack)
        BY <1>4, <1>6, <2>3, <4>2 DEF ScanInv, S!TypeOK
      <4> QED
        BY <1>4, <1>6, <2>3, <3>1, <4>1, <4>2
    <3>2. ASSUME NEW i \in 2..Len(stack')
          PROVE  S!Front(stack'[i].dir) = stack'[i - 1].dir
      <4>1. i \in 2..Len(stack) + 1
        BY <1>6, <2>3, <3>2
      <4>2. CASE i = Len(stack) + 1
        <5>1. i - 1 = Len(stack) /\ i - 1 \in 1..Len(stack)
          BY <1>4, <4>2
        <5> QED
          BY <1>3, <1>4, <1>5, <1>6, <2>3, <4>2, <5>1
      <4>3. CASE i # Len(stack) + 1
        <5>1. i \in 1..Len(stack) /\ i - 1 \in 1..Len(stack) /\ i \in 2..Len(stack)
          BY <1>4, <4>1, <4>3
        <5>2. S!Front(stack[i].dir) = stack[i - 1].dir
          BY <5>1 DEF ScanInv, S!TypeOK
        <5> QED
          BY <1>6, <2>3, <5>1, <5>2
      <4> QED
        BY <4>2, <4>3
    <3> QED
      BY <1>7, <2>1, <3>1, <3>2 DEF S!TypeOK
  <2> QED
    BY <1>2, <2>2, <2>3
<1>11. RequestOK' /\ TouchedOK'
  BY <1>1 DEF ScanInv, RequestOK, TouchedOK
<1>12. SelectedOK' /\ StackOK'
  BY <1>1, <1>7 DEF ScanInv, SelectedOK, SelectedPaths, Walking, S!Proper, StackOK, Open
<1>13. CurrentOK'
  BY <1>7 DEF CurrentOK
<1>14. EntriesOK'
  BY <1>1, <1>7, <1>8, <1>9 DEF ScanInv, EntriesOK
<1>15. CompleteOK'
  <2>1. SUFFICES ASSUME NEW p \in Tree \ touched, kind[p] # "none", S!Wanted(p), Reached(p)',
                        p \notin S!Listed, step' # "failed"
                PROVE  Pending(p)'
    BY <1>1, <1>8, <1>9 DEF CompleteOK, Walking
  <2>2. CASE S!Front(p) = current
    <3>1. IsPath(p) /\ p # <<>> /\ IsPath(current) /\ current # <<>>
      BY <1>3, TreePaths
    <3>2. Len(p) > 1
      <4>1. /\ Len(p) \in Nat /\ Len(p) >= 1
            /\ S!Front(p) = <<>> <=> Len(p) = 1
        BY <3>1, FrontFacts
      <4>2. S!Front(p) # <<>>
        BY <2>2, <3>1
      <4>3. Len(p) # 1
        BY <3>1, <4>2, FrontFacts
      <4>4. Len(p) \in Nat /\ Len(p) >= 1
        BY <3>1, FrontFacts
      <4> QED
        BY ONLY <4>3, <4>4
    <3>3. current \notin touched
      BY <2>1, <2>2, <3>2 DEF ScanInv, TouchedOK
    <3>4. kind[current] = "dir"
      BY <2>1, <2>2, <3>2 DEF ScanInv, S!TypeOK, S!Trees, S!IsTree
    <3>5. stack' = Append(stack, opened)
      BY <1>2, <1>3, <3>3, <3>4
    <3>6. p \in S!Children(current)
      BY <2>2 DEF S!Children
    <3>7. Len(stack) + 1 \in 1..Len(stack')
      BY <1>4, <1>6, <3>5
    <3> QED
      BY <1>5, <1>6, <2>2, <3>5, <3>6, <3>7 DEF Pending
  <2>3. CASE S!Front(p) # current
    <3>1. Reached(p)
      BY <1>8, <2>1, <2>3 DEF Reached
    <3>2. PICK i \in 1..Len(stack) : stack[i].dir = S!Front(p) /\ p \in stack[i].left
      BY <1>1, <2>1, <3>1 DEF ScanInv, CompleteOK, Walking, Pending
    <3>3. stack'[i] = stack[i] /\ i \in 1..Len(stack')
      BY <1>2, <1>4, <1>6, <3>2
    <3> QED
      BY <3>2, <3>3 DEF Pending
  <2> QED
    BY <2>2, <2>3
<1>16. S!RefusedForAReason'
  <2>1. step' = "failed" => touched # {}
    BY <1>2, <1>3
  <2> QED
    BY <1>1, <2>1 DEF S!RefusedForAReason
<1> QED
  BY <1>10, <1>11, <1>12, <1>13, <1>14, <1>15, <1>16 DEF ScanInv

LEMMA CheckKeeps ==
  ASSUME ScanInv, S!CheckSelection PROVE ScanInv'
<1>1. /\ step = "check" /\ step' = IF selected \subseteq S!Listed THEN "done" ELSE "failed"
      /\ listing' = listing /\ includes' = includes /\ selected' = selected /\ stack' = stack
      /\ current' = current /\ isDirectory' = isDirectory /\ recorded' = recorded
      /\ kind' = kind /\ touched' = touched /\ changes' = changes
  BY DEF S!CheckSelection, S!walk, S!others
<1>2. S!Listed' = S!Listed /\ \A p : S!Wanted(p)' <=> S!Wanted(p)
  BY <1>1 DEF S!Listed, S!Wanted, S!SelectsBelow, S!InsideSelection
<1>3. step' \in {"done", "failed"}
  BY <1>1
<1>4. S!TypeOK'
  BY <1>1, <1>3 DEF ScanInv, S!TypeOK, S!Children
<1>5. RequestOK' /\ TouchedOK'
  BY <1>1 DEF ScanInv, RequestOK, TouchedOK
<1>6. SelectedOK' /\ StackOK'
  BY <1>1, <1>3 DEF ScanInv, SelectedOK, SelectedPaths, Walking, S!Proper, StackOK, Open
<1>7. CurrentOK'
  BY <1>3 DEF CurrentOK
<1>8. EntriesOK'
  BY <1>1, <1>2, <1>3 DEF ScanInv, EntriesOK
<1>9. CompleteOK'
  <2>1. \A p : Reached(p)' => Reached(p)
    BY <1>1, <1>2 DEF Reached
  <2>2. \A p : Pending(p) => Pending(p)'
    BY <1>1 DEF Pending
  <2> QED
    BY <1>1, <1>2, <2>1, <2>2 DEF ScanInv, CompleteOK, Walking
<1>10. S!RefusedForAReason'
  <2>1. SUFFICES ASSUME step' = "failed", touched = {}
                PROVE  \E raw \in includes : S!Clean(raw.parts) \notin Tree
                                            \/ kind[S!Clean(raw.parts)] = "none"
    BY <1>1 DEF S!RefusedForAReason
  <2>2. PICK s \in selected : s \notin S!Listed
    BY <1>1, <2>1
  <2>3. PICK raw \in includes : s = S!Clean(raw.parts)
    BY <1>1, <2>2 DEF ScanInv, SelectedOK, Walking
  <2>4. ASSUME s \in Tree, kind[s] # "none" PROVE FALSE
    <3>1. S!Wanted(s)
      BY <2>2 DEF S!Wanted
    <3> QED
      BY <1>1, <2>1, <2>2, <2>4, <3>1, WalkIsComplete
  <2> QED
    BY <2>3, <2>4
<1> QED
  BY <1>4, <1>5, <1>6, <1>7, <1>8, <1>9, <1>10 DEF ScanInv

LEMMA SelectKeeps ==
  ASSUME ScanInv, S!SelectFromListing PROVE ScanInv'
<1>1. /\ step = "done" /\ step' = "normalize" /\ listing' = FALSE
      /\ stack' = <<>> /\ current' = <<>> /\ isDirectory' = FALSE
      /\ recorded' = [p \in Tree |-> "none"] /\ selected' = selected
      /\ kind' = kind /\ touched' = touched /\ changes' = changes
  BY DEF S!SelectFromListing, S!others
<1>2. PICK chosen \in SUBSET S!Listed : includes' = {[absolute |-> FALSE, parts |-> p] : p \in chosen}
  BY DEF S!SelectFromListing
<1>3. S!Listed' = {}
  BY <1>1 DEF S!Listed
<1>4. RequestOK'
  <2>1. \A p \in chosen : p \in Seq(S!Range(p))
    BY TreePaths DEF S!Listed, IsPath
  <2>2. \A raw \in includes' : \E p \in chosen : raw.parts = p
    BY <1>2
  <2> QED
    BY <2>1, <2>2 DEF RequestOK
<1>5. S!TypeOK'
  <2>1. DOMAIN stack' = {} /\ Len(stack') = 0
    BY <1>1
  <2>2. \A i \in 2..Len(stack') : FALSE
    BY <2>1
  <2>3. recorded' \in [Tree -> S!Kinds]
    BY <1>1 DEF S!Kinds
  <2> QED
    BY <1>1, <2>1, <2>2, <2>3 DEF ScanInv, S!TypeOK
<1>6. SelectedOK' /\ StackOK' /\ TouchedOK'
  BY <1>1 DEF ScanInv, SelectedOK, SelectedPaths, Walking, StackOK, TouchedOK
<1>7. CurrentOK' /\ EntriesOK' /\ CompleteOK' /\ S!RefusedForAReason'
  BY <1>1, <1>3 DEF CurrentOK, EntriesOK, CompleteOK, Walking, S!RefusedForAReason
<1> QED
  BY <1>4, <1>5, <1>6, <1>7 DEF ScanInv

LEMMA AbortKeeps ==
  ASSUME ScanInv, S!Abort PROVE ScanInv'
<1>1. /\ step \in {"walk", "record", "increment"} /\ step' = "aborted"
      /\ listing' = listing /\ includes' = includes /\ selected' = selected /\ stack' = stack
      /\ current' = current /\ isDirectory' = isDirectory /\ recorded' = recorded
      /\ kind' = kind /\ touched' = touched /\ changes' = changes
  BY DEF S!Abort, S!walk, S!others
<1>2. S!Listed' = S!Listed /\ \A p : S!Wanted(p)' <=> S!Wanted(p)
  BY <1>1 DEF S!Listed, S!Wanted, S!SelectsBelow, S!InsideSelection
<1>3. S!TypeOK' /\ RequestOK' /\ TouchedOK'
  BY <1>1 DEF ScanInv, S!TypeOK, S!Children, RequestOK, TouchedOK
<1>4. SelectedOK' /\ StackOK'
  BY <1>1 DEF ScanInv, SelectedOK, SelectedPaths, Walking, StackOK, Open
<1>5. CurrentOK' /\ CompleteOK' /\ S!RefusedForAReason'
  BY <1>1 DEF CurrentOK, CompleteOK, Walking, S!RefusedForAReason
<1>6. EntriesOK'
  BY <1>1, <1>2 DEF ScanInv, EntriesOK
<1> QED
  BY <1>3, <1>4, <1>5, <1>6 DEF ScanInv

LEMMA ScanNext == ScanInv /\ [S!Next]_S!vars => ScanInv'
<1>1. SUFFICES ASSUME ScanInv, [S!Next]_S!vars PROVE ScanInv'
  OBVIOUS
<1>2. CASE UNCHANGED S!vars
  <2>1. /\ step' = step /\ listing' = listing /\ includes' = includes /\ selected' = selected
        /\ stack' = stack /\ current' = current /\ isDirectory' = isDirectory
        /\ recorded' = recorded /\ kind' = kind /\ touched' = touched /\ changes' = changes
    BY <1>2 DEF S!vars, S!walk, S!others
  <2>2. S!Listed' = S!Listed /\ \A p : S!Wanted(p)' <=> S!Wanted(p)
    BY <2>1 DEF S!Listed, S!Wanted, S!SelectsBelow, S!InsideSelection
  <2>3. \A p : (Reached(p)' <=> Reached(p)) /\ (Pending(p)' <=> Pending(p))
    BY <2>1, <2>2 DEF Reached, Pending
  <2>4. S!TypeOK' /\ RequestOK' /\ TouchedOK' /\ SelectedOK' /\ StackOK'
    BY <1>1, <2>1
    DEF ScanInv, S!TypeOK, S!Children, RequestOK, TouchedOK, SelectedOK, SelectedPaths, StackOK, Open
  <2>5. CurrentOK' /\ EntriesOK' /\ CompleteOK' /\ S!RefusedForAReason'
    BY <1>1, <2>1, <2>2, <2>3
    DEF ScanInv, CurrentOK, EntriesOK, CompleteOK, S!RefusedForAReason
  <2> QED
    BY <2>4, <2>5 DEF ScanInv
<1> QED
  BY <1>1, <1>2, ChangeKeeps, ReadNameKeeps, NormalizeKeeps, LeaveKeeps, RecordKeeps,
     IncrementKeeps, CheckKeeps, SelectKeeps, AbortKeeps DEF S!Next

-----------------------------------------------------------------------------
\* The engine: one call at a time, each as in its own module.

\* Whatever the source holds and whoever changes it, a finished scan has every
\* selected entry, nothing unrelated, and of what nobody has moved all that is
\* related to a selected one; undisturbed it fails only for a reason
\* (normalizeIncludes, scanDirectory).
THEOREM ScanCorrect == MCSpec => []ScanIsExact
<1> DEFINE I == active = "scan" => ScanInv
<1>1. MCInit => I
  BY ScanInit DEF MCInit
<1>2. I /\ [MCNext]_mcVars => I'
  <2> SUFFICES ASSUME I, [MCNext]_mcVars, active' = "scan" PROVE ScanInv'
    OBVIOUS
  <2>1. active = "scan"
    BY DEF MCNext, mcVars
  <2>2. [S!Next]_S!vars
    BY <2>1 DEF MCNext, mcVars, scanOnly, S!vars, S!walk, S!others
  <2> QED
    BY <2>1, <2>2, ScanNext
<1>3. I => ScanIsExact
  <2>1. ScanInv => S!TypeOK /\ S!SelectionIsExact /\ S!RefusedForAReason
    BY SelectionCorrect DEF ScanInv
  <2> QED
    BY <2>1 DEF ScanIsExact
<1> QED
  BY <1>1, <1>2, <1>3, PTL DEF MCSpec

-----------------------------------------------------------------------------
(* A restore, for any archive that validateEntries accepts and whatever     *)
(* other programs do to the destination.                                    *)
(*                                                                          *)
(* The temporary node is strengthened stage by stage: by the time it can be *)
(* committed it is whole.  What has been committed is exactly the leaves    *)
(* before the current entry.  The space the extraction takes stays below    *)
(* what the preflight has accounted for, entry by entry.                    *)

\* The assumptions on the archive and the bounds.
Accepted == T!EntriesAssumption /\ T!BoundsAssumption /\ T!SentinelAssumption

\* The leaves before the n-th entry.
Before(n) == {Entries[j].path : j \in {i \in 1..Len(Entries) : i < n /\ Entries[i].type # "Directory"}}

Handling == {"write", "metadata", "sync", "commit", "unlink"}
Leaving == Handling \cup {"next"}

TemporaryOK ==
  /\ step \in Handling => /\ k <= Len(Entries) /\ T!Current.type # "Directory" /\ tmp \in T!Leaves
                          /\ T!Current.type # "Hardlink" => tmp = T!Current.path
  /\ step \in {"write", "sync"} => T!Current.type = "Regular"
  /\ step = "metadata" => tmp \in full /\ T!Current.type \in {"Regular", "Special"}
  /\ step = "sync" => tmp \in full \cap meta
  /\ step \in {"commit", "unlink"} =>
       /\ tmp \in full \cap meta /\ (T!Of(tmp).type = "Regular" => tmp \in restored)
       /\ T!Current.type = "Hardlink" => tmp = T!Current.link
  /\ restored \subseteq full \cap meta \cap T!Leaves

NodesOK ==
  \A p \in T!Leaves : T!Exists(p) /\ ~T!IsForeign(p) => node[p].inode \in T!Leaves

CommittedOK ==
  /\ step \in {"preflight", "directories"} => committed = {}
  /\ step \in Leaving \ {"unlink"} => committed = Before(k)
  /\ step = "unlink" => committed = Before(k + 1)
  /\ step \in {"directoryMetadata", "done"} => committed = T!Leaves
  /\ step = "directoryMetadata" => seen \subseteq meta
  /\ step = "done" => T!Directories \subseteq meta

CountOK ==
  /\ step \in {"preflight", "directories"} => entryCount = 0
  /\ step \in Leaving => entryCount < k

RestoreInv ==
  /\ T!TypeOK /\ TemporaryOK /\ NodesOK /\ T!CommittedIsWhole /\ T!CommittedIsTheEntry /\ CommittedOK
  /\ CountOK

-----------------------------------------------------------------------------
\* The entries as a sequence without repetition.
LEMMA EntryFacts ==
  ASSUME Accepted
  PROVE  /\ Len(Entries) \in Nat /\ DOMAIN Entries = 1..Len(Entries)
         /\ \A j \in 1..Len(Entries) : T!Of(Entries[j].path) = Entries[j] /\ Entries[j].path \in T!Paths
         /\ \A j \in 1..Len(Entries) : Entries[j].path \in T!Leaves <=> Entries[j].type # "Directory"
         /\ \A p \in T!Paths : \E j \in 1..Len(Entries) : p = Entries[j].path /\ T!Of(p) = Entries[j]
         /\ \A p \in T!Paths : T!Of(p).parent \notin T!Leaves
         /\ T!Leaves \subseteq T!Paths /\ T!Directories \subseteq T!Paths /\ T!Leaves \cap T!Directories = {}
         /\ Nothing \notin T!Paths /\ Foreign \notin T!Paths /\ Nothing \notin T!Node
         /\ \A j \in 1..Len(Entries) : Entries[j].size \in Nat /\ Entries[j].type \in T!Types
<1>1. Len(Entries) \in Nat /\ DOMAIN Entries = 1..Len(Entries)
  BY DEF Accepted, T!EntriesAssumption
<1>2. \A j \in 1..Len(Entries) : T!Of(Entries[j].path) = Entries[j] /\ Entries[j].path \in T!Paths
  BY <1>1 DEF Accepted, T!EntriesAssumption, T!Of, T!Paths
<1>3. \A p \in T!Paths : \E j \in 1..Len(Entries) : p = Entries[j].path /\ T!Of(p) = Entries[j]
  BY <1>1, <1>2 DEF T!Paths
<1>4. \A j \in 1..Len(Entries) : Entries[j].path \in T!Leaves <=> Entries[j].type # "Directory"
  BY <1>2 DEF T!Leaves, T!Directories
<1>5. ASSUME NEW p \in T!Paths PROVE T!Of(p).parent \notin T!Leaves
  <2>1. T!Of(p).parent # Nothing => T!Of(p).parent \in T!Directories
    BY <1>1, <1>3 DEF Accepted, T!EntriesAssumption
  <2> QED
    BY <2>1 DEF Accepted, T!SentinelAssumption, T!Leaves
<1> QED
  BY <1>1, <1>2, <1>3, <1>4, <1>5
     DEF Accepted, T!EntriesAssumption, T!SentinelAssumption, T!Leaves, T!Directories

\* What stands at a path.
LEMMA NodeFacts ==
  ASSUME Accepted
  PROVE  /\ T!ForeignDir \in T!Node /\ T!ForeignDir # Nothing /\ T!ForeignDir.inode = Foreign
         /\ T!ForeignFile(0, 1) \in T!Node /\ T!ForeignFile(T!MaxSize, 1) \in T!Node
         /\ T!ForeignFile(T!MaxSize, 2) \in T!Node
         /\ \A s, l : T!ForeignFile(s, l).inode = Foreign
         /\ \A t \in {"file", "dir"}, i \in T!Paths :
              /\ T!Ours(t, i) \in T!Node /\ T!Ours(t, i) # Nothing /\ T!Ours(t, i).inode = i
              /\ T!Ours(t, i).type = t /\ T!Ours(t, i).inode # Foreign
<1>1. Nothing \notin T!Node /\ Foreign \notin T!Paths
  BY DEF Accepted, T!SentinelAssumption
<1>2. /\ T!ForeignDir \in T!Node /\ T!ForeignFile(0, 1) \in T!Node /\ T!ForeignFile(T!MaxSize, 1) \in T!Node
      /\ T!ForeignFile(T!MaxSize, 2) \in T!Node /\ T!ForeignDir.inode = Foreign
  BY DEF T!ForeignDir, T!ForeignFile, T!Node, T!MaxSize
<1>3. ASSUME NEW t \in {"file", "dir"}, NEW i \in T!Paths
      PROVE  /\ T!Ours(t, i) \in T!Node /\ T!Ours(t, i) # Nothing /\ T!Ours(t, i).inode = i
             /\ T!Ours(t, i).type = t /\ T!Ours(t, i).inode # Foreign
  <2>1. T!Ours(t, i) \in T!Node /\ T!Ours(t, i).inode = i /\ T!Ours(t, i).type = t
    BY DEF T!Ours, T!Node, T!MaxSize
  <2> QED
    BY <1>1, <2>1
<1> QED
  BY <1>1, <1>2, <1>3 DEF T!ForeignFile

\* The leaves before the next entry are those before this one, and this one.
LEMMA BeforeNext ==
  ASSUME Accepted, NEW n \in 1..Len(Entries)
  PROVE  /\ Entries[n].type = "Directory" => Before(n + 1) = Before(n)
         /\ Entries[n].type # "Directory" =>
              /\ Before(n + 1) = Before(n) \cup {Entries[n].path}
              /\ Entries[n].path \notin Before(n)
<1>1. Len(Entries) \in Nat
  BY EntryFacts
<1>2. \A i \in 1..Len(Entries) : i < n + 1 <=> i < n \/ i = n
  BY <1>1
<1>3. \A i, j \in 1..Len(Entries) : Entries[i].path = Entries[j].path => i = j
  BY EntryFacts DEF Accepted, T!EntriesAssumption
<1> QED
  BY <1>1, <1>2, <1>3 DEF Before

LEMMA BeforeBounds ==
  ASSUME Accepted
  PROVE  Before(1) = {} /\ Before(Len(Entries) + 1) = T!Leaves
<1>1. Len(Entries) \in Nat /\ \A i \in 1..Len(Entries) : ~(i < 1) /\ i < Len(Entries) + 1
  BY EntryFacts
<1>2. Before(1) = {}
  BY <1>1 DEF Before
<1>3. Before(Len(Entries) + 1) = {Entries[j].path : j \in {i \in 1..Len(Entries) : Entries[i].type # "Directory"}}
  BY <1>1 DEF Before
<1>4. \A p \in T!Leaves : \E j \in 1..Len(Entries) : p = Entries[j].path /\ Entries[j].type # "Directory"
  BY EntryFacts
<1>5. \A j \in 1..Len(Entries) : Entries[j].type # "Directory" => Entries[j].path \in T!Leaves
  BY EntryFacts
<1>6. Before(Len(Entries) + 1) \subseteq T!Leaves
  BY <1>3, <1>5
<1>7. T!Leaves \subseteq Before(Len(Entries) + 1)
  BY <1>3, <1>4
<1> QED
  BY <1>2, <1>6, <1>7

-----------------------------------------------------------------------------
LEMMA RestoreInit ==
  ASSUME Accepted, T!Init PROVE RestoreInv
<1>1. T!TypeOK
  <2>1. node \in [T!Paths -> T!Node \cup {Nothing}]
    BY NodeFacts DEF T!Init
  <2>2. 1 \in 1..Len(Entries) + 1 /\ 0 \in 0..Len(Entries) /\ 0 \in 0..MaxOthers
    BY EntryFacts DEF Accepted, T!BoundsAssumption
  <2> QED
    BY <2>1, <2>2 DEF T!Init, T!TypeOK, T!Stages
<1>2. \A p \in T!Leaves : T!Exists(p) => T!IsForeign(p)
  BY NodeFacts, EntryFacts DEF T!Init, T!Exists, T!IsForeign
<1> QED
  BY <1>1, <1>2 DEF T!Init, RestoreInv, TemporaryOK, NodesOK, T!CommittedIsWhole,
     T!CommittedIsTheEntry, CommittedOK, CountOK, Handling, Leaving

LEMMA InterfereKeeps ==
  ASSUME Accepted, RestoreInv, NEW p \in T!Paths, T!Interfere(p) PROVE RestoreInv'
<1>1. PICK x \in {Nothing, T!ForeignDir, T!ForeignFile(0, 1)} : node' = [node EXCEPT ![p] = x]
  BY DEF T!Interfere
<1>2. /\ step \in T!Working /\ others < MaxOthers
      /\ touched' = touched \cup {p} /\ others' = others + 1
      /\ UNCHANGED <<overwrite, available, step, k, occupied, required, seen, tmp, restored, full,
                     meta, entryCount, committed, used, rest>>
  BY DEF T!Interfere, T!fixed, T!budget, T!inodes
<1>3. /\ node \in [T!Paths -> T!Node \cup {Nothing}] /\ x \in T!Node \cup {Nothing}
      /\ x # Nothing => x.inode = Foreign
  BY NodeFacts DEF RestoreInv, T!TypeOK
<1>4. node' \in [T!Paths -> T!Node \cup {Nothing}] /\ node'[p] = x
      /\ \A q \in T!Paths : q # p => node'[q] = node[q]
  BY <1>1, <1>3
<1>5. T!TypeOK'
  BY <1>2, <1>4 DEF Accepted, T!BoundsAssumption, RestoreInv, T!TypeOK
<1>6. TemporaryOK'
  BY <1>2 DEF RestoreInv, TemporaryOK, T!Current, Handling
<1>7. \A q \in T!Leaves : T!Exists(q)' /\ ~T!IsForeign(q)' => q # p /\ T!Exists(q) /\ ~T!IsForeign(q)
  BY <1>3, <1>4, EntryFacts DEF T!Exists, T!IsForeign
<1>8. NodesOK' /\ T!CommittedIsWhole'
  BY <1>2, <1>4, <1>7, EntryFacts DEF RestoreInv, NodesOK, T!CommittedIsWhole
<1>9. T!CommittedIsTheEntry'
  BY <1>2, <1>4, EntryFacts DEF RestoreInv, T!TypeOK, T!CommittedIsTheEntry
<1>10. CommittedOK' /\ CountOK'
  BY <1>2 DEF RestoreInv, CommittedOK, CountOK, Leaving, Handling
<1> QED
  BY <1>5, <1>6, <1>8, <1>9, <1>10 DEF RestoreInv

\* Steps that change neither a node nor what is known of one.
LEMMA QuietKeeps ==
  ASSUME Accepted, RestoreInv,
         T!Fail \/ T!Preflight \/ T!PreflightEnd \/ T!SkipDirectory \/ T!LeavesEnd \/ T!Finish \/ T!UnlinkFailed
  PROVE  RestoreInv'
<1>1. UNCHANGED <<overwrite, available, node, restored, full, meta, committed, used, rest, touched,
                  others>>
  BY DEF T!Fail, T!Preflight, T!PreflightEnd, T!SkipDirectory, T!LeavesEnd, T!Finish, T!UnlinkFailed, T!fixed,
     T!inodes, T!history
<1>2. NodesOK' /\ T!CommittedIsWhole' /\ T!CommittedIsTheEntry'
  BY <1>1 DEF RestoreInv, NodesOK, T!CommittedIsWhole, T!CommittedIsTheEntry, T!Exists, T!IsForeign
<1>3. /\ node \in [T!Paths -> T!Node \cup {Nothing}] /\ restored \subseteq full \cap meta \cap T!Leaves
      /\ k \in 1..Len(Entries) + 1 /\ Len(Entries) \in Nat
  BY EntryFacts DEF RestoreInv, T!TypeOK, TemporaryOK
<1>4. CASE T!Fail \/ T!UnlinkFailed
  <2>1. /\ step' \in {"failed", "uncounted"} /\ tmp' = Nothing
        /\ UNCHANGED <<k, occupied, required, seen, entryCount>>
    BY <1>4 DEF T!Fail, T!UnlinkFailed, T!budget
  <2>2. T!TypeOK'
    BY <1>1, <2>1 DEF RestoreInv, T!TypeOK, T!Stages
  <2>3. TemporaryOK' /\ CommittedOK' /\ CountOK'
    BY <1>1, <1>3, <2>1 DEF TemporaryOK, CommittedOK, CountOK, Handling, Leaving
  <2> QED
    BY <1>2, <2>2, <2>3 DEF RestoreInv
<1>5. CASE T!Preflight
  <2>1. step = "preflight" /\ step' = step /\ k <= Len(Entries) /\ k' = k + 1
        /\ UNCHANGED <<seen, tmp, entryCount>>
    BY <1>5 DEF T!Preflight
  <2>2. occupied' \in Nat /\ required' \in Nat
    <3>1. occupied \in Nat /\ required \in Nat /\ T!Current.size \in Nat
      BY <1>3, <2>1, EntryFacts DEF RestoreInv, T!TypeOK, T!Current
    <3>2. T!Reclaimed(T!Current.path) \in Nat
      <4>1. T!Current.path \in T!Paths
        BY <1>3, <2>1, EntryFacts DEF T!Current
      <4>2. T!Exists(T!Current.path) => node[T!Current.path] \in T!Node
        BY <1>3, <4>1 DEF T!Exists
      <4> QED
        BY <4>2 DEF T!Reclaimed, T!Node, T!MaxSize
    <3>3. CASE T!Account
      BY <3>1, <3>2, <3>3 DEF T!Account, T!Larger, T!Smaller
    <3> QED
      BY <1>5, <3>1, <3>3 DEF T!Preflight, T!budget
  <2>3. T!TypeOK'
    BY <1>1, <1>3, <2>1, <2>2 DEF RestoreInv, T!TypeOK
  <2>4. TemporaryOK' /\ CommittedOK' /\ CountOK'
    BY <1>1, <1>3, <2>1 DEF RestoreInv, TemporaryOK, CommittedOK, CountOK, Handling, Leaving
  <2> QED
    BY <1>2, <2>3, <2>4 DEF RestoreInv
<1>6. CASE T!PreflightEnd
  <2>1. step = "preflight" /\ step' = "directories"
        /\ UNCHANGED <<k, occupied, required, seen, tmp, entryCount>>
    BY <1>6 DEF T!PreflightEnd, T!budget
  <2>2. T!TypeOK'
    BY <1>1, <2>1 DEF RestoreInv, T!TypeOK, T!Stages
  <2>3. TemporaryOK' /\ CommittedOK' /\ CountOK'
    BY <1>1, <1>3, <2>1 DEF RestoreInv, TemporaryOK, CommittedOK, CountOK, Handling, Leaving
  <2> QED
    BY <1>2, <2>2, <2>3 DEF RestoreInv
<1>7. CASE T!SkipDirectory
  <2>1. step = "next" /\ step' = step /\ k \in 1..Len(Entries) /\ Entries[k].type = "Directory"
        /\ k' = k + 1 /\ UNCHANGED <<occupied, required, seen, tmp, entryCount>>
    BY <1>3, <1>7 DEF T!SkipDirectory, T!budget, T!Current
  <2>2. T!TypeOK'
    BY <1>1, <1>3, <2>1 DEF RestoreInv, T!TypeOK
  <2>3. TemporaryOK'
    BY <1>1, <1>3, <2>1 DEF TemporaryOK, Handling
  <2>4. Before(k + 1) = Before(k)
    BY <2>1, BeforeNext
  <2>5. CommittedOK' /\ CountOK'
    <3>1. committed = Before(k) /\ entryCount < k /\ entryCount \in Nat
      BY <2>1 DEF RestoreInv, T!TypeOK, CommittedOK, CountOK, Leaving, Handling
    <3> QED
      BY <1>1, <2>1, <2>4, <3>1 DEF CommittedOK, CountOK, Leaving, Handling
  <2> QED
    BY <1>2, <2>2, <2>3, <2>5 DEF RestoreInv
<1>8. CASE T!LeavesEnd
  <2>1. step = "next" /\ step' = "directoryMetadata" /\ k = Len(Entries) + 1 /\ seen' = {}
        /\ UNCHANGED <<k, occupied, required, tmp, entryCount>>
    BY <1>8 DEF T!LeavesEnd, T!budget
  <2>2. T!TypeOK'
    BY <1>1, <2>1 DEF RestoreInv, T!TypeOK, T!Stages
  <2>3. TemporaryOK'
    BY <1>1, <1>3, <2>1 DEF TemporaryOK, Handling
  <2>4. committed = T!Leaves
    BY <2>1, BeforeBounds DEF RestoreInv, CommittedOK, CountOK, Leaving, Handling
  <2>5. CommittedOK' /\ CountOK'
    BY <1>1, <2>1, <2>4 DEF CommittedOK, CountOK, Leaving, Handling
  <2> QED
    BY <1>2, <2>2, <2>3, <2>5 DEF RestoreInv
<1>9. CASE T!Finish
  <2>1. step = "directoryMetadata" /\ step' = "done" /\ seen = T!Directories /\ entryCount' = Len(Entries)
        /\ UNCHANGED <<k, occupied, required, seen, tmp>>
    BY <1>9 DEF T!Finish, T!budget
  <2>2. T!TypeOK'
    BY <1>1, <1>3, <2>1 DEF RestoreInv, T!TypeOK, T!Stages
  <2>3. TemporaryOK' /\ CommittedOK' /\ CountOK'
    BY <1>1, <1>3, <2>1 DEF RestoreInv, TemporaryOK, CommittedOK, CountOK, Handling, Leaving
  <2> QED
    BY <1>2, <2>2, <2>3 DEF RestoreInv
<1> QED
  BY <1>4, <1>5, <1>6, <1>7, <1>8, <1>9

\* A directory whose entries change is no leaf.
LEMMA DisturbFacts ==
  ASSUME Accepted, RestoreInv, NEW p \in T!Paths
  PROVE  T!Disturb(p) \subseteq meta /\ meta \cap T!Leaves \subseteq T!Disturb(p)
  BY EntryFacts DEF T!Disturb

LEMMA MakeDirectoryKeeps ==
  ASSUME Accepted, RestoreInv, NEW p \in T!Directories, T!MakeDirectory(p) PROVE RestoreInv'
<1>1. /\ step = "directories" /\ seen' = seen \cup {p} /\ meta' = T!Disturb(p)
      /\ node' \in {node, [node EXCEPT ![p] = T!Ours("dir", p)]}
      /\ \/ step' = "next" /\ k' = 1
         \/ UNCHANGED <<step, k>>
      /\ UNCHANGED <<overwrite, available, occupied, required, tmp, restored, full, entryCount,
                     committed, used, rest, touched, others>>
  BY DEF T!MakeDirectory, T!fixed, T!budget, T!inodes, T!history
<1>2. p \in T!Paths /\ p \notin T!Leaves /\ Len(Entries) \in Nat
  BY EntryFacts
<1>3. /\ node \in [T!Paths -> T!Node \cup {Nothing}] /\ T!Ours("dir", p) \in T!Node
      /\ restored \subseteq full \cap meta \cap T!Leaves /\ meta \subseteq T!Paths
  BY <1>2, NodeFacts DEF RestoreInv, T!TypeOK, TemporaryOK
<1>4. node' \in [T!Paths -> T!Node \cup {Nothing}] /\ \A q \in T!Leaves : node'[q] = node[q]
  BY <1>1, <1>2, <1>3, EntryFacts
<1>5. meta' \subseteq meta /\ meta \cap T!Leaves \subseteq meta'
  BY <1>1, <1>2, DisturbFacts
<1>6. T!TypeOK'
  BY <1>1, <1>2, <1>3, <1>4, <1>5 DEF RestoreInv, T!TypeOK, T!Stages
<1>7. TemporaryOK'
  BY <1>1, <1>3, <1>5 DEF TemporaryOK, Handling
<1>8. NodesOK' /\ T!CommittedIsWhole'
  BY <1>1, <1>4, <1>5 DEF RestoreInv, NodesOK, T!CommittedIsWhole, T!Exists, T!IsForeign
<1>9. T!CommittedIsTheEntry'
  BY <1>1, <1>4 DEF RestoreInv, T!TypeOK, T!CommittedIsTheEntry
<1>10. CommittedOK' /\ CountOK'
  <2>1. committed = {} /\ entryCount = 0 /\ Before(1) = {}
    BY <1>1, BeforeBounds DEF RestoreInv, CommittedOK, CountOK
  <2> QED
    BY <1>1, <2>1 DEF CommittedOK, CountOK, Leaving, Handling
<1> QED
  BY <1>6, <1>7, <1>8, <1>9, <1>10 DEF RestoreInv

LEMMA DirectoryMetadataKeeps ==
  ASSUME Accepted, RestoreInv, NEW p \in T!Directories, T!ApplyDirectoryMetadata(p) PROVE RestoreInv'
<1>1. /\ step = "directoryMetadata" /\ meta' = meta \cup {p} /\ seen' = seen \cup {p}
      /\ UNCHANGED <<overwrite, available, node, step, k, occupied, required, tmp, restored, full,
                     entryCount, committed, used, rest, touched, others>>
  BY DEF T!ApplyDirectoryMetadata, T!fixed, T!budget, T!inodes, T!history
<1>2. T!TypeOK'
  BY <1>1, EntryFacts DEF RestoreInv, T!TypeOK
<1>3. TemporaryOK' /\ CommittedOK' /\ CountOK'
  BY <1>1 DEF RestoreInv, TemporaryOK, CommittedOK, CountOK, Handling, Leaving
<1>4. NodesOK' /\ T!CommittedIsWhole' /\ T!CommittedIsTheEntry'
  BY <1>1 DEF RestoreInv, NodesOK, T!CommittedIsWhole, T!CommittedIsTheEntry, T!Exists, T!IsForeign
<1> QED
  BY <1>2, <1>3, <1>4 DEF RestoreInv

\* The last block of a file is not empty.
LEMMA RestFacts ==
  ASSUME Accepted, NEW bytes \in Nat, NEW space \in T!InBlocks(bytes)
  PROVE  space - bytes \in Nat /\ space - bytes <= Block - 1 /\ Block - 1 \in Nat
  BY DEF Accepted, T!BoundsAssumption, T!InBlocks

\* The temporary node, stage by stage.
LEMMA TemporaryKeeps ==
  ASSUME Accepted, RestoreInv,
         T!OpenTemporary \/ T!LinkTemporary \/ T!WriteContent \/ T!ApplyMetadata \/ T!SyncFile
  PROVE  RestoreInv'
<1>1. UNCHANGED <<overwrite, available, node, k, occupied, required, seen, entryCount, committed,
                  touched, others>>
  BY DEF T!OpenTemporary, T!LinkTemporary, T!WriteContent, T!ApplyMetadata, T!SyncFile, T!fixed, T!budget, T!history
<1>2. /\ step \in Leaving \ {"commit", "unlink"} /\ step' \in Handling \ {"unlink"}
      /\ k \in 1..Len(Entries) /\ Len(Entries) \in Nat
  BY EntryFacts DEF T!OpenTemporary, T!LinkTemporary, T!WriteContent, T!ApplyMetadata, T!SyncFile, Leaving,
     Handling, RestoreInv, T!TypeOK, TemporaryOK
<1>3. /\ T!Current.path \in T!Paths /\ T!Of(T!Current.path) = T!Current /\ T!Current.size \in Nat
      /\ T!Current.path \in T!Leaves <=> T!Current.type # "Directory"
  BY <1>2, EntryFacts DEF T!Current
<1>4. /\ restored \subseteq restored' /\ full \subseteq full' /\ meta \cap T!Leaves \subseteq meta'
  BY <1>3, DisturbFacts DEF T!OpenTemporary, T!LinkTemporary, T!WriteContent, T!ApplyMetadata, T!SyncFile,
     T!inodes
<1>5. T!Current' = T!Current
  BY <1>1 DEF T!Current
<1>6. used' \in Int /\ rest' \in Nat
  <2>1. used \in Int /\ rest \in Nat
    BY DEF RestoreInv, T!TypeOK
  <2>2. CASE T!WriteContent
    BY <1>3, <2>1, <2>2, RestFacts DEF T!WriteContent
  <2>3. ~T!WriteContent => UNCHANGED <<used, rest>>
    BY DEF T!OpenTemporary, T!LinkTemporary, T!ApplyMetadata, T!SyncFile, T!history
  <2> QED
    BY <2>1, <2>2, <2>3
<1>7. restored \subseteq full \cap meta \cap T!Leaves /\ meta \subseteq T!Paths /\ full \subseteq T!Paths
  BY DEF RestoreInv, TemporaryOK, T!TypeOK
<1>8. TemporaryOK' /\ tmp' \in T!Leaves /\ meta' \subseteq T!Paths /\ full' \subseteq T!Paths
  <2>1. CASE T!OpenTemporary
    <3>1. /\ step = "next" /\ T!Current.type \in {"Regular", "Special"} /\ tmp' = T!Current.path
          /\ step' = IF T!Current.type = "Regular" THEN "write" ELSE "metadata"
          /\ full' = IF T!Current.type = "Special" THEN full \cup {T!Current.path} ELSE full
          /\ meta' = T!Disturb(T!Current.path) /\ restored' = restored
      BY <2>1 DEF T!OpenTemporary
    <3>2. T!Disturb(T!Current.path) \subseteq meta
      BY <1>3, DisturbFacts
    <3> QED
      BY <1>1, <1>2, <1>3, <1>4, <1>5, <1>7, <3>1, <3>2 DEF TemporaryOK, Handling
  <2>2. CASE T!LinkTemporary
    <3>1. /\ step = "next" /\ T!Current.type = "Hardlink" /\ tmp' = T!Current.link /\ step' = "commit"
          /\ T!Current.link \in restored /\ restored' = restored /\ full' = full
          /\ meta' = T!Disturb(T!Current.path)
      BY <2>2 DEF T!LinkTemporary, T!inodes
    <3>2. T!Disturb(T!Current.path) \subseteq meta
      BY <1>3, DisturbFacts
    <3> QED
      BY <1>1, <1>2, <1>3, <1>4, <1>5, <1>7, <3>1, <3>2 DEF TemporaryOK, Handling
  <2>3. CASE T!WriteContent
    <3>1. /\ step = "write" /\ full' = full \cup {tmp} /\ step' = "metadata" /\ tmp' = tmp
          /\ restored' = restored /\ meta' = meta
      BY <2>3 DEF T!WriteContent
    <3> QED
      BY <1>1, <1>2, <1>3, <1>4, <1>5, <1>7, <3>1, EntryFacts DEF RestoreInv, TemporaryOK, Handling
  <2>4. CASE T!ApplyMetadata
    <3>1. /\ step = "metadata" /\ meta' = meta \cup {tmp} /\ tmp' = tmp
          /\ step' = IF T!Current.type = "Regular" THEN "sync" ELSE "commit"
          /\ restored' = restored /\ full' = full
      BY <2>4 DEF T!ApplyMetadata, T!inodes
    <3>2. T!Current.type \in {"Regular", "Special"} /\ tmp = T!Current.path /\ tmp \in full /\ tmp \in T!Leaves
      BY <3>1 DEF RestoreInv, TemporaryOK, Handling
    <3> QED
      BY <1>1, <1>2, <1>3, <1>4, <1>5, <1>7, <3>1, <3>2, EntryFacts DEF TemporaryOK, Handling
  <2>5. CASE T!SyncFile
    <3>1. /\ step = "sync" /\ restored' = restored \cup {tmp} /\ step' = "commit" /\ tmp' = tmp
          /\ full' = full /\ meta' = meta
      BY <2>5 DEF T!SyncFile
    <3>2. T!Current.type = "Regular" /\ tmp = T!Current.path /\ tmp \in full \cap meta /\ tmp \in T!Leaves
      BY <3>1 DEF RestoreInv, TemporaryOK, Handling
    <3> QED
      BY <1>1, <1>2, <1>3, <1>4, <1>5, <1>7, <3>1, <3>2, EntryFacts DEF TemporaryOK, Handling
  <2> QED
    BY <2>1, <2>2, <2>3, <2>4, <2>5
<1>9. T!TypeOK'
  <2>1. tmp' # Nothing /\ tmp' \in T!Paths
    BY <1>8, EntryFacts
  <2>2. restored' \subseteq T!Paths
    BY <1>8, EntryFacts DEF TemporaryOK
  <2> QED
    BY <1>1, <1>2, <1>6, <1>8, <2>1, <2>2 DEF RestoreInv, T!TypeOK, Handling, T!Stages
<1>10. NodesOK' /\ T!CommittedIsWhole' /\ T!CommittedIsTheEntry'
  BY <1>1, <1>4 DEF RestoreInv, NodesOK, T!CommittedIsWhole, T!CommittedIsTheEntry, T!Exists, T!IsForeign
<1>11. CommittedOK' /\ CountOK'
  BY <1>1, <1>2 DEF RestoreInv, CommittedOK, CountOK, Leaving, Handling
<1> QED
  BY <1>8, <1>9, <1>10, <1>11 DEF RestoreInv

LEMMA CommitKeeps ==
  ASSUME Accepted, RestoreInv, T!CommitNode PROVE RestoreInv'
<1>1. /\ step = "commit" /\ node' = [node EXCEPT ![T!Current.path] = T!Ours("file", tmp)]
      /\ used' = used - T!Reclaimed(T!Current.path) /\ committed' = committed \cup {T!Current.path}
      /\ meta' = T!Disturb(T!Current.path)
      /\ \/ entryCount' = entryCount + 1 /\ k' = k + 1 /\ step' = "next" /\ tmp' = Nothing
         \/ step' = "unlink" /\ UNCHANGED <<entryCount, k, tmp>>
      /\ UNCHANGED <<overwrite, available, occupied, required, seen, restored, full, rest, touched,
                     others>>
  BY DEF T!CommitNode, T!Place, T!Counted, T!fixed, T!budget, T!inodes
<1>2. /\ k \in 1..Len(Entries) /\ Len(Entries) \in Nat /\ T!Current.type # "Directory"
      /\ tmp \in T!Leaves /\ tmp \in full \cap meta /\ (T!Of(tmp).type = "Regular" => tmp \in restored)
      /\ restored \subseteq full \cap meta \cap T!Leaves
      /\ tmp = IF T!Current.type = "Hardlink" THEN T!Current.link ELSE T!Current.path
  BY <1>1, EntryFacts DEF RestoreInv, T!TypeOK, TemporaryOK, Handling
<1>3. /\ T!Current.path \in T!Paths /\ T!Of(T!Current.path) = T!Current /\ T!Current.path \in T!Leaves
      /\ tmp \in T!Paths /\ tmp # Nothing
  BY <1>2, EntryFacts DEF T!Current
<1>4. /\ node \in [T!Paths -> T!Node \cup {Nothing}] /\ meta \subseteq T!Paths
      /\ T!Ours("file", tmp) \in T!Node /\ T!Ours("file", tmp).inode = tmp
  BY <1>3, NodeFacts DEF RestoreInv, T!TypeOK
<1>5. /\ node' \in [T!Paths -> T!Node \cup {Nothing}] /\ node'[T!Current.path] = T!Ours("file", tmp)
      /\ \A q \in T!Paths : q # T!Current.path => node'[q] = node[q]
  BY <1>1, <1>3, <1>4
<1>6. meta' \subseteq meta /\ meta \cap T!Leaves \subseteq meta'
  BY <1>1, <1>3, DisturbFacts
<1>7. T!Reclaimed(T!Current.path) \in Nat
  <2>1. T!Exists(T!Current.path) => node[T!Current.path] \in T!Node
    BY <1>3, <1>4 DEF T!Exists
  <2> QED
    BY <2>1 DEF T!Reclaimed, T!Node, T!MaxSize
<1>8. Before(k + 1) = Before(k) \cup {T!Current.path} /\ T!Current.path \notin Before(k)
      /\ committed = Before(k)
  BY <1>1, <1>2, BeforeNext DEF T!Current, RestoreInv, CommittedOK, CountOK, Leaving, Handling
<1>9. entryCount \in Nat /\ entryCount < k /\ entryCount' \in 0..Len(Entries)
  <2>1. entryCount \in Nat /\ entryCount < k /\ entryCount \in 0..Len(Entries)
    BY <1>1 DEF RestoreInv, T!TypeOK, CountOK, Leaving, Handling
  <2> QED
    BY <1>1, <1>2, <2>1
<1>10. T!TypeOK'
  <2>1. committed' \subseteq T!Leaves /\ used' \in Int /\ step' \in T!Stages
        /\ k' \in 1..Len(Entries) + 1 /\ tmp' \in T!Paths \cup {Nothing}
        /\ (tmp' # Nothing) = (step' \in Handling)
    BY <1>1, <1>2, <1>3, <1>7 DEF RestoreInv, T!TypeOK, T!Stages, Handling
  <2> QED
    BY <1>1, <1>5, <1>6, <1>9, <2>1 DEF RestoreInv, T!TypeOK, Handling
<1>11. TemporaryOK'
  <2>1. step' = "unlink" => /\ k' = k /\ tmp' = tmp /\ T!Current' = T!Current
    BY <1>1 DEF T!Current
  <2>2. restored' \subseteq full' \cap meta' \cap T!Leaves /\ tmp \in full' \cap meta'
        /\ restored' = restored
    BY <1>1, <1>2, <1>6
  <2>3. step' \in {"next", "unlink"}
    BY <1>1
  <2> QED
    BY <1>2, <2>1, <2>2, <2>3 DEF TemporaryOK, Handling
<1>12. NodesOK' /\ T!CommittedIsWhole'
  <2> SUFFICES ASSUME NEW q \in T!Leaves, T!Exists(q)', ~T!IsForeign(q)'
               PROVE  /\ node'[q].inode \in T!Leaves /\ node'[q].inode \in full' \cap meta'
                      /\ T!Of(node'[q].inode).type = "Regular" => node'[q].inode \in restored'
    BY DEF NodesOK, T!CommittedIsWhole
  <2>1. CASE q = T!Current.path
    BY <1>1, <1>2, <1>4, <1>5, <1>6, <2>1
  <2>2. CASE q # T!Current.path
    <3>1. node'[q] = node[q] /\ T!Exists(q) /\ ~T!IsForeign(q)
      BY <1>5, <2>2, EntryFacts DEF T!Exists, T!IsForeign
    <3> QED
      BY <1>1, <1>6, <3>1 DEF RestoreInv, NodesOK, T!CommittedIsWhole
  <2> QED
    BY <2>1, <2>2
<1>13. T!CommittedIsTheEntry'
  <2> SUFFICES ASSUME NEW q \in committed' \ touched
               PROVE  node'[q] = T!Ours("file", IF T!Of(q).type = "Hardlink" THEN T!Of(q).link ELSE q)
    BY <1>1 DEF T!CommittedIsTheEntry
  <2>1. CASE q = T!Current.path
    BY <1>2, <1>3, <1>5, <2>1
  <2>2. CASE q # T!Current.path
    BY <1>1, <1>5, <2>2, EntryFacts DEF RestoreInv, T!TypeOK, T!CommittedIsTheEntry
  <2> QED
    BY <2>1, <2>2
<1>14. CommittedOK' /\ CountOK'
  <2>1. committed' = Before(k + 1)
    BY <1>1, <1>8
  <2> QED
    BY <1>1, <1>2, <1>9, <2>1 DEF CommittedOK, CountOK, Leaving, Handling
<1> QED
  BY <1>10, <1>11, <1>12, <1>13, <1>14 DEF RestoreInv

LEMMA UnlinkKeeps ==
  ASSUME Accepted, RestoreInv, T!UnlinkTemporary PROVE RestoreInv'
<1>1. /\ step = "unlink" /\ entryCount' = entryCount + 1 /\ k' = k + 1 /\ step' = "next"
      /\ tmp' = Nothing /\ meta' = T!Disturb(T!Current.path)
      /\ UNCHANGED <<overwrite, available, node, occupied, required, seen, restored, full,
                     committed, used, rest, touched, others>>
  BY DEF T!UnlinkTemporary, T!Counted, T!fixed, T!budget, T!inodes, T!history
<1>2. /\ k \in 1..Len(Entries) /\ Len(Entries) \in Nat
      /\ restored \subseteq full \cap meta \cap T!Leaves /\ meta \subseteq T!Paths
      /\ entryCount \in Nat /\ entryCount < k
  BY <1>1, EntryFacts DEF RestoreInv, T!TypeOK, TemporaryOK, CountOK, Leaving, Handling
<1>3. T!Current.path \in T!Paths
  BY <1>2, EntryFacts DEF T!Current
<1>4. meta' \subseteq meta /\ meta \cap T!Leaves \subseteq meta'
  BY <1>1, <1>3, DisturbFacts
<1>5. T!TypeOK'
  BY <1>1, <1>2, <1>4 DEF RestoreInv, T!TypeOK, T!Stages
<1>6. TemporaryOK'
  BY <1>1, <1>2, <1>4 DEF TemporaryOK, Handling
<1>7. NodesOK' /\ T!CommittedIsWhole' /\ T!CommittedIsTheEntry'
  BY <1>1, <1>4 DEF RestoreInv, NodesOK, T!CommittedIsWhole, T!CommittedIsTheEntry, T!Exists, T!IsForeign
<1>8. CommittedOK' /\ CountOK'
  BY <1>1, <1>2 DEF RestoreInv, CommittedOK, CountOK, Leaving, Handling
<1> QED
  BY <1>5, <1>6, <1>7, <1>8 DEF RestoreInv

LEMMA RestoreNext ==
  ASSUME Accepted PROVE RestoreInv /\ [T!Next]_T!vars => RestoreInv'
<1> SUFFICES ASSUME RestoreInv, [T!Next]_T!vars PROVE RestoreInv'
  OBVIOUS
<1>1. CASE UNCHANGED T!vars
  BY <1>1 DEF T!vars, T!fixed, T!budget, T!inodes, T!history, RestoreInv, T!TypeOK, TemporaryOK, NodesOK,
     T!CommittedIsWhole, T!CommittedIsTheEntry, CommittedOK, CountOK, T!Exists, T!IsForeign, T!Current
<1>2. CASE T!Next
  BY <1>2, InterfereKeeps, QuietKeeps, MakeDirectoryKeeps, DirectoryMetadataKeeps, TemporaryKeeps,
     CommitKeeps, UnlinkKeeps DEF T!Next, T!Extract
<1> QED
  BY <1>1, <1>2

LEMMA InvSuccess == RestoreInv => T!SuccessIsComplete
  BY DEF RestoreInv, CommittedOK, T!SuccessIsComplete

LEMMA StepKeeps ==
  ASSUME Accepted, RestoreInv, [T!Next]_T!vars PROVE T!Keeps
<1> SUFFICES ASSUME ~overwrite, NEW p \in T!Paths, T!IsForeign(p), T!Exists(p)', ~T!IsForeign(p)'
             PROVE  FALSE
  BY DEF T!Keeps
<1>1. node \in [T!Paths -> T!Node \cup {Nothing}] /\ T!Exists(p) /\ node' # node
  BY DEF RestoreInv, T!TypeOK, T!IsForeign, T!Exists
<1>2. CASE \E q \in T!Paths : T!Interfere(q)
  <2>1. PICK q \in T!Paths, x \in {Nothing, T!ForeignDir, T!ForeignFile(0, 1)} :
          node' = [node EXCEPT ![q] = x]
    BY <1>2 DEF T!Interfere
  <2>2. x # Nothing => x.inode = Foreign
    BY NodeFacts
  <2> QED
    BY <1>1, <2>1, <2>2 DEF T!IsForeign, T!Exists
<1>3. CASE \E q \in T!Directories : T!MakeDirectory(q)
  <2>1. PICK q \in T!Directories : ~T!Exists(q) /\ node' = [node EXCEPT ![q] = T!Ours("dir", q)]
    BY <1>1, <1>3 DEF T!MakeDirectory
  <2>2. p # q
    BY <1>1, <2>1
  <2> QED
    BY <1>1, <2>1, <2>2 DEF T!IsForeign, T!Exists
<1>4. CASE T!CommitNode
  <2>1. ~T!Exists(T!Current.path) /\ node' = [node EXCEPT ![T!Current.path] = T!Ours("file", tmp)]
    BY <1>4 DEF T!CommitNode, T!Place
  <2>2. p # T!Current.path
    BY <1>1, <2>1
  <2> QED
    BY <1>1, <2>1, <2>2 DEF T!IsForeign, T!Exists
<1>5. \/ \E q \in T!Paths : T!Interfere(q)
      \/ \E q \in T!Directories : T!MakeDirectory(q)
      \/ T!CommitNode
      \/ node' = node
  BY DEF T!Next, T!Extract, T!Fail, T!Preflight, T!PreflightEnd, T!ApplyDirectoryMetadata, T!SkipDirectory,
     T!OpenTemporary, T!LinkTemporary, T!WriteContent, T!ApplyMetadata, T!SyncFile, T!UnlinkTemporary,
     T!LeavesEnd, T!Finish, T!UnlinkFailed, T!vars
<1> QED
  BY <1>1, <1>2, <1>3, <1>4, <1>5

-----------------------------------------------------------------------------
(* The count of a failure: it lacks a commit when the removal of the       *)
(* temporary name was what failed.                                         *)

Counts ==
  /\ IsFiniteSet(committed)
  /\ step \notin {"unlink", "uncounted", "done"} => entryCount = Cardinality(committed)
  /\ step \in {"unlink", "uncounted"} => entryCount + 1 = Cardinality(committed)

LEMMA CountsInit ==
  T!Init => Counts
  BY FS_EmptySet DEF T!Init, Counts

LEMMA CountsNext ==
  ASSUME Accepted
  PROVE  RestoreInv /\ Counts /\ [T!Next]_T!vars => Counts'
<1> SUFFICES ASSUME RestoreInv, Counts, [T!Next]_T!vars PROVE Counts'
  OBVIOUS
<1>1. CASE T!CommitNode
  <2>1. /\ step = "commit" /\ committed' = committed \cup {T!Current.path}
        /\ \/ entryCount' = entryCount + 1 /\ step' = "next"
           \/ step' = "unlink" /\ entryCount' = entryCount
    BY <1>1 DEF T!CommitNode, T!Place, T!Counted
  <2>2. k \in 1..Len(Entries) /\ T!Current.type # "Directory" /\ committed = Before(k)
    BY <2>1, EntryFacts DEF RestoreInv, T!TypeOK, TemporaryOK, CommittedOK, Handling, Leaving
  <2>3. T!Current.path \notin committed
    BY <2>2, BeforeNext DEF T!Current
  <2>4. IsFiniteSet(committed') /\ Cardinality(committed') = Cardinality(committed) + 1
    BY <2>1, <2>3, FS_AddElement DEF Counts
  <2> QED
    BY <2>1, <2>4 DEF Counts
<1>2. CASE T!UnlinkTemporary
  <2>1. step = "unlink" /\ step' = "next" /\ entryCount' = entryCount + 1 /\ committed' = committed
    BY <1>2 DEF T!UnlinkTemporary, T!Counted
  <2> QED
    BY <2>1 DEF Counts
<1>3. CASE T!Finish
  BY <1>3 DEF T!Finish, Counts
<1>4. CASE ~T!CommitNode /\ ~T!UnlinkTemporary /\ ~T!Finish
  <2>1. /\ committed' = committed /\ entryCount' = entryCount
        /\ \/ step' = step
           \/ step \notin {"unlink", "uncounted", "done"} /\ step' \notin {"unlink", "uncounted"}
           \/ step = "unlink" /\ step' = "uncounted"
    BY <1>4 DEF T!Next, T!Extract, T!Fail, T!Preflight, T!PreflightEnd, T!ApplyDirectoryMetadata, T!Interfere,
       T!MakeDirectory, T!SkipDirectory, T!OpenTemporary, T!LinkTemporary, T!WriteContent, T!ApplyMetadata,
       T!SyncFile, T!LeavesEnd, T!UnlinkFailed, T!vars, T!Working
  <2> QED
    BY <2>1 DEF Counts
<1> QED
  BY <1>1, <1>2, <1>3, <1>4

LEMMA CountsReport == Counts => T!CountIsReported
<1>1. T!Cardinality(committed) = Cardinality(committed)
  BY DEF T!Cardinality, Cardinality
<1> QED
  BY <1>1 DEF Counts, T!CountIsReported

-----------------------------------------------------------------------------
(* The space. The preflight has gone through the entries with a level       *)
(* occ[n] before the n-th, and the extraction stays below these levels as   *)
(* long as each file still stands that the preflight has seen.              *)

Early == {"preflight", "directories"}
Checked == IF step = "preflight" THEN k ELSE Len(Entries) + 1
\* Whether the place of an entry is still to be filled.
Ahead(n) == step \in Early \/ k < n \/ (k = n /\ step # "unlink")
With(occ, n) == occ[n] + Entries[n].size

LevelsOK(occ, rec) ==
  /\ occ \in [1..Len(Entries) + 1 -> Nat] /\ rec \in [1..Len(Entries) -> Nat]
  /\ occ[1] = 0
  /\ \A n \in 1..Len(Entries) : n < Checked =>
       IF Entries[n].type = "Regular"
       THEN /\ occ[n + 1] = With(occ, n) - T!Smaller(With(occ, n), rec[n])
            /\ With(occ, n) <= required
            /\ Ahead(n) => rec[n] = T!Reclaimed(Entries[n].path)
       ELSE occ[n + 1] = occ[n]
  /\ step = "preflight" => occupied = occ[k]

UsedOK(occ) ==
  /\ step \in Early => used = 0
  /\ step \in {"next", "write"} => used <= occ[k]
  /\ step \in {"metadata", "sync", "commit"} =>
       used <= IF T!Current.type = "Regular" THEN With(occ, k) ELSE occ[k]
  /\ step = "unlink" => used <= occ[k + 1]

SpaceInv ==
  touched = {} =>
    /\ used <= available
    /\ step \in Leaving \cup {"directories"} => required <= available
    /\ step \in Leaving \cup Early => \E occ, rec : LevelsOK(occ, rec) /\ UsedOK(occ)

LEMMA SpaceInit ==
  ASSUME Accepted, T!Init PROVE SpaceInv
<1>1. Len(Entries) \in Nat /\ available \in Nat
  BY EntryFacts DEF T!Init, Accepted, T!BoundsAssumption
<1> DEFINE occ == [n \in 1..Len(Entries) + 1 |-> 0]
           rec == [n \in 1..Len(Entries) |-> 0]
<1>2. LevelsOK(occ, rec) /\ UsedOK(occ)
  BY <1>1 DEF T!Init, LevelsOK, UsedOK, Checked, Early
<1> HIDE DEF occ, rec
<1> QED
  BY <1>1, <1>2 DEF T!Init, SpaceInv, Leaving, Handling, Early

\* What replacing a node releases.
LEMMA ReclaimedFacts ==
  ASSUME Accepted, RestoreInv, NEW p \in T!Paths
  PROVE  T!Reclaimed(p) \in Nat
<1>1. T!Exists(p) => node[p] \in T!Node
  BY DEF RestoreInv, T!TypeOK, T!Exists
<1> QED
  BY <1>1 DEF T!Reclaimed, T!Node, T!MaxSize

LEMMA PreflightSpace ==
  ASSUME Accepted, RestoreInv, SpaceInv, T!Preflight PROVE SpaceInv'
<1>1. /\ step = "preflight" /\ step' = step /\ k' = k + 1
      /\ UNCHANGED <<available, node, used, touched>>
      /\ IF T!Current.type = "Regular" THEN T!Account ELSE occupied' = occupied /\ required' = required
  BY DEF T!Preflight, T!fixed, T!budget, T!history
<1>2. /\ k \in 1..Len(Entries) /\ Len(Entries) \in Nat /\ T!Current = Entries[k]
      /\ occupied \in Nat /\ required \in Nat
  BY EntryFacts DEF T!Preflight, RestoreInv, T!TypeOK, T!Current
<1>3. T!Current.size \in Nat /\ T!Current.path \in T!Paths /\ T!Current = Entries[k]
  BY <1>2, EntryFacts
<1>4. T!Reclaimed(T!Current.path) \in Nat
  BY <1>3, ReclaimedFacts
<1> SUFFICES ASSUME touched = {}
             PROVE  used' <= available' /\ \E occ, rec : (LevelsOK(occ, rec) /\ UsedOK(occ))'
  BY <1>1 DEF SpaceInv, Leaving, Handling
<1>5. used <= available
  BY DEF SpaceInv
<1>6. PICK occ, rec : LevelsOK(occ, rec) /\ UsedOK(occ)
  BY <1>1 DEF SpaceInv, Early
<1>7. /\ occ \in [1..Len(Entries) + 1 -> Nat] /\ rec \in [1..Len(Entries) -> Nat]
      /\ occ[1] = 0 /\ occupied = occ[k] /\ used = 0
      /\ \A n \in 1..Len(Entries) : n < k =>
           IF Entries[n].type = "Regular"
           THEN /\ occ[n + 1] = With(occ, n) - T!Smaller(With(occ, n), rec[n])
                /\ With(occ, n) <= required
                /\ rec[n] = T!Reclaimed(Entries[n].path)
           ELSE occ[n + 1] = occ[n]
  BY <1>1, <1>6 DEF LevelsOK, UsedOK, Checked, Ahead, Early
<1>8. /\ occupied' \in Nat /\ required' \in Nat /\ required <= required'
      /\ IF T!Current.type = "Regular"
         THEN /\ occupied' = With(occ, k) - T!Smaller(With(occ, k), T!Reclaimed(T!Current.path))
              /\ With(occ, k) <= required'
         ELSE occupied' = occ[k]
  <2>1. CASE T!Current.type = "Regular"
    BY <1>1, <1>2, <1>3, <1>4, <1>7, <2>1 DEF T!Account, T!Smaller, T!Larger, With
  <2>2. CASE T!Current.type # "Regular"
    BY <1>1, <1>2, <1>7, <2>2
  <2> QED
    BY <2>1, <2>2
<1>9. PICK f \in [1..Len(Entries) + 1 -> Nat], g \in [1..Len(Entries) -> Nat] :
        /\ f[1] = 0 /\ f[k + 1] = occupied' /\ g[k] = T!Reclaimed(T!Current.path)
        /\ \A n \in 1..k : f[n] = occ[n]
        /\ \A n \in 1..k - 1 : g[n] = rec[n]
  <2> DEFINE f == [occ EXCEPT ![k + 1] = occupied']
             g == [rec EXCEPT ![k] = T!Reclaimed(T!Current.path)]
  <2>1. f \in [1..Len(Entries) + 1 -> Nat] /\ g \in [1..Len(Entries) -> Nat]
    BY <1>4, <1>7, <1>8
  <2>2. /\ f[1] = 0 /\ f[k + 1] = occupied' /\ g[k] = T!Reclaimed(T!Current.path)
        /\ \A n \in 1..k : f[n] = occ[n]
        /\ \A n \in 1..k - 1 : g[n] = rec[n]
    BY <1>2, <1>4, <1>7, <1>8
  <2> QED
    BY <2>1, <2>2
<1>10. ASSUME NEW n \in 1..Len(Entries), n < k + 1
       PROVE  IF Entries[n].type = "Regular"
              THEN /\ f[n + 1] = With(f, n) - T!Smaller(With(f, n), g[n])
                   /\ With(f, n) <= required'
                   /\ g[n] = T!Reclaimed(Entries[n].path)
              ELSE f[n + 1] = f[n]
  <2>1. CASE n = k
    BY <1>2, <1>3, <1>8, <1>9, <2>1 DEF With
  <2>2. CASE n # k
    <3>1. n \in 1..k - 1 /\ n + 1 \in 1..k /\ n \in 1..k /\ n < k
      BY <1>2, <1>10, <2>2
    <3>2. f[n] = occ[n] /\ f[n + 1] = occ[n + 1] /\ g[n] = rec[n]
      BY <1>9, <3>1
    <3>3. n \in 1..Len(Entries) + 1 /\ Entries[n].size \in Nat
      BY <1>2, EntryFacts
    <3>4. occ[n] \in Nat
      BY <1>7, <3>3
    <3>5. With(f, n) = With(occ, n) /\ With(occ, n) \in Nat
      BY <3>2, <3>3, <3>4 DEF With
    <3>6. With(occ, n) <= required => With(occ, n) <= required'
      BY <1>2, <1>8, <3>5
    <3> QED
      BY <1>7, <3>1, <3>2, <3>5, <3>6
  <2> QED
    BY <2>1, <2>2
<1>11. (LevelsOK(f, g) /\ UsedOK(f))'
  <2>1. \A n \in 1..Len(Entries) : T!Reclaimed(Entries[n].path)' = T!Reclaimed(Entries[n].path)
    BY <1>1 DEF T!Reclaimed, T!Exists
  <2>2. Checked' = k + 1
    BY <1>1 DEF Checked
  <2>3. LevelsOK(f, g)'
    BY <1>1, <1>9, <1>10, <2>1, <2>2 DEF LevelsOK, With
  <2>4. UsedOK(f)'
    BY <1>1, <1>7 DEF UsedOK, Early
  <2> QED
    BY <2>3, <2>4
<1> QED
  BY <1>1, <1>5, <1>11

\* Steps before the first entry is extracted, and after the last.
LEMMA QuietSpace ==
  ASSUME Accepted, RestoreInv, SpaceInv,
         T!PreflightEnd \/ T!LeavesEnd \/ T!Finish \/ T!Fail \/ T!UnlinkFailed
         \/ \E p \in T!Directories : T!ApplyDirectoryMetadata(p)
  PROVE  SpaceInv'
<1>1. UNCHANGED <<available, node, k, occupied, required, used, touched>>
  BY DEF T!PreflightEnd, T!LeavesEnd, T!Finish, T!Fail, T!UnlinkFailed, T!ApplyDirectoryMetadata, T!fixed,
     T!budget, T!history
<1>2. \/ step' \in {"directoryMetadata", "done", "failed", "uncounted"}
      \/ /\ step = "preflight" /\ step' = "directories" /\ k = Len(Entries) + 1 /\ required <= available
  BY DEF T!PreflightEnd, T!LeavesEnd, T!Finish, T!Fail, T!UnlinkFailed, T!ApplyDirectoryMetadata
<1> SUFFICES ASSUME touched = {}
             PROVE  /\ used' <= available'
                    /\ step' \in Leaving \cup {"directories"} => required' <= available'
                    /\ step' \in Leaving \cup Early => \E occ, rec : (LevelsOK(occ, rec) /\ UsedOK(occ))'
  <2>1. touched' = touched
    BY <1>1
  <2> QED
    BY <2>1 DEF SpaceInv
<1>3. used <= available
  BY DEF SpaceInv
<1>4. CASE step' \in {"directoryMetadata", "done", "failed", "uncounted"}
  BY <1>1, <1>3, <1>4 DEF Leaving, Handling, Early
<1>5. CASE step = "preflight" /\ step' = "directories" /\ k = Len(Entries) + 1 /\ required <= available
  <2>1. PICK occ, rec : LevelsOK(occ, rec) /\ UsedOK(occ)
    BY <1>5 DEF SpaceInv, Early
  <2>2. \A n \in 1..Len(Entries) : T!Reclaimed(Entries[n].path)' = T!Reclaimed(Entries[n].path)
    BY <1>1 DEF T!Reclaimed, T!Exists
  <2>3. Checked' = Checked /\ \A n \in 1..Len(Entries) : Ahead(n)' <=> Ahead(n)
    BY <1>1, <1>5 DEF Checked, Ahead, Early
  <2>4. LevelsOK(occ, rec)'
    BY <1>1, <1>5, <2>1, <2>2, <2>3 DEF LevelsOK, With
  <2>5. UsedOK(occ)'
    BY <1>1, <1>5, <2>1 DEF UsedOK, Early
  <2> QED
    BY <1>1, <1>3, <1>5, <2>4, <2>5
<1> QED
  BY <1>2, <1>4, <1>5

\* During the extraction the levels stand, and the places of the entries still
\* to come are as the preflight has seen them.
LEMMA ExtractSpace ==
  ASSUME Accepted, RestoreInv, SpaceInv,
         \/ \E p \in T!Directories : T!MakeDirectory(p)
         \/ T!SkipDirectory \/ T!OpenTemporary \/ T!LinkTemporary \/ T!WriteContent \/ T!ApplyMetadata
         \/ T!SyncFile \/ T!CommitNode \/ T!UnlinkTemporary
  PROVE  SpaceInv'
<1>1. /\ UNCHANGED <<available, occupied, required, touched>>
      /\ step \in Leaving \cup {"directories"} /\ step' \in Leaving \cup {"directories"}
  BY DEF T!MakeDirectory, T!SkipDirectory, T!OpenTemporary, T!LinkTemporary, T!WriteContent, T!ApplyMetadata,
     T!SyncFile, T!CommitNode, T!UnlinkTemporary, T!Counted, T!Place, T!fixed, T!budget, T!history, Leaving, Handling
<1> SUFFICES ASSUME touched = {}
             PROVE  used' <= available /\ \E occ, rec : (LevelsOK(occ, rec) /\ UsedOK(occ))'
  BY <1>1 DEF SpaceInv
<1>2. used <= available /\ required <= available
  BY <1>1 DEF SpaceInv
<1>3. PICK occ, rec : LevelsOK(occ, rec) /\ UsedOK(occ)
  <2>1. step \in Leaving \cup Early
    BY <1>1 DEF Early
  <2> QED
    BY <2>1 DEF SpaceInv
<1>4. /\ occ \in [1..Len(Entries) + 1 -> Nat] /\ rec \in [1..Len(Entries) -> Nat]
      /\ occ[1] = 0
      /\ \A n \in 1..Len(Entries) :
           IF Entries[n].type = "Regular"
           THEN /\ occ[n + 1] = With(occ, n) - T!Smaller(With(occ, n), rec[n])
                /\ With(occ, n) <= required
                /\ Ahead(n) => rec[n] = T!Reclaimed(Entries[n].path)
           ELSE occ[n + 1] = occ[n]
  <2>1. Checked = Len(Entries) + 1 /\ \A n \in 1..Len(Entries) : n < Checked
    BY <1>1, EntryFacts DEF Checked, Leaving, Handling
  <2> QED
    BY <1>3, <2>1 DEF LevelsOK
<1>5. /\ Len(Entries) \in Nat /\ k \in 1..Len(Entries) + 1 /\ used \in Int
      /\ required \in Nat /\ available \in Nat
  BY EntryFacts DEF RestoreInv, T!TypeOK, Accepted, T!BoundsAssumption
<1>6. ASSUME \A n \in 1..Len(Entries) : Entries[n].type = "Regular" /\ Ahead(n)' =>
               Ahead(n) /\ T!Reclaimed(Entries[n].path)' = T!Reclaimed(Entries[n].path)
      PROVE  LevelsOK(occ, rec)'
  <2>1. step' # "preflight"
    BY <1>1 DEF Leaving, Handling
  <2>2. \A n \in 1..Len(Entries) :
          IF Entries[n].type = "Regular"
          THEN /\ occ[n + 1] = With(occ, n) - T!Smaller(With(occ, n), rec[n])
               /\ With(occ, n) <= required'
               /\ Ahead(n)' => rec[n] = T!Reclaimed(Entries[n].path)'
          ELSE occ[n + 1] = occ[n]
    BY <1>1, <1>4, <1>6
  <2> QED
    BY <1>4, <2>1, <2>2 DEF LevelsOK, With
<1>7. ASSUME NEW p \in T!Directories, T!MakeDirectory(p)
      PROVE  used' <= available /\ (LevelsOK(occ, rec) /\ UsedOK(occ))'
  <2>1. /\ step = "directories" /\ used' = used
        /\ node' \in {node, [node EXCEPT ![p] = T!Ours("dir", p)]}
        /\ (step' = "next" /\ k' = 1) \/ (step' = step /\ k' = k)
    BY <1>7 DEF T!MakeDirectory, T!history
  <2>2. ASSUME NEW n \in 1..Len(Entries), Entries[n].type = "Regular"
        PROVE  T!Reclaimed(Entries[n].path)' = T!Reclaimed(Entries[n].path)
    <3>1. Entries[n].path \in T!Paths /\ Entries[n].path # p
      BY <2>2, EntryFacts
    <3>2. node'[Entries[n].path] = node[Entries[n].path]
      BY <2>1, <3>1 DEF RestoreInv, T!TypeOK
    <3> QED
      BY <3>2 DEF T!Reclaimed, T!Exists
  <2>3. LevelsOK(occ, rec)'
    BY <1>6, <2>1, <2>2 DEF Ahead, Early
  <2>4. used = 0
    BY <1>3, <2>1 DEF UsedOK, Early
  <2>5. UsedOK(occ)'
    BY <1>4, <2>1, <2>4 DEF UsedOK, Early
  <2> QED
    BY <1>2, <2>1, <2>3, <2>5
<1>8. CASE T!SkipDirectory
  <2>1. /\ step = "next" /\ step' = step /\ k \in 1..Len(Entries) /\ Entries[k].type = "Directory"
        /\ k' = k + 1 /\ UNCHANGED <<node, used>>
    BY <1>5, <1>8 DEF T!SkipDirectory, T!history, T!Current
  <2>2. \A n \in 1..Len(Entries) : Ahead(n)' => Ahead(n)
    BY <1>5, <2>1 DEF Ahead, Early
  <2>3. LevelsOK(occ, rec)'
    BY <1>6, <2>1, <2>2 DEF T!Reclaimed, T!Exists
  <2>4. used <= occ[k] /\ occ[k + 1] = occ[k]
    BY <1>3, <1>4, <2>1 DEF UsedOK
  <2>5. UsedOK(occ)'
    BY <2>1, <2>4 DEF UsedOK, Early
  <2> QED
    BY <1>2, <2>1, <2>3, <2>5
<1>9. CASE T!OpenTemporary \/ T!LinkTemporary \/ T!WriteContent \/ T!ApplyMetadata \/ T!SyncFile
  <2>1. UNCHANGED <<node, k>> /\ k \in 1..Len(Entries) /\ T!Current' = T!Current /\ T!Current = Entries[k]
    BY <1>5, <1>9 DEF T!OpenTemporary, T!LinkTemporary, T!WriteContent, T!ApplyMetadata, T!SyncFile, T!Current,
       RestoreInv, TemporaryOK, Handling
  <2>2. step \notin {"unlink", "preflight", "directories"} /\ step' \notin {"unlink", "preflight", "directories"}
    BY <1>9 DEF T!OpenTemporary, T!LinkTemporary, T!WriteContent, T!ApplyMetadata, T!SyncFile
  <2>3. \A n \in 1..Len(Entries) : Ahead(n)' => Ahead(n)
    BY <2>1, <2>2 DEF Ahead, Early
  <2>4. LevelsOK(occ, rec)'
    BY <1>6, <2>1, <2>3 DEF T!Reclaimed, T!Exists
  <2>5. /\ occ[k] \in Nat /\ Entries[k].size \in Nat /\ With(occ, k) \in Nat
        /\ occ[k] <= With(occ, k)
    <3>1. k \in 1..Len(Entries) + 1 /\ k \in 1..Len(Entries)
      BY ONLY <1>5, <2>1
    <3>2. occ[k] \in Nat
      BY ONLY <1>4, <3>1
    <3>3. Entries[k].size \in Nat
      BY ONLY <3>1, Accepted, EntryFacts
    <3> QED
      BY ONLY <3>2, <3>3 DEF With
  <2>6. CASE T!OpenTemporary \/ T!LinkTemporary
    <3>1. step = "next" /\ used' = used /\ step' \in {"write", "metadata", "commit"}
      BY <2>6 DEF T!OpenTemporary, T!LinkTemporary, T!history
    <3>2. used <= occ[k]
      BY <1>3, <3>1 DEF UsedOK
    <3>3. UsedOK(occ)'
      BY <1>5, <2>1, <2>5, <3>1, <3>2 DEF UsedOK, Early, With
    <3> QED
      BY <1>2, <2>4, <3>1, <3>3
  <2>7. CASE T!WriteContent
    <3>1. step = "write" /\ used' = used + Entries[k].size /\ step' = "metadata"
      BY <2>1, <2>7 DEF T!WriteContent
    <3>2. used <= occ[k] /\ T!Current.type = "Regular" /\ With(occ, k) <= required
      BY <1>3, <1>4, <2>1, <3>1 DEF UsedOK, RestoreInv, TemporaryOK
    <3>3. used' <= With(occ, k)
      BY <1>5, <2>5, <3>1, <3>2 DEF With
    <3>4. UsedOK(occ)'
      BY <2>1, <3>1, <3>2, <3>3 DEF UsedOK, Early, With
    <3>5. used' \in Int
      BY <1>5, <2>5, <3>1
    <3> QED
      BY <1>2, <1>5, <2>4, <2>5, <3>2, <3>3, <3>4, <3>5
  <2>8. CASE T!ApplyMetadata \/ T!SyncFile
    <3>1. step \in {"metadata", "sync"} /\ used' = used /\ step' \in {"sync", "commit"}
      BY <2>8 DEF T!ApplyMetadata, T!SyncFile, T!history
    <3>2. UsedOK(occ)'
      BY <1>3, <2>1, <3>1 DEF UsedOK, Early, With
    <3> QED
      BY <1>2, <2>4, <3>1, <3>2
  <2> QED
    BY <1>9, <2>6, <2>7, <2>8
<1>10. CASE T!CommitNode
  <2>1. /\ step = "commit" /\ node' = [node EXCEPT ![T!Current.path] = T!Ours("file", tmp)]
        /\ used' = used - T!Reclaimed(T!Current.path)
        /\ (k' = k + 1 /\ step' = "next") \/ (step' = "unlink" /\ k' = k)
    BY <1>10 DEF T!CommitNode, T!Place, T!Counted
  <2>2. k \in 1..Len(Entries) /\ T!Current = Entries[k] /\ T!Current.path \in T!Paths
    BY <1>5, <2>1, EntryFacts DEF RestoreInv, TemporaryOK, Handling, T!Current
  <2>3. ASSUME NEW n \in 1..Len(Entries), Ahead(n)'
        PROVE  Ahead(n) /\ T!Reclaimed(Entries[n].path)' = T!Reclaimed(Entries[n].path)
    <3>1. k < n
      BY <1>5, <2>1, <2>3 DEF Ahead, Early
    <3>2. Entries[n].path \in T!Paths /\ Entries[n].path # T!Current.path
      BY <1>5, <2>2, <3>1, EntryFacts DEF Accepted, T!EntriesAssumption
    <3>3. node'[Entries[n].path] = node[Entries[n].path]
      BY <2>1, <3>2 DEF RestoreInv, T!TypeOK
    <3> QED
      BY <3>1, <3>3 DEF Ahead, T!Reclaimed, T!Exists
  <2>4. LevelsOK(occ, rec)'
    BY <1>6, <2>3
  <2>5. T!Reclaimed(T!Current.path) \in Nat
    BY <2>2, ReclaimedFacts
  <2>6. used' <= occ[k + 1] /\ used' \in Int /\ used' <= used
    <3>1. /\ occ[k] \in Nat /\ occ[k + 1] \in Nat /\ Entries[k].size \in Nat
          /\ With(occ, k) \in Nat
      <4>1. k \in 1..Len(Entries) + 1 /\ k + 1 \in 1..Len(Entries) + 1
        BY <1>5, <2>2
      <4>2. Entries[k].size \in Nat
        BY <2>2, EntryFacts
      <4>3. occ[k] \in Nat /\ occ[k + 1] \in Nat
        BY <1>4, <4>1
      <4> QED
        BY <4>2, <4>3 DEF With
    <3>2. used <= IF T!Current.type = "Regular" THEN With(occ, k) ELSE occ[k]
      BY <1>3, <2>1 DEF UsedOK
    <3>3. CASE T!Current.type = "Regular"
      <4>1. rec[k] = T!Reclaimed(T!Current.path)
        BY <1>4, <2>1, <2>2, <3>3 DEF Ahead
      <4>2. occ[k + 1] = With(occ, k) - T!Smaller(With(occ, k), T!Reclaimed(T!Current.path))
        BY <1>4, <2>2, <3>3, <4>1
      <4>3. T!Smaller(With(occ, k), T!Reclaimed(T!Current.path)) \in Nat
            /\ T!Smaller(With(occ, k), T!Reclaimed(T!Current.path)) <= T!Reclaimed(T!Current.path)
        BY <2>5, <3>1 DEF T!Smaller
      <4> QED
        BY <1>5, <2>1, <2>5, <3>1, <3>2, <3>3, <4>2, <4>3
    <3>4. CASE T!Current.type # "Regular"
      <4>1. occ[k + 1] = occ[k]
        BY <1>4, <2>2, <3>4
      <4> QED
        BY <1>5, <2>1, <2>5, <3>1, <3>2, <3>4, <4>1
    <3> QED
      BY <3>3, <3>4
  <2>7. UsedOK(occ)'
    BY <2>1, <2>6 DEF UsedOK, Early
  <2>8. used' <= available
    BY <1>2, <1>5, <2>6
  <2> QED
    BY <2>4, <2>7, <2>8
<1>11. CASE T!UnlinkTemporary
  <2>1. step = "unlink" /\ k' = k + 1 /\ step' = "next" /\ UNCHANGED <<node, used>>
    BY <1>11 DEF T!UnlinkTemporary, T!Counted, T!history
  <2>2. \A n \in 1..Len(Entries) : Ahead(n)' => Ahead(n)
    BY <1>5, <2>1 DEF Ahead, Early
  <2>3. LevelsOK(occ, rec)'
    BY <1>6, <2>1, <2>2 DEF T!Reclaimed, T!Exists
  <2>4. UsedOK(occ)'
    BY <1>3, <2>1 DEF UsedOK, Early
  <2> QED
    BY <1>2, <2>1, <2>3, <2>4
<1> QED
  BY <1>7, <1>8, <1>9, <1>10, <1>11

LEMMA SpaceNext ==
  ASSUME Accepted PROVE RestoreInv /\ SpaceInv /\ [T!Next]_T!vars => SpaceInv'
<1> SUFFICES ASSUME RestoreInv, SpaceInv, [T!Next]_T!vars PROVE SpaceInv'
  OBVIOUS
<1>1. CASE UNCHANGED T!vars
  BY <1>1 DEF T!vars, T!fixed, T!budget, T!inodes, T!history, SpaceInv, LevelsOK, UsedOK, Checked, Ahead,
     With, T!Reclaimed, T!Exists, T!Current
<1>2. ASSUME NEW p \in T!Paths, T!Interfere(p) PROVE SpaceInv'
  BY <1>2 DEF T!Interfere, SpaceInv
<1>3. CASE T!Next
  BY <1>2, <1>3, PreflightSpace, QuietSpace, ExtractSpace DEF T!Next, T!Extract
<1> QED
  BY <1>1, <1>3

-----------------------------------------------------------------------------
(* The blocks. A file is written once, so that what all of them leave empty *)
(* in their last blocks is bounded by their number.                         *)

WrittenOK ==
  /\ step \in Early => full = {}
  /\ step \in {"next", "write"} => full \subseteq Before(k)
  /\ step \in Handling \ {"write"} => full \subseteq Before(k + 1)

RestInv ==
  /\ IsFiniteSet(T!Written) /\ rest \in Nat
  /\ rest <= (Block - 1) * Cardinality(T!Written)
  /\ WrittenOK

LEMMA RestInit ==
  ASSUME Accepted, T!Init PROVE RestInv
<1>1. T!Written = {} /\ rest = 0 /\ Block - 1 \in Nat
  BY DEF T!Init, T!Written, Accepted, T!BoundsAssumption
<1>2. IsFiniteSet(T!Written) /\ Cardinality(T!Written) = 0
  BY <1>1, FS_EmptySet
<1> QED
  BY <1>1, <1>2 DEF T!Init, RestInv, WrittenOK, Early, Handling

LEMMA WriteRest ==
  ASSUME Accepted, RestoreInv, RestInv, T!WriteContent PROVE RestInv'
<1>1. /\ step = "write" /\ step' = "metadata" /\ full' = full \cup {tmp} /\ k' = k
      /\ \E space \in T!InBlocks(T!Current.size) : rest' = rest + (space - T!Current.size)
  BY DEF T!WriteContent
<1>2. /\ k \in 1..Len(Entries) /\ T!Current.type = "Regular" /\ tmp = T!Current.path
      /\ T!Current = Entries[k]
  BY <1>1, EntryFacts DEF RestoreInv, T!TypeOK, TemporaryOK, Handling, T!Current
<1>3. T!Of(tmp) = T!Current /\ T!Current.size \in Nat
  BY <1>2, EntryFacts
<1>4. Before(k + 1) = Before(k) \cup {tmp} /\ tmp \notin Before(k) /\ full \subseteq Before(k)
  BY <1>1, <1>2, BeforeNext DEF RestInv, WrittenOK
<1>5. T!Written' = T!Written \cup {tmp} /\ tmp \notin T!Written
  BY <1>1, <1>2, <1>3, <1>4 DEF T!Written
<1>6. /\ IsFiniteSet(T!Written') /\ Cardinality(T!Written') = Cardinality(T!Written) + 1
      /\ Cardinality(T!Written) \in Nat
  BY <1>5, FS_AddElement, FS_CardinalityType DEF RestInv
<1>7. rest' \in Nat /\ rest' <= rest + (Block - 1) /\ Block - 1 \in Nat
  BY <1>1, <1>3, RestFacts DEF RestInv
<1>8. rest' <= (Block - 1) * Cardinality(T!Written')
  <2>1. \A m, c \in Nat : m * (c + 1) = m * c + m /\ m * c \in Nat
    OBVIOUS
  <2>2. rest <= (Block - 1) * Cardinality(T!Written) /\ rest \in Nat
    BY DEF RestInv
  <2> QED
    BY <1>6, <1>7, <2>1, <2>2
<1>9. WrittenOK'
  BY <1>1, <1>4 DEF WrittenOK, Early, Handling
<1> QED
  BY <1>6, <1>7, <1>8, <1>9 DEF RestInv

\* No other step writes a regular file, and a node is made at its own entry.
LEMMA OtherRest ==
  ASSUME Accepted, RestoreInv, RestInv, T!Next, ~T!WriteContent PROVE RestInv'
<1>1. rest' = rest
  BY DEF T!Next, T!Extract, T!Fail, T!Preflight, T!PreflightEnd, T!ApplyDirectoryMetadata, T!Interfere,
     T!MakeDirectory, T!SkipDirectory, T!OpenTemporary, T!LinkTemporary, T!ApplyMetadata, T!SyncFile,
     T!CommitNode, T!Place, T!UnlinkTemporary, T!LeavesEnd, T!Finish, T!UnlinkFailed, T!history
<1>2. CASE T!OpenTemporary
  <2>1. /\ step = "next" /\ k' = k
        /\ T!Current.type = "Regular" => step' = "write" /\ full' = full
        /\ T!Current.type # "Regular" =>
             /\ T!Current.type = "Special" /\ step' = "metadata" /\ full' = full \cup {T!Current.path}
    BY <1>2 DEF T!OpenTemporary
  <2>2. k \in 1..Len(Entries) /\ T!Current = Entries[k]
    BY <1>2, EntryFacts DEF T!OpenTemporary, T!Current, RestoreInv, T!TypeOK
  <2>3. T!Of(T!Current.path) = T!Current
    BY <2>2, EntryFacts
  <2>4. T!Written' = T!Written
    BY <2>1, <2>3 DEF T!Written
  <2>5. WrittenOK'
    <3>1. full \subseteq Before(k)
      BY <2>1 DEF RestInv, WrittenOK
    <3>2. T!Current.type = "Special" => Before(k + 1) = Before(k) \cup {T!Current.path}
      BY <2>2, BeforeNext
    <3> QED
      BY <2>1, <3>1, <3>2 DEF WrittenOK, Early, Handling
  <2> QED
    BY <1>1, <2>4, <2>5 DEF RestInv
<1>3. CASE T!CommitNode \/ T!UnlinkTemporary
  <2>1. /\ full' = full /\ step \in {"commit", "unlink"}
        /\ (step' = "next" /\ k' = k + 1) \/ (step' = "unlink" /\ k' = k)
    BY <1>3 DEF T!CommitNode, T!Place, T!UnlinkTemporary, T!Counted, T!inodes
  <2>2. full \subseteq Before(k + 1)
    BY <2>1 DEF RestInv, WrittenOK, Handling
  <2>3. WrittenOK' /\ T!Written' = T!Written
    BY <2>1, <2>2 DEF WrittenOK, T!Written, Early, Handling
  <2> QED
    BY <1>1, <2>3 DEF RestInv
<1>4. CASE T!SkipDirectory
  <2>1. full' = full /\ step = "next" /\ step' = step /\ k' = k + 1
    BY <1>4 DEF T!SkipDirectory, T!inodes
  <2>2. Before(k + 1) = Before(k)
    <3>1. k \in 1..Len(Entries) /\ Entries[k].type = "Directory"
      BY <1>4, EntryFacts DEF T!SkipDirectory, T!Current, RestoreInv, T!TypeOK
    <3> QED
      BY <3>1, BeforeNext
  <2>3. WrittenOK' /\ T!Written' = T!Written
    BY <2>1, <2>2 DEF RestInv, WrittenOK, T!Written, Early, Handling
  <2> QED
    BY <1>1, <2>3 DEF RestInv
<1>5. CASE \E p \in T!Directories : T!MakeDirectory(p)
  <2>1. full' = full /\ step = "directories" /\ step' \in {"directories", "next"}
    BY <1>5 DEF T!MakeDirectory, T!inodes
  <2>2. full = {}
    BY <2>1 DEF RestInv, WrittenOK, Early
  <2>3. WrittenOK' /\ T!Written' = T!Written
    BY <2>1, <2>2 DEF WrittenOK, T!Written, Early, Handling
  <2> QED
    BY <1>1, <2>3 DEF RestInv
<1>6. CASE T!LinkTemporary \/ T!ApplyMetadata \/ T!SyncFile
  <2>1. /\ full' = full /\ k' = k /\ step \in {"next", "metadata", "sync"}
        /\ step' \in {"commit", "sync"}
    BY <1>6 DEF T!LinkTemporary, T!ApplyMetadata, T!SyncFile, T!inodes
  <2>2. full \subseteq Before(k + 1)
    <3>1. k \in 1..Len(Entries)
      BY <1>6, EntryFacts DEF T!LinkTemporary, T!ApplyMetadata, T!SyncFile, RestoreInv, T!TypeOK,
         TemporaryOK, Handling
    <3>2. Before(k) \subseteq Before(k + 1)
      BY <3>1, BeforeNext
    <3> QED
      BY <2>1, <3>2 DEF RestInv, WrittenOK, Handling
  <2>3. WrittenOK' /\ T!Written' = T!Written
    BY <2>1, <2>2 DEF WrittenOK, T!Written, Early, Handling
  <2> QED
    BY <1>1, <2>3 DEF RestInv
<1>7. CASE \/ \E p \in T!Paths : T!Interfere(p)
           \/ T!Fail \/ T!UnlinkFailed \/ T!Preflight \/ T!PreflightEnd \/ T!LeavesEnd \/ T!Finish
           \/ \E p \in T!Directories : T!ApplyDirectoryMetadata(p)
  <2>1. /\ full' = full
        /\ \/ step' = step /\ k' = k
           \/ step' \notin Early \cup Leaving
           \/ step \in Early /\ step' \in Early
    BY <1>7 DEF T!Interfere, T!Fail, T!UnlinkFailed, T!Preflight, T!PreflightEnd, T!LeavesEnd, T!Finish,
       T!ApplyDirectoryMetadata, T!inodes, Early, Leaving, Handling
  <2>2. WrittenOK' /\ T!Written' = T!Written
    BY <2>1 DEF RestInv, WrittenOK, T!Written, Early, Leaving, Handling
  <2> QED
    BY <1>1, <2>2 DEF RestInv
<1> QED
  BY <1>2, <1>3, <1>4, <1>5, <1>6, <1>7 DEF T!Next, T!Extract

LEMMA RestNext ==
  ASSUME Accepted PROVE RestoreInv /\ RestInv /\ [T!Next]_T!vars => RestInv'
<1> SUFFICES ASSUME RestoreInv, RestInv, [T!Next]_T!vars PROVE RestInv'
  OBVIOUS
<1>1. CASE UNCHANGED T!vars
  BY <1>1 DEF T!vars, T!inodes, T!history, RestInv, WrittenOK, T!Written
<1>2. CASE T!Next
  BY <1>2, WriteRest, OtherRest
<1> QED
  BY <1>1, <1>2

\* The bytes fit, and their blocks take less than one more for each file.
LEMMA SpaceIsEnough ==
  ASSUME Accepted, RestoreInv, SpaceInv, RestInv PROVE T!SpaceSuffices
<1> SUFFICES ASSUME touched = {}
             PROVE  /\ used <= available
                    /\ used + rest <= available + (Block - 1) * T!Cardinality(T!Written)
  BY DEF T!SpaceSuffices
<1>1. used <= available /\ used \in Int /\ available \in Nat
  BY DEF SpaceInv, RestoreInv, T!TypeOK, Accepted, T!BoundsAssumption
<1>2. T!Cardinality(T!Written) = Cardinality(T!Written)
  BY DEF T!Cardinality, Cardinality
<1>3. rest \in Nat /\ rest <= (Block - 1) * Cardinality(T!Written)
  BY DEF RestInv
<1>4. (Block - 1) * Cardinality(T!Written) \in Nat
  <2>1. Block - 1 \in Nat /\ Cardinality(T!Written) \in Nat
    BY FS_CardinalityType DEF Accepted, T!BoundsAssumption, RestInv
  <2> QED
    BY <2>1
<1> DEFINE slack == (Block - 1) * Cardinality(T!Written)
<1>5. rest <= slack /\ slack \in Nat
  BY <1>3, <1>4
<1> HIDE DEF slack
<1>6. used + rest <= available + slack
  BY <1>1, <1>3, <1>5
<1> QED
  BY <1>1, <1>2, <1>6 DEF slack

-----------------------------------------------------------------------------
\* The engine's restore.

LEMMA ArchiveAccepted == Accepted
  BY RestoreAssumption DEF Accepted

RestorePart == active = "restore" => RestoreInv /\ SpaceInv /\ RestInv

LEMMA RestorePartInit == MCInit => RestorePart
  BY ArchiveAccepted, RestoreInit, SpaceInit, RestInit DEF MCInit, RestorePart

LEMMA RestoreStep ==
  /\ [MCNext]_mcVars /\ active = "restore" => [T!Next]_T!vars
  /\ [MCNext]_mcVars => active' = active
<1>1. [MCNext]_mcVars => active' = active
  BY DEF MCNext, mcVars
<1>2. [MCNext]_mcVars /\ active = "restore" => [T!Next]_T!vars
  BY DEF MCNext, mcVars, restoreOnly, T!vars, T!fixed, T!budget, T!inodes, T!history
<1> QED
  BY <1>1, <1>2

LEMMA RestorePartNext == RestorePart /\ [MCNext]_mcVars => RestorePart'
<1> SUFFICES ASSUME RestorePart, [MCNext]_mcVars, active' = "restore"
             PROVE  RestoreInv' /\ SpaceInv' /\ RestInv'
  BY DEF RestorePart
<1>1. active = "restore" /\ [T!Next]_T!vars /\ RestoreInv /\ SpaceInv /\ RestInv
  BY RestoreStep DEF RestorePart
<1> QED
  BY <1>1, ArchiveAccepted, RestoreNext, SpaceNext, RestNext

LEMMA CountPartNext ==
  RestorePart /\ (active = "restore" => Counts) /\ [MCNext]_mcVars => (active = "restore" => Counts)'
<1> SUFFICES ASSUME RestorePart, active = "restore" => Counts, [MCNext]_mcVars,
                    active' = "restore"
             PROVE  Counts'
  OBVIOUS
<1>1. active = "restore" /\ [T!Next]_T!vars /\ RestoreInv /\ Counts
  BY RestoreStep DEF RestorePart
<1> QED
  BY <1>1, ArchiveAccepted, CountsNext

\* Whatever the archive and whatever others do to the destination, a restore
\* commits only whole files, each the entry of its path, all of them if it
\* succeeds; undisturbed, it writes no more bytes than the preflight has found
\* space for, and takes less than a block more for each file (extractEntries,
\* commitNodeAt, preflightRestore).
THEOREM RestoreSafe ==
  MCSpec => [](active = "restore" =>
                 /\ T!TypeOK /\ T!CommittedIsWhole /\ T!CommittedIsTheEntry
                 /\ T!SuccessIsComplete /\ T!SpaceSuffices)
<1>1. RestorePart => (active = "restore" =>
                        /\ T!TypeOK /\ T!CommittedIsWhole /\ T!CommittedIsTheEntry
                        /\ T!SuccessIsComplete /\ T!SpaceSuffices)
  BY InvSuccess, ArchiveAccepted, SpaceIsEnough DEF RestorePart, RestoreInv
<1> QED
  BY <1>1, RestorePartInit, RestorePartNext, PTL DEF MCSpec

\* Besides, a restore that fails reports exactly how many entries it has
\* committed, one less if it failed to remove the temporary name of the last
\* (commitNodeAt, extractEntries).
THEOREM RestoredCorrect ==
  MCSpec => []RestoredIsArchived
<1> DEFINE C == active = "restore" => Counts
<1>1. MCInit => C
  BY CountsInit DEF MCInit
<1>2. RestorePart /\ C /\ [MCNext]_mcVars => C'
  BY CountPartNext
<1>3. MCSpec => []C
  BY <1>1, <1>2, RestorePartInit, RestorePartNext, PTL DEF MCSpec
<1>4. C /\ (active = "restore" => /\ T!TypeOK /\ T!CommittedIsWhole /\ T!CommittedIsTheEntry
                                /\ T!SuccessIsComplete /\ T!SpaceSuffices)
        => RestoredIsArchived
  BY CountsReport DEF RestoredIsArchived
<1> QED
  BY <1>3, <1>4, RestoreSafe, PTL

\* No call of the engine puts its own work over what somebody else has made
\* since the call began: neither a new archive, nor a restored entry without
\* overwrite (commitFileNoReplace, commitNodeAt, ensureDirectoryAt).
THEOREM NothingReplaced == MCSpec => NothingIsReplaced
<1> DEFINE A == Keeps /\ (active = "restore" => T!Keeps)
<1>1. RestorePart /\ [MCNext]_mcVars => [A]_mcVars
  <2> SUFFICES ASSUME RestorePart, MCNext PROVE A
    OBVIOUS
  <2>1. Keeps
    <3>1. CASE Next
      BY <3>1, CreateKeeps
    <3>2. CASE UNCHANGED vars
      BY <3>2 DEF vars, target, Keeps
    <3> QED
      BY <3>1, <3>2 DEF MCNext
  <2>2. active = "restore" => T!Keeps
    BY RestoreStep, ArchiveAccepted, StepKeeps DEF RestorePart
  <2> QED
    BY <2>1, <2>2
<1> QED
  BY <1>1, RestorePartInit, RestorePartNext, PTL DEF MCSpec, NothingIsReplaced
=============================================================================
