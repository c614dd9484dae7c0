--------------------------- MODULE KVDBProcsProofs --------------------------
(***************************************************************************)
(* The inductive invariant IInv of KVDBProcs and what follows from it, for *)
(* any number of processes, all keys, values, layouts and capacities, and  *)
(* with any process killed at any point.                                   *)
(***************************************************************************)
EXTENDS KVDBProcsInv, Integers, TLAPS

USE ProcsAssumption

-----------------------------------------------------------------------------
(* Cells and writes. *)

\* What ProcsAssumption says of each size.
LEMMA SizesPositive ==
    /\ HEADER_SIZE \in Nat /\ HEADER_SIZE > 0
    /\ INDEX_ENTRY_SIZE \in Nat /\ INDEX_ENTRY_SIZE > 0
    /\ DATA_ENTRY_HEADER_SIZE \in Nat /\ DATA_ENTRY_HEADER_SIZE > 0
    /\ EOF_SIZE \in Nat /\ EOF_SIZE > 0
OBVIOUS

(* A record takes at least a byte. *)
LEMMA RecordSize ==
    ASSUME NEW c \in Records
    PROVE  c.kind = "record" /\ SizeOf(c) \in Nat /\ SizeOf(c) > 0
<1>1. c.kind = "record" /\ c.key \in Key /\ c.val \in Val
  BY DEF Records
<1>2. SizeOf(c) = DATA_ENTRY_HEADER_SIZE + KeyLen[c.key] + ValLen[c.val]
  BY <1>1 DEF SizeOf
<1>3. KeyLen[c.key] \in Nat /\ ValLen[c.val] \in Nat
  BY <1>1
<1> QED BY <1>1, <1>2, <1>3, SizesPositive

\* The bytes of a header and of an index table.
LEMMA HeaderSize == \A h : SizeOf(HeaderCell(h)) = HEADER_SIZE
BY DEF SizeOf, HeaderCell

LEMMA IndexSize == \A n, T : SizeOf(IndexCell(n, T)) = n * INDEX_ENTRY_SIZE
BY DEF SizeOf, IndexCell

(* A write puts its cell in place and leaves what ends before it or begins   *)
(* behind it.                                                                *)
LEMMA WriteEffect ==
    ASSUME NEW f, NEW o, NEW c
    PROVE  /\ o \in DOMAIN Write(f, o, c) /\ Write(f, o, c)[o] = c
           /\ \A q \in DOMAIN f :
                 /\ q # o
                 /\ q + SizeOf(f[q]) <= o \/ o + SizeOf(c) <= q
                 => q \in DOMAIN Write(f, o, c) /\ Write(f, o, c)[q] = f[q]
           /\ \A q \in DOMAIN Write(f, o, c) :
                 q # o => q \in DOMAIN f /\ Write(f, o, c)[q] = f[q]
BY DEF Write

-----------------------------------------------------------------------------
(* Images. *)

\* Counts of entries are numbers.
LEMMA CountsNat == \A n \in Counts : n \in Nat
BY DEF Counts

\* In an image the records are typed, and each ends where the table begins or before.
LEMMA LayoutTypes ==
    ASSUME NEW im, NEW h, Layout(im, h)
    PROVE  /\ h.EntryCount \in Nat /\ h.EntryCount \in Counts
           /\ h.IndexTableOffset \in Nat
           /\ \A n \in Upto(h.EntryCount) :
                 /\ n \in Nat
                 /\ im.recs[n].Offset \in Nat /\ HEADER_SIZE <= im.recs[n].Offset
                 /\ im.recs[n].cell.kind = "record"
                 /\ EndOf(im.recs[n]) \in Nat
                 /\ EndOf(im.recs[n]) = im.recs[n].Offset + SizeOf(im.recs[n].cell)
                 /\ im.recs[n].Offset < EndOf(im.recs[n])
                 /\ EndOf(im.recs[n]) <= h.IndexTableOffset
                 /\ im.recs[n].Offset < h.IndexTableOffset
<1>1. h.EntryCount \in Nat /\ h.EntryCount \in Counts /\ h.IndexTableOffset \in Nat
  BY CountsNat DEF Layout, Headers
<1>2. ASSUME NEW n \in Upto(h.EntryCount)
      PROVE  /\ n \in Nat
             /\ im.recs[n].Offset \in Nat /\ HEADER_SIZE <= im.recs[n].Offset
             /\ im.recs[n].cell.kind = "record"
             /\ EndOf(im.recs[n]) \in Nat
             /\ EndOf(im.recs[n]) = im.recs[n].Offset + SizeOf(im.recs[n].cell)
             /\ im.recs[n].Offset < EndOf(im.recs[n])
             /\ EndOf(im.recs[n]) <= h.IndexTableOffset
             /\ im.recs[n].Offset < h.IndexTableOffset
  <2>1. /\ im.recs[n].Offset \in Nat /\ HEADER_SIZE <= im.recs[n].Offset
        /\ im.recs[n].cell \in Records
        /\ EndOf(im.recs[n]) <= h.IndexTableOffset
    BY DEF Layout
  <2>2. /\ im.recs[n].cell.kind = "record"
        /\ SizeOf(im.recs[n].cell) \in Nat /\ SizeOf(im.recs[n].cell) > 0
    BY <2>1, RecordSize
  <2>3. EndOf(im.recs[n]) = im.recs[n].Offset + SizeOf(im.recs[n].cell)
    BY DEF EndOf
  <2>4. \A x, y, e \in Nat : y > 0 /\ x + y <= e => x + y \in Nat /\ x < x + y /\ x < e
    OBVIOUS
  <2>5. n \in Nat
    BY <1>1 DEF Upto
  <2> QED BY <1>1, <2>1, <2>2, <2>3, <2>4, <2>5
<1> QED BY <1>1, <1>2

\* An image is a prefix of itself, and a prefix of a prefix is a prefix.
LEMMA PrefixRefl ==
    ASSUME NEW im, NEW h, Layout(im, h)
    PROVE  Prefix(im, h, im, h)
BY LayoutTypes DEF Prefix, Begin

LEMMA PrefixTrans ==
    ASSUME NEW im1, NEW h1, NEW im2, NEW h2, NEW im3, NEW h3,
           Layout(im1, h1), Layout(im2, h2), Layout(im3, h3),
           Prefix(im1, h1, im2, h2), Prefix(im2, h2, im3, h3)
    PROVE  Prefix(im1, h1, im3, h3)
<1>1. h1.EntryCount \in Nat /\ h2.EntryCount \in Nat /\ h3.EntryCount \in Nat
  BY LayoutTypes
<1>2. h1.EntryCount <= h2.EntryCount /\ h2.EntryCount <= h3.EntryCount
  BY DEF Prefix
<1>3. \A n \in Upto(h1.EntryCount) : im3.recs[n] = im1.recs[n]
  BY <1>1, <1>2 DEF Prefix, Upto
<1>4. Begin(im3, h3, h1.EntryCount) = h1.IndexTableOffset
  <2>1. CASE h1.EntryCount = h2.EntryCount
    BY <2>1 DEF Prefix, Begin
  <2>2. CASE h1.EntryCount # h2.EntryCount
    <3>1. h1.EntryCount \in Upto(h2.EntryCount) /\ h1.EntryCount # h3.EntryCount
      BY <1>1, <1>2, <2>2 DEF Upto
    <3>2. im3.recs[h1.EntryCount] = im2.recs[h1.EntryCount]
      BY <3>1 DEF Prefix
    <3>3. im2.recs[h1.EntryCount].Offset = h1.IndexTableOffset
      BY <2>2 DEF Prefix, Begin
    <3> QED BY <3>1, <3>2, <3>3 DEF Begin
  <2> QED BY <2>1, <2>2
<1>5. im1.deleted \subseteq im3.deleted
  BY DEF Prefix
<1> QED BY <1>1, <1>2, <1>3, <1>4, <1>5 DEF Prefix

(* A prefix ends where its continuation has its next record, or ends too. *)
LEMMA PrefixEnds ==
    ASSUME NEW im1, NEW h1, NEW im2, NEW h2,
           Layout(im1, h1), Layout(im2, h2), Prefix(im1, h1, im2, h2)
    PROVE  /\ h1.IndexTableOffset <= h2.IndexTableOffset
           /\ h1.EntryCount = h2.EntryCount <=> h1.IndexTableOffset = h2.IndexTableOffset
           /\ h1.EntryCount # h2.EntryCount =>
                 /\ h1.EntryCount \in Upto(h2.EntryCount)
                 /\ im2.recs[h1.EntryCount].Offset = h1.IndexTableOffset
<1>1. /\ h1.EntryCount \in Nat /\ h2.EntryCount \in Nat /\ h1.EntryCount <= h2.EntryCount
      /\ h1.IndexTableOffset \in Nat /\ h2.IndexTableOffset \in Nat
  BY LayoutTypes DEF Prefix
<1>2. CASE h1.EntryCount = h2.EntryCount
  BY <1>1, <1>2 DEF Prefix, Begin
<1>3. CASE h1.EntryCount # h2.EntryCount
  <2>1. h1.EntryCount \in Upto(h2.EntryCount)
    BY <1>1, <1>3 DEF Upto
  <2>2. im2.recs[h1.EntryCount].Offset = h1.IndexTableOffset
    BY <1>3 DEF Prefix, Begin
  <2>3. im2.recs[h1.EntryCount].Offset < h2.IndexTableOffset
    BY <2>1, LayoutTypes
  <2> QED BY <1>1, <1>3, <2>1, <2>2, <2>3
<1> QED BY <1>2, <1>3

\* A prefix of an image whose records are on the disk has its own there.
LEMMA PrefixOnDisk ==
    ASSUME NEW im1, NEW h1, NEW im2, NEW h2, NEW f,
           Layout(im1, h1), Layout(im2, h2), Prefix(im1, h1, im2, h2), OnDisk(im2, h2, f)
    PROVE  OnDisk(im1, h1, f)
<1>1. h1.EntryCount \in Nat /\ h2.EntryCount \in Nat
  BY LayoutTypes
<1> QED BY <1>1 DEF Prefix, OnDisk, Upto

(* An image with another record at its end, or with more deletions. *)
LEMMA LayoutAppend ==
    ASSUME NEW im, NEW h, Layout(im, h), NEW cell \in Records, NEW im2, NEW h2,
           h2 \in Headers, h2.EntryCount = h.EntryCount + 1,
           h2.IndexTableOffset = h.IndexTableOffset + SizeOf(cell),
           DOMAIN im2.recs = 0 .. h.EntryCount,
           im2.recs[h.EntryCount] = [Offset |-> h.IndexTableOffset, cell |-> cell],
           \A m \in Upto(h.EntryCount) : im2.recs[m] = im.recs[m],
           im.deleted \subseteq im2.deleted, im2.deleted \subseteq Upto(h.EntryCount)
    PROVE  Layout(im2, h2) /\ Prefix(im, h, im2, h2)
<1>0. im2.recs[h.EntryCount].Offset = h.IndexTableOffset
  <2>1. \A r, x, y : r = [Offset |-> x, cell |-> y] => r.Offset = x
    OBVIOUS
  <2> QED BY <2>1
<1> PICK n \in Nat : n = h.EntryCount
  BY LayoutTypes
<1> PICK e \in Nat : e = h.IndexTableOffset
  BY LayoutTypes
<1> PICK s \in Nat : s = SizeOf(cell) /\ s > 0
  BY RecordSize
<1>1. Upto(h2.EntryCount) = 0 .. n /\ Upto(h.EntryCount) = 0 .. n - 1 /\ HEADER_SIZE <= e
  BY DEF Upto, Layout
<1>2. h2.IndexTableOffset = e + s /\ EndOf(im2.recs[n]) = e + s
  BY SMTT(60) DEF EndOf
<1>3. Begin(im2, h2, 0) = HEADER_SIZE
  <2>1. Begin(im, h, 0) = HEADER_SIZE
    BY DEF Layout
  <2>2. CASE n = 0
    BY <2>1, <2>2 DEF Begin
  <2>3. CASE n # 0
    <3>1. 0 \in 0 .. n - 1 /\ 0 # n + 1
      BY <2>3, SMTT(60)
    <3>2. im2.recs[0] = im.recs[0]
      BY <1>1, <3>1
    <3> QED BY <2>1, <2>3, <3>1, <3>2 DEF Begin
  <2> QED BY <2>2, <2>3
<1>4. ASSUME NEW m \in 0 .. n - 1
      PROVE  /\ im2.recs[m] = im.recs[m]
             /\ im.recs[m].Offset \in Nat /\ HEADER_SIZE <= im.recs[m].Offset
             /\ im.recs[m].cell \in Records
             /\ EndOf(im2.recs[m]) = Begin(im2, h2, m + 1)
             /\ EndOf(im.recs[m]) <= e
             /\ EndOf(im.recs[m]) \in Nat
             /\ \A l \in Upto(m) : EndOf(im.recs[l]) <= im.recs[m].Offset
  <2>1. /\ im2.recs[m] = im.recs[m] /\ im.recs[m].Offset \in Nat /\ HEADER_SIZE <= im.recs[m].Offset
        /\ im.recs[m].cell \in Records
        /\ EndOf(im.recs[m]) = Begin(im, h, m + 1)
        /\ EndOf(im.recs[m]) <= e
        /\ \A l \in Upto(m) : EndOf(im.recs[l]) <= im.recs[m].Offset
    BY <1>1 DEF Layout
  <2>2. EndOf(im.recs[m]) \in Nat
    <3>1. SizeOf(im.recs[m].cell) \in Nat
      BY <2>1, RecordSize
    <3>2. im.recs[m].Offset \in Nat
      BY <2>1
    <3>3. EndOf(im.recs[m]) = im.recs[m].Offset + SizeOf(im.recs[m].cell)
      BY DEF EndOf
    <3>4. \A x, y \in Nat : x + y \in Nat
      OBVIOUS
    <3> QED BY <3>1, <3>2, <3>3, <3>4
  <2>3. Begin(im2, h2, m + 1) = Begin(im, h, m + 1)
    <3>1. CASE m + 1 = n
      <4>1. Begin(im, h, n) = e
        BY DEF Begin
      <4>2. n # h2.EntryCount
        <5>1. \A x \in Nat : x # x + 1
          OBVIOUS
        <5> QED BY <5>1
      <4>3. Begin(im2, h2, n) = e
        BY <1>0, <4>2 DEF Begin
      <4> QED BY <3>1, <4>1, <4>3
    <3>2. CASE m + 1 # n
      <4>1. m + 1 \in 0 .. n - 1 /\ m + 1 # n + 1
        <5>1. \A x, y \in Nat : x \in 0 .. y - 1 /\ x + 1 # y
                                 => x + 1 \in 0 .. y - 1 /\ x + 1 # y + 1
          OBVIOUS
        <5> QED BY <3>2, <5>1
      <4>2. im2.recs[m + 1] = im.recs[m + 1]
        BY <1>1, <4>1
      <4> QED BY <3>2, <4>1, <4>2 DEF Begin
    <3> QED BY <3>1, <3>2
  <2> QED BY <2>1, <2>2, <2>3
<1>5. ASSUME NEW m \in 0 .. n
      PROVE  /\ im2.recs[m].Offset \in Nat /\ HEADER_SIZE <= im2.recs[m].Offset
             /\ im2.recs[m].cell \in Records
             /\ EndOf(im2.recs[m]) = Begin(im2, h2, m + 1)
             /\ EndOf(im2.recs[m]) <= h2.IndexTableOffset
             /\ \A l \in Upto(m) : EndOf(im2.recs[l]) <= im2.recs[m].Offset
  <2>1. CASE m = n
    <3>1. Begin(im2, h2, m + 1) = e + s
      BY <1>2, <2>1 DEF Begin
    <3>2. \A l \in Upto(m) : EndOf(im2.recs[l]) <= e
      BY <1>1, <1>4, <2>1 DEF Upto
    <3>3. /\ im2.recs[m].Offset = e /\ im2.recs[m].cell = cell
          /\ EndOf(im2.recs[m]) = e + s
      BY <1>2, <2>1, SMTT(60)
    <3>4. e \in Nat /\ HEADER_SIZE <= e /\ e + s <= e + s
      BY <1>1, SMTT(60)
    <3> QED BY <1>2, <3>1, <3>2, <3>3, <3>4
  <2>2. CASE m \in 0 .. n - 1
    <3>1. EndOf(im2.recs[m]) <= e + s
      <4>1. EndOf(im.recs[m]) \in Nat /\ EndOf(im.recs[m]) <= e /\ im2.recs[m] = im.recs[m]
        BY <1>4, <2>2
      <4>2. \A x \in Nat : x <= e => x <= e + s
        OBVIOUS
      <4> QED BY <4>1, <4>2
    <3>2. \A l \in Upto(m) : EndOf(im2.recs[l]) <= im2.recs[m].Offset
      <4>1. \A l \in Upto(m) : l \in 0 .. n - 1
        BY <2>2 DEF Upto
      <4> QED BY <1>4, <2>2, <4>1
    <3> QED BY <1>2, <1>4, <2>2, <3>1, <3>2
  <2> QED BY <2>1, <2>2
<1>6. Layout(im2, h2)
  <2>1. HEADER_SIZE <= h2.IndexTableOffset
    BY <1>1, <1>2, SizesPositive
  <2>2. im2.deleted \subseteq Upto(h2.EntryCount)
    BY <1>1, SMTT(60)
  <2> QED BY <1>1, <1>3, <1>5, <2>1, <2>2 DEF Layout
<1>7. Prefix(im, h, im2, h2)
  <2>1. Begin(im2, h2, n) = e
    BY SMTT(60) DEF Begin
  <2> QED BY <1>1, <2>1, SMTT(60) DEF Prefix
<1> QED BY <1>6, <1>7

\* More deletions leave an image what it is.
LEMMA LayoutDeleted ==
    ASSUME NEW im, NEW h, Layout(im, h), NEW im2, im2.recs = im.recs,
           im.deleted \subseteq im2.deleted, im2.deleted \subseteq Upto(h.EntryCount)
    PROVE  Layout(im2, h) /\ Prefix(im, h, im2, h)
<1>1. \A n : Begin(im2, h, n) = Begin(im, h, n)
  BY DEF Begin
<1>2. Layout(im2, h)
  BY <1>1 DEF Layout
<1>3. Prefix(im, h, im2, h)
  BY LayoutTypes DEF Prefix, Begin
<1> QED BY <1>2, <1>3

-----------------------------------------------------------------------------
(* Writes at the end of an image, and of the header. *)

\* A write behind the records of an image, or of the header, leaves them on the disk.
LEMMA WriteKeeps ==
    ASSUME NEW im, NEW h, NEW f, NEW o \in Nat, NEW c, Layout(im, h), OnDisk(im, h, f),
           h.IndexTableOffset <= o
    PROVE  OnDisk(im, h, Write(f, o, c))
<1> SUFFICES ASSUME NEW n \in Upto(h.EntryCount), NEW q, q = im.recs[n].Offset
             PROVE  q \in DOMAIN Write(f, o, c) /\ Write(f, o, c)[q] = im.recs[n].cell
  BY DEF OnDisk
<1>1. /\ q \in Nat /\ EndOf(im.recs[n]) = q + SizeOf(im.recs[n].cell)
      /\ EndOf(im.recs[n]) \in Nat /\ EndOf(im.recs[n]) <= h.IndexTableOffset
      /\ q < EndOf(im.recs[n]) /\ h.IndexTableOffset \in Nat
  BY LayoutTypes
<1>2. q \in DOMAIN f /\ f[q] = im.recs[n].cell
  BY DEF OnDisk
<1>3. q # o /\ q + SizeOf(f[q]) <= o
  <2>1. \A x, e, t \in Nat : x < e /\ e <= t /\ t <= o => x # o /\ e <= o
    OBVIOUS
  <2> QED BY <1>1, <1>2, <2>1
<1> QED BY <1>2, <1>3, WriteEffect

LEMMA WriteHeaderKeeps ==
    ASSUME NEW im, NEW h, NEW f, NEW g, Layout(im, h), OnDisk(im, h, f)
    PROVE  OnDisk(im, h, Write(f, 0, HeaderCell(g)))
<1> SUFFICES ASSUME NEW n \in Upto(h.EntryCount), NEW q, q = im.recs[n].Offset
             PROVE  /\ q \in DOMAIN Write(f, 0, HeaderCell(g))
                    /\ Write(f, 0, HeaderCell(g))[q] = im.recs[n].cell
  BY DEF OnDisk
<1>1. q \in Nat /\ HEADER_SIZE <= q
  BY LayoutTypes
<1>2. q # 0 /\ 0 + SizeOf(HeaderCell(g)) <= q
  BY <1>1, HeaderSize, SizesPositive
<1>3. q \in DOMAIN f /\ f[q] = im.recs[n].cell
  BY DEF OnDisk
<1> QED BY <1>2, <1>3, WriteEffect

-----------------------------------------------------------------------------
(* What waits is never nothing. *)

\* What waits in a stream is never taken for an empty stream.
LEMMA RecordWaits == \A at \in Nat, c \in Records : Waiting(at, c) # NoBuf
BY NoBufAssumption DEF Waiting, Waits

LEMMA HeaderWaits == \A at \in Nat, h \in Headers : Waiting(at, HeaderCell(h)) # NoBuf
BY NoBufAssumption DEF Waiting, Waits, HeaderCell

LEMMA EOFWaits == \A at \in Nat : Waiting(at, EOFCell) # NoBuf
BY NoBufAssumption DEF Waiting, Waits, EOFCell

LEMMA TableWaits ==
    ASSUME NEW at \in Nat, NEW n \in Counts, NEW T \in [Upto(n) -> Entries]
    PROVE  Waiting(at, IndexCell(n, T)) # NoBuf
<1>1. n \in Nat
  BY CountsNat
<1> PICK U : U = [m \in 0 .. n - 1 |-> T[m]]
  OBVIOUS
<1>2. U \in Tables
  BY DEF Tables, Upto
<1>3. IndexCell(n, T) \in [kind : {"index"}, count : Nat, table : Tables]
  BY <1>1, <1>2 DEF IndexCell
<1>4. Waiting(at, IndexCell(n, T)) \in Waits
  <2> PICK c : c = IndexCell(n, T)
    OBVIOUS
  <2> QED BY <1>3 DEF Waiting, Waits
<1> QED BY <1>4, NoBufAssumption

\* A table fits the same image when more has been asked for, or it may be misread.
LEMMA TableMore ==
    ASSUME NEW T, NEW im, NEW h, NEW A, NEW B, NEW x, NEW y,
           TableOf(T, im, h, A, x), A \subseteq B, x => y
    PROVE  TableOf(T, im, h, B, y)
BY DEF TableOf

-----------------------------------------------------------------------------
(* The file and its header. *)

HeaderKept ==
    /\ DiskHeader' = DiskHeader
    /\ Holds(disk', 0, "header") <=> Holds(disk, 0, "header")

Writes(o, c) == disk' = Write(disk, o, c)

\* What a write leaves of the file: every cell that it does not overlap.
LEMMA WriteLeaves ==
    ASSUME NEW o, NEW c, Writes(o, c)
    PROVE  /\ o \in DOMAIN disk' /\ disk'[o] = c
           /\ \A q \in DOMAIN disk :
                 /\ q # o
                 /\ q + SizeOf(disk[q]) <= o \/ o + SizeOf(c) <= q
                 => q \in DOMAIN disk' /\ disk'[q] = disk[q]
           /\ \A q \in DOMAIN disk' : q # o => q \in DOMAIN disk /\ disk'[q] = disk[q]
BY WriteEffect DEF Writes

\* So a write behind the records of an image keeps them on the disk.
LEMMA WritesKeep ==
    ASSUME NEW im, NEW h, NEW o \in Nat, NEW c, Layout(im, h), OnDisk(im, h, disk),
           h.IndexTableOffset <= o, Writes(o, c)
    PROVE  OnDisk(im, h, disk')
BY WriteKeeps DEF Writes

(* A write behind the last record leaves the header alone. *)
LEMMA HeaderStays ==
    ASSUME FileInv, NEW o \in Nat, DiskHeader.IndexTableOffset <= o, NEW c,
           Writes(o, c)
    PROVE  HeaderKept
<1>1. /\ DiskHeader.IndexTableOffset \in Nat /\ HEADER_SIZE <= DiskHeader.IndexTableOffset
  BY LayoutTypes DEF FileInv, Layout
<1>2. 0 # o /\ HEADER_SIZE <= o
  BY <1>1, SizesPositive
<1>3. CASE Holds(disk, 0, "header")
  <2>1. 0 \in DOMAIN disk /\ SizeOf(disk[0]) = HEADER_SIZE
    BY <1>3 DEF Holds, SizeOf
  <2>2. 0 \in DOMAIN disk' /\ disk'[0] = disk[0]
    BY <1>2, <2>1, WriteLeaves, SizesPositive
  <2> QED BY <1>3, <2>2 DEF HeaderKept, DiskHeader, Holds
<1>4. CASE ~Holds(disk, 0, "header")
  <2>1. 0 \in DOMAIN disk' => 0 \in DOMAIN disk /\ disk'[0] = disk[0]
    BY <1>2, WriteLeaves
  <2> QED BY <1>4, <2>1 DEF HeaderKept, DiskHeader, Holds
<1> QED BY <1>3, <1>4

\* No close is completed, and what was asked for stays so.
HistoryKept ==
    committed' = committed /\ asked \subseteq asked' /\ (Doubted => Doubted')

\* Cell c is an index table where the header says, and as long.
IsTable(o, c) ==
    o = DiskHeader.IndexTableOffset /\ c.kind = "index" /\ c.count = DiskHeader.EntryCount

SafeTable(o, c) == IsTable(o, c) => TableOf(c.table, committed, DiskHeader, asked, Doubted)

\* A write that is no append leaves the table alone, or replaces it.
SafeEnd(o, c) ==
    ~appended' /\ DiskHeader.EntryCount > 0 =>
       /\ ~appended
       /\ \/ IsTable(o, c)
          \/ DiskHeader.IndexTableOffset + DiskHeader.EntryCount * INDEX_ENTRY_SIZE <= o

(* The invariant of the file after a write behind the last record. *)
LEMMA WriteBehind ==
    ASSUME FileInv, NEW o \in Nat, DiskHeader.IndexTableOffset <= o, NEW c,
           Writes(o, c), HistoryKept, SafeTable(o, c), SafeEnd(o, c)
    PROVE  FileInv' /\ HeaderKept
<1> USE DEF HistoryKept, SafeTable, SafeEnd, IsTable
<1> PICK h : h = DiskHeader
  OBVIOUS
<1> PICK e : e = h.IndexTableOffset
  OBVIOUS
<1> PICK f : f = Write(disk, o, c)
  OBVIOUS
<1>1. HeaderKept
  BY HeaderStays
<1>2. /\ Layout(committed, h) /\ OnDisk(committed, h, disk)
      /\ TableAt(disk, h) => TableOf(disk[e].table, committed, h, asked, Doubted)
      /\ ~appended /\ h.EntryCount > 0 => TableAt(disk, h)
  BY DEF FileInv
<1>3. OnDisk(committed, h, f)
  BY <1>2, WriteKeeps
<1>4. /\ o \in DOMAIN f /\ f[o] = c
      /\ o # e /\ e \in DOMAIN f => e \in DOMAIN disk /\ f[e] = disk[e]
      /\ /\ o # e /\ e \in DOMAIN disk
         /\ e + SizeOf(disk[e]) <= o
         => e \in DOMAIN f /\ f[e] = disk[e]
  BY WriteEffect
<1>5. ASSUME TableAt(f, h) PROVE TableOf(f[e].table, committed, h, asked, Doubted)
  <2>1. e \in DOMAIN f /\ f[e].kind = "index" /\ f[e].count = h.EntryCount
    BY <1>5 DEF TableAt, Holds
  <2>2. CASE o = e
    BY <1>4, <2>1, <2>2
  <2>3. CASE o # e
    <3>1. TableAt(disk, h) /\ f[e] = disk[e]
      BY <1>4, <2>1, <2>3 DEF TableAt, Holds
    <3> QED BY <1>2, <3>1
  <2> QED BY <2>2, <2>3
<1>6. ASSUME ~appended', h.EntryCount > 0 PROVE TableAt(f, h)
  <2>1. CASE o = e /\ c.kind = "index" /\ c.count = h.EntryCount
    BY <1>4, <2>1 DEF TableAt, Holds
  <2>2. CASE ~appended /\ e + h.EntryCount * INDEX_ENTRY_SIZE <= o
    <3>1. e \in DOMAIN disk /\ disk[e].kind = "index" /\ disk[e].count = h.EntryCount
      BY <1>2, <1>6, <2>2 DEF TableAt, Holds
    <3>2. SizeOf(disk[e]) = h.EntryCount * INDEX_ENTRY_SIZE
      BY <3>1 DEF SizeOf
    <3>3. o # e
      <4>1. h.EntryCount \in Nat /\ e \in Nat
        BY <1>2, LayoutTypes
      <4>2. \A x, y \in Nat : x > 0 /\ y > 0 => x * y \in Nat /\ x * y > 0
        OBVIOUS
      <4>3. h.EntryCount * INDEX_ENTRY_SIZE \in Nat /\ h.EntryCount * INDEX_ENTRY_SIZE > 0
        BY <1>6, <4>1, <4>2, SizesPositive
      <4>4. \A x, y \in Nat : y > 0 /\ x + y <= o => o # x
        OBVIOUS
      <4> QED BY <2>2, <4>1, <4>3, <4>4
    <3>4. e + SizeOf(disk[e]) <= o
      BY <2>2, <3>2
    <3> QED BY <1>4, <3>1, <3>3, <3>4 DEF TableAt, Holds
  <2> QED BY <1>6, <2>1, <2>2
<1>7. FileInv'
  <2>1. DiskHeader' = h /\ disk' = f
    BY <1>1 DEF HeaderKept, Writes
  <2>2. TableAt(f, h) => TableOf(f[e].table, committed, h, asked', Doubted')
    BY <1>5, TableMore
  <2> QED BY <1>2, <1>3, <1>6, <2>1, <2>2 DEF FileInv
<1> QED BY <1>1, <1>7

(* Without a write. *)
LEMMA FileSame ==
    ASSUME FileInv, disk' = disk, HistoryKept, ~appended' => ~appended
    PROVE  FileInv' /\ HeaderKept
<1> USE DEF HistoryKept
<1>1. DiskHeader' = DiskHeader /\ HeaderKept
  BY DEF DiskHeader, HeaderKept
<1>2. TableAt(disk, DiskHeader) =>
         TableOf(disk[DiskHeader.IndexTableOffset].table, committed, DiskHeader, asked', Doubted')
  BY TableMore DEF FileInv
<1> QED BY <1>1, <1>2 DEF FileInv

-----------------------------------------------------------------------------
(* Sessions that do not act. *)

SameSession(q) ==
    /\ phase'[q] = phase[q] /\ Header'[q] = Header[q] /\ IndexTable'[q] = IndexTable[q]
    /\ key_arr'[q] = key_arr[q] /\ db_modified'[q] = db_modified[q]
    /\ fpos'[q] = fpos[q] /\ buf'[q] = buf[q] /\ saw'[q] = saw[q]
    /\ stale[q] => stale'[q]
    /\ phase[q] # "header" => overrun'[q] = overrun[q]

\* A step of another process keeps the invariant of a session that writes nothing.
LEMMA OtherSession ==
    ASSUME NEW q \in Proc, SessionInv(q), ~db_modified[q], SameSession(q),
           asked \subseteq asked',
           Live(q) => /\ Holds(disk', 0, "header")
                      /\ Prefix(saw[q], Header[q], committed', DiskHeader')
                      /\ ~stale'[q] => Prefix(committed', DiskHeader', saw[q], Header[q])
    PROVE  SessionInv(q)'
<1>1. ImageInv(q)'
  <2> SUFFICES ASSUME Live(q)' PROVE ImageInv(q)'
    BY DEF ImageInv
  <2>1. Live(q)
    BY DEF Live, SameSession
  <2>2. /\ Layout(saw[q], Header[q])
        /\ phase[q] # "header" => TableOf(IndexTable[q], saw[q], Header[q], asked, overrun[q])
    BY <2>1 DEF SessionInv, ImageInv
  <2>3. phase[q] # "header" => TableOf(IndexTable[q], saw[q], Header[q], asked', overrun'[q])
    BY <2>2, TableMore DEF SameSession
  <2> QED BY <2>1, <2>2, <2>3 DEF ImageInv, SameSession
<1>2. KeysInv(q)'
  BY DEF SessionInv, KeysInv, KeysRead, Live, Using, SameSession
<1>3. WriterInv(q)'
  BY DEF WriterInv, SameSession
<1> QED BY <1>1, <1>2, <1>3 DEF SessionInv

(* In particular when the committed records stay and the header does. *)
LEMMA OtherKept ==
    ASSUME NEW q \in Proc, SessionInv(q), ~db_modified[q], SameSession(q),
           HeaderKept, committed' = committed, asked \subseteq asked'
    PROVE  SessionInv(q)'
<1>1. Live(q) => /\ Holds(disk', 0, "header")
                 /\ Prefix(saw[q], Header[q], committed', DiskHeader')
                 /\ ~stale'[q] => Prefix(committed', DiskHeader', saw[q], Header[q])
  BY DEF SessionInv, ImageInv, HeaderKept, SameSession
<1> QED BY <1>1, OtherSession

-----------------------------------------------------------------------------
(* The session that modified the file. *)

\* What IInv says of a session that has modified the file.
LEMMA WriterFacts ==
    ASSUME IInv, NEW p \in Proc, db_modified[p]
    PROVE  /\ Using(p) /\ Live(p) /\ WaitingInv(p)
           /\ Layout(saw[p], Header[p]) /\ Layout(committed, DiskHeader)
           /\ Prefix(committed, DiskHeader, saw[p], Header[p])
           /\ TableOf(IndexTable[p], saw[p], Header[p], asked, overrun[p])
           /\ overrun[p] => Doubted
           /\ DiskHeader.IndexTableOffset <= Header[p].IndexTableOffset
           /\ DiskHeader.EntryCount <= Header[p].EntryCount
           /\ \A n \in Upto(Header[p].EntryCount) :
                 SeenAt(p, saw[p].recs[n].Offset, saw[p].recs[n].cell)
           /\ ~appended /\ DiskHeader.EntryCount < Header[p].EntryCount =>
                 phase[p] = "ready" /\ buf[p] # NoBuf
           /\ phase[p] \in {"eof", "end"} /\ Header[p].EntryCount > 0 =>
                 /\ Header[p].IndexTableOffset \in DOMAIN disk
                 /\ disk[Header[p].IndexTableOffset]
                       = IndexCell(Header[p].EntryCount, IndexTable[p])
<1>1. Using(p) /\ Live(p) /\ phase[p] # "header"
  BY DEF IInv, ModesInv, Using, Live
<1>2. ImageInv(p) /\ WriterInv(p) /\ FileInv
  BY DEF IInv, SessionInv
<1>3. /\ Layout(saw[p], Header[p]) /\ Layout(committed, DiskHeader)
      /\ Prefix(committed, DiskHeader, saw[p], Header[p])
      /\ TableOf(IndexTable[p], saw[p], Header[p], asked, overrun[p])
  BY <1>1, <1>2 DEF ImageInv, FileInv
<1>4. /\ DiskHeader.IndexTableOffset <= Header[p].IndexTableOffset
      /\ DiskHeader.EntryCount <= Header[p].EntryCount
  BY <1>3, PrefixEnds DEF Prefix
<1>5. overrun[p] => Doubted
  BY <1>1 DEF IInv, OverrunInv
<1> QED BY <1>1, <1>2, <1>3, <1>4, <1>5 DEF WriterInv

(* The table that is written is the one in memory. *)
LEMMA TableOfCell ==
    ASSUME NEW T, NEW im, NEW h, NEW A, NEW x, TableOf(T, im, h, A, x)
    PROVE  /\ IndexCell(h.EntryCount, T).kind = "index"
           /\ IndexCell(h.EntryCount, T).count = h.EntryCount
           /\ IndexCell(h.EntryCount, T).table = T
BY DEF TableOf, IndexCell, Upto

(* If it is as long as the committed one it describes the committed records. *)
LEMMA TableOfPrefix ==
    ASSUME NEW T, NEW im1, NEW h1, NEW im2, NEW h2, NEW A, NEW x,
           TableOf(T, im2, h2, A, x),
           Prefix(im1, h1, im2, h2), h1.EntryCount = h2.EntryCount
    PROVE  TableOf(T, im1, h1, A, x)
BY DEF TableOf, Prefix

\* Once nothing of a session's records waits, all are on the disk.
LEMMA RecordsOnDisk ==
    ASSUME NEW p \in Proc,
           \A n \in Upto(Header[p].EntryCount) :
              SeenAt(p, saw[p].recs[n].Offset, saw[p].recs[n].cell),
           buf[p] = NoBuf \/ \A n \in Upto(Header[p].EntryCount) :
                                buf[p].at # saw[p].recs[n].Offset
    PROVE  OnDisk(saw[p], Header[p], disk)
BY SMTT(60) DEF SeenAt, OnDisk

(* Where the last record waits. *)
LEMMA LastFacts ==
    ASSUME IInv, NEW p \in Proc, db_modified[p], LastWaits(p)
    PROVE  LET n == Header[p].EntryCount - 1
               rec == saw[p].recs[n]
           IN  /\ n \in Upto(Header[p].EntryCount)
               /\ DiskHeader.EntryCount < Header[p].EntryCount
               /\ buf[p].at = rec.Offset /\ buf[p].cell = rec.cell /\ buf[p] # NoBuf
               /\ rec.Offset \in Nat /\ DiskHeader.IndexTableOffset <= rec.Offset
               /\ rec.cell.kind = "record"
               /\ \A m \in Upto(Header[p].EntryCount) :
                     m # n => /\ m \in Upto(n)
                              /\ saw[p].recs[m].Offset # rec.Offset
                              /\ EndOf(saw[p].recs[m]) <= rec.Offset
<1> PICK im : im = saw[p]
  OBVIOUS
<1> PICK h : h = Header[p]
  OBVIOUS
<1> PICK n : n = h.EntryCount - 1
  OBVIOUS
<1>1. /\ Layout(im, h) /\ Layout(committed, DiskHeader)
      /\ Prefix(committed, DiskHeader, im, h)
  BY WriterFacts
<1>2. /\ h.EntryCount \in Nat /\ DiskHeader.EntryCount \in Nat
      /\ DiskHeader.IndexTableOffset \in Nat
  BY <1>1, LayoutTypes
<1>3. DiskHeader.EntryCount <= n /\ buf[p] = Waiting(im.recs[n].Offset, im.recs[n].cell)
  BY DEF LastWaits
<1>4. n \in Upto(h.EntryCount) /\ n \in Nat /\ DiskHeader.EntryCount < h.EntryCount
  BY <1>2, <1>3 DEF Upto
<1>5. /\ im.recs[n].Offset \in Nat /\ im.recs[n].cell \in Records
      /\ \A m \in Upto(n) : EndOf(im.recs[m]) <= im.recs[n].Offset
  BY <1>1, <1>4 DEF Layout
<1>6. im.recs[n].cell.kind = "record" /\ buf[p] # NoBuf
  BY <1>3, <1>5, RecordSize, RecordWaits
<1>7. buf[p].at = im.recs[n].Offset /\ buf[p].cell = im.recs[n].cell
  BY <1>3 DEF Waiting
<1>8. ASSUME NEW m \in Upto(h.EntryCount), m # n
      PROVE  /\ m \in Upto(n) /\ im.recs[m].Offset # im.recs[n].Offset
             /\ EndOf(im.recs[m]) <= im.recs[n].Offset
  <2>1. m \in Upto(n)
    BY <1>2, <1>4, <1>8 DEF Upto
  <2>2. /\ im.recs[m].Offset < EndOf(im.recs[m]) /\ im.recs[m].Offset \in Nat
        /\ EndOf(im.recs[m]) \in Nat
    BY <1>1, LayoutTypes
  <2>3. EndOf(im.recs[m]) <= im.recs[n].Offset
    BY <1>5, <2>1
  <2> QED BY <1>5, <2>1, <2>2, <2>3
<1>9. DiskHeader.IndexTableOffset <= im.recs[n].Offset
  <2>1. /\ DiskHeader.EntryCount \in Upto(h.EntryCount)
        /\ im.recs[DiskHeader.EntryCount].Offset = DiskHeader.IndexTableOffset
    BY <1>1, <1>2, <1>4, PrefixEnds
  <2>2. CASE DiskHeader.EntryCount = n
    BY <1>2, <2>1, <2>2
  <2>3. CASE DiskHeader.EntryCount # n
    <3>1. /\ EndOf(im.recs[DiskHeader.EntryCount]) <= im.recs[n].Offset
          /\ im.recs[DiskHeader.EntryCount].Offset < EndOf(im.recs[DiskHeader.EntryCount])
          /\ EndOf(im.recs[DiskHeader.EntryCount]) \in Nat
      BY <1>1, <1>8, <2>1, <2>3, LayoutTypes
    <3> QED BY <1>2, <1>5, <2>1, <3>1
  <2> QED BY <2>2, <2>3
<1> QED BY <1>4, <1>5, <1>6, <1>7, <1>8, <1>9

\* A table is written over a table of the same length only whole.
SafeLength(p, c) ==
    /\ TableAt(disk, DiskHeader)
    /\ Header[p].IndexTableOffset = DiskHeader.IndexTableOffset
    /\ Header[p].EntryCount = DiskHeader.EntryCount
    => c.count = DiskHeader.EntryCount

(* The write of the table, whole or in part, at the end of the records. *)
LEMMA WriteTable ==
    ASSUME IInv, NEW p \in Proc, db_modified[p], phase[p] \notin {"ready"},
           NEW c, c.kind = "index",
           NEW o, o = Header[p].IndexTableOffset,
           SafeTable(o, c), SafeLength(p, c), Writes(o, c),
           HistoryKept, ~appended' => ~appended,
           buf[p] # NoBuf => buf[p].at = o
    PROVE  /\ FileInv' /\ HeaderKept /\ OnDisk(saw[p], Header[p], disk')
           /\ ~appended' => DiskHeader.EntryCount = Header[p].EntryCount
<1>1. /\ Layout(saw[p], Header[p]) /\ Layout(committed, DiskHeader)
      /\ Prefix(committed, DiskHeader, saw[p], Header[p])
      /\ DiskHeader.IndexTableOffset <= o
      /\ DiskHeader.EntryCount <= Header[p].EntryCount
      /\ ~appended /\ DiskHeader.EntryCount < Header[p].EntryCount => phase[p] = "ready"
      /\ \A n \in Upto(Header[p].EntryCount) :
            SeenAt(p, saw[p].recs[n].Offset, saw[p].recs[n].cell)
  BY WriterFacts
<1>2. /\ o \in Nat /\ DiskHeader.EntryCount \in Nat /\ Header[p].EntryCount \in Nat
      /\ DiskHeader.EntryCount = Header[p].EntryCount <=> o = DiskHeader.IndexTableOffset
      /\ \A n \in Upto(Header[p].EntryCount) : saw[p].recs[n].Offset # o
  <2>1. \A n \in Upto(Header[p].EntryCount) :
           saw[p].recs[n].Offset \in Nat /\ saw[p].recs[n].Offset < o
    BY <1>1, LayoutTypes
  <2>2. o \in Nat /\ DiskHeader.EntryCount \in Nat /\ Header[p].EntryCount \in Nat
    BY <1>1, LayoutTypes
  <2>3. DiskHeader.EntryCount = Header[p].EntryCount <=> DiskHeader.IndexTableOffset = o
    BY <1>1, PrefixEnds
  <2> QED BY <2>1, <2>2, <2>3
<1>3. ~appended' => DiskHeader.EntryCount = Header[p].EntryCount
  BY <1>1, <1>2
<1>4. OnDisk(saw[p], Header[p], disk')
  <2>1. OnDisk(saw[p], Header[p], disk)
    BY <1>1, <1>2, RecordsOnDisk
  <2>2. o \in Nat /\ Header[p].IndexTableOffset <= o
    BY <1>2
  <2> QED BY <1>1, <2>1, <2>2, WritesKeep
<1>5. FileInv
  BY DEF IInv
<1>6. SafeEnd(o, c)
  <2>1. ~appended /\ DiskHeader.EntryCount > 0 => TableAt(disk, DiskHeader)
    BY <1>5 DEF FileInv
  <2> QED BY <1>2, <1>3, <2>1 DEF SafeEnd, SafeLength, IsTable
<1>7. FileInv' /\ HeaderKept
  BY <1>1, <1>2, <1>5, <1>6, WriteBehind
<1> QED BY <1>3, <1>4, <1>7

Flushes(p) ==
    /\ disk' = Flushed(p)
    /\ RecordReaches(FlushesRecord(p))

\* A flush of an empty stream changes nothing; one of a stream that holds a cell writes it.
LEMMA FlushNothing ==
    ASSUME NEW p, Flushes(p), buf[p] = NoBuf
    PROVE  disk' = disk /\ (~appended' => ~appended)
BY DEF Flushes, Flushed, FlushesRecord, RecordReaches

LEMMA FlushWrites ==
    ASSUME NEW p, Flushes(p), NEW at, NEW c, buf[p] = Waiting(at, c), buf[p] # NoBuf
    PROVE  /\ Writes(at, c)
           /\ buf[p].at = at
           /\ ~appended' => ~appended
           /\ c.kind = "record" => appended'
<1>1. buf[p].at = at /\ buf[p].cell = c
  BY DEF Waiting
<1>2. Writes(at, c)
  BY <1>1 DEF Flushes, Flushed, Writes
<1>3. ~appended' => ~appended
  BY DEF Flushes, RecordReaches
<1>4. c.kind = "record" => appended'
  BY <1>1 DEF Flushes, FlushesRecord, RecordReaches
<1> QED BY <1>1, <1>2, <1>3, <1>4

(* A flush keeps the file and the session's records, and shows that nothing was  *)
(* appended only if nothing was.                                                 *)
LEMMA FlushKeeps ==
    ASSUME IInv, NEW p \in Proc, db_modified[p], phase[p] # "end",
           Flushes(p), HistoryKept
    PROVE  /\ FileInv' /\ HeaderKept /\ OnDisk(saw[p], Header[p], disk')
           /\ ~appended' => DiskHeader.EntryCount = Header[p].EntryCount
           /\ phase[p] # "ready" /\ Header[p].EntryCount > 0 =>
                 /\ Header[p].IndexTableOffset \in DOMAIN disk'
                 /\ disk'[Header[p].IndexTableOffset]
                       = IndexCell(Header[p].EntryCount, IndexTable[p])
<1> PICK h : h = Header[p]
  OBVIOUS
<1> PICK o : o = h.IndexTableOffset
  OBVIOUS
<1> PICK T : T = IndexTable[p]
  OBVIOUS
<1>1. /\ Using(p) /\ WaitingInv(p)
      /\ Layout(saw[p], h) /\ Layout(committed, DiskHeader)
      /\ Prefix(committed, DiskHeader, saw[p], h)
      /\ TableOf(T, saw[p], h, asked, overrun[p]) /\ (overrun[p] => Doubted)
      /\ DiskHeader.IndexTableOffset <= o /\ DiskHeader.EntryCount <= h.EntryCount
      /\ ~appended /\ DiskHeader.EntryCount < h.EntryCount =>
            phase[p] = "ready" /\ buf[p] # NoBuf
      /\ \A n \in Upto(h.EntryCount) : SeenAt(p, saw[p].recs[n].Offset, saw[p].recs[n].cell)
      /\ phase[p] \in {"eof", "end"} /\ h.EntryCount > 0 =>
            o \in DOMAIN disk /\ disk[o] = IndexCell(h.EntryCount, T)
  BY WriterFacts
<1>2. /\ h.EntryCount \in Nat /\ h.EntryCount \in Counts /\ o \in Nat
      /\ DiskHeader.EntryCount \in Nat /\ DiskHeader.IndexTableOffset \in Nat
      /\ \A n \in Upto(h.EntryCount) : saw[p].recs[n].Offset \in Nat /\ saw[p].recs[n].Offset < o
  BY <1>1, LayoutTypes
<1>3. FileInv /\ phase[p] \in {"ready", "table", "eof"}
  BY <1>1 DEF IInv, Using
<1>4. CASE phase[p] = "ready" /\ buf[p] = NoBuf
  <2>1. disk' = disk /\ (~appended' => ~appended)
    BY <1>4, FlushNothing
  <2>2. FileInv' /\ HeaderKept
    BY <1>3, <2>1, FileSame
  <2>3. OnDisk(saw[p], h, disk')
    BY <1>1, <1>4, <2>1, RecordsOnDisk
  <2> QED BY <1>1, <1>2, <1>4, <2>1, <2>2, <2>3
<1>5. CASE phase[p] = "ready" /\ LastWaits(p)
  <2> PICK n : n = h.EntryCount - 1
    OBVIOUS
  <2> PICK rec : rec = saw[p].recs[n]
    BY SMTT(60)
  <2>1. /\ n \in Upto(h.EntryCount)
        /\ buf[p].at = rec.Offset /\ buf[p].cell = rec.cell /\ buf[p] # NoBuf
        /\ rec.Offset \in Nat /\ DiskHeader.IndexTableOffset <= rec.Offset
        /\ rec.cell.kind = "record"
        /\ \A m \in Upto(h.EntryCount) :
              m # n => /\ saw[p].recs[m].Offset # rec.Offset
                       /\ EndOf(saw[p].recs[m]) <= rec.Offset
    BY <1>5, LastFacts
  <2>2. Writes(rec.Offset, rec.cell) /\ appended'
    <3>1. Writes(rec.Offset, rec.cell)
      BY <2>1, ZenonT(60) DEF Flushes, Flushed, Writes
    <3>2. appended'
      BY <2>1, ZenonT(60) DEF Flushes, FlushesRecord, RecordReaches
    <3> QED BY <3>1, <3>2, SMTT(60)
  <2>3. FileInv' /\ HeaderKept
    <3>1. SafeTable(rec.Offset, rec.cell) /\ SafeEnd(rec.Offset, rec.cell)
      BY <2>1, <2>2 DEF SafeTable, SafeEnd, IsTable
    <3> QED BY <1>3, <2>1, <2>2, <3>1, WriteBehind
  <2>4. OnDisk(saw[p], h, disk')
    <3> SUFFICES ASSUME NEW m \in Upto(h.EntryCount), NEW q, q = saw[p].recs[m].Offset
                 PROVE  q \in DOMAIN disk' /\ disk'[q] = saw[p].recs[m].cell
      BY SMTT(60) DEF OnDisk
    <3>1. CASE m = n
      BY <2>2, <3>1, WriteLeaves, SMTT(60)
    <3>2. CASE m # n
      <4>1. q \in DOMAIN disk /\ disk[q] = saw[p].recs[m].cell
        BY <1>1, <2>1, <3>2 DEF SeenAt
      <4>2. q + SizeOf(disk[q]) <= rec.Offset
        BY <2>1, <3>2, <4>1 DEF EndOf
      <4> QED BY <2>1, <2>2, <3>2, <4>1, <4>2, WriteLeaves, ZenonT(60)
    <3> QED BY <3>1, <3>2
  <2> QED BY <1>5, <2>2, <2>3, <2>4
<1>6. CASE phase[p] = "table" /\ h.EntryCount = 0
  <2>1. buf[p] = NoBuf
    BY <1>1, <1>6 DEF WaitingInv, TableToWrite
  <2>2. disk' = disk /\ (~appended' => ~appended)
    BY <2>1, FlushNothing
  <2>3. FileInv' /\ HeaderKept
    BY <1>3, <2>2, FileSame
  <2>4. OnDisk(saw[p], h, disk')
    BY <1>1, <2>1, <2>2, RecordsOnDisk
  <2> QED BY <1>1, <1>2, <1>6, <2>3, <2>4
<1>7. CASE phase[p] = "table" /\ h.EntryCount > 0
  <2> PICK c : c = IndexCell(h.EntryCount, T)
    OBVIOUS
  <2>1. buf[p] = Waiting(o, c) /\ buf[p] # NoBuf
    <3>1. buf[p] = Waiting(o, c)
      BY <1>1, <1>2, <1>7 DEF WaitingInv, TableToWrite
    <3>2. T \in [Upto(h.EntryCount) -> Entries]
      BY <1>1 DEF TableOf
    <3> QED BY <1>2, <3>1, <3>2, TableWaits
  <2>2. c.kind = "index" /\ c.count = h.EntryCount /\ c.table = T
    BY <1>1, TableOfCell
  <2>3. Writes(o, c) /\ (~appended' => ~appended) /\ buf[p].at = o
    BY <2>1, FlushWrites
  <2>4. h.EntryCount = DiskHeader.EntryCount => TableOf(T, committed, DiskHeader, asked, Doubted)
    <3>1. TableOf(T, saw[p], h, asked, Doubted)
      BY <1>1, TableMore
    <3> QED BY <1>1, <3>1, TableOfPrefix
  <2>5. /\ FileInv' /\ HeaderKept /\ OnDisk(saw[p], h, disk')
        /\ ~appended' => DiskHeader.EntryCount = h.EntryCount
    <3>1. SafeTable(o, c) /\ SafeLength(p, c)
      BY <2>2, <2>4 DEF SafeTable, SafeLength, IsTable
    <3> QED BY <1>7, <2>2, <2>3, <3>1, WriteTable
  <2>6. o \in DOMAIN disk' /\ disk'[o] = c
    BY <2>3, WriteLeaves
  <2> QED BY <2>5, <2>6
<1>8. CASE phase[p] = "eof"
  <2> PICK at : at = EOFOffset(p)
    OBVIOUS
  <2>1. at = o + h.EntryCount * INDEX_ENTRY_SIZE
    BY DEF EOFOffset
  <2>2. h.EntryCount * INDEX_ENTRY_SIZE \in Nat
    <3>1. \A x, y \in Nat : x * y \in Nat
      OBVIOUS
    <3> QED BY <1>2, <3>1, SizesPositive
  <2>3. at \in Nat /\ o <= at
    BY <1>2, <2>1, <2>2
  <2>4. buf[p] = Waiting(at, EOFCell) /\ buf[p] # NoBuf
    BY <1>1, <1>8, <2>3, EOFWaits DEF WaitingInv
  <2>5. Writes(at, EOFCell) /\ (~appended' => ~appended) /\ buf[p].at = at
    BY <2>4, FlushWrites
  <2>6. OnDisk(saw[p], h, disk')
    <3>1. \A n \in Upto(h.EntryCount) : buf[p].at # saw[p].recs[n].Offset
      BY <1>2, <2>3, <2>5
    <3>2. OnDisk(saw[p], h, disk)
      BY <1>1, <3>1, RecordsOnDisk
    <3> QED BY <1>1, <2>3, <2>5, <3>2, WritesKeep
  <2>7. ~appended' => DiskHeader.EntryCount = h.EntryCount
    BY <1>1, <1>2, <1>8, <2>5
  <2>8. FileInv' /\ HeaderKept
    <3>1. DiskHeader.IndexTableOffset <= at
      BY <1>1, <1>2, <2>3
    <3>2. SafeTable(at, EOFCell)
      BY DEF SafeTable, IsTable, EOFCell
    <3>3. SafeEnd(at, EOFCell)
      <4>1. ~appended' => DiskHeader.IndexTableOffset = o
        BY <1>1, <2>7, PrefixEnds
      <4> QED BY <2>1, <2>3, <2>5, <2>7, <4>1 DEF SafeEnd
    <3> QED BY <1>3, <2>3, <2>5, <3>1, <3>2, <3>3, WriteBehind
  <2>9. ASSUME h.EntryCount > 0
        PROVE  o \in DOMAIN disk' /\ disk'[o] = IndexCell(h.EntryCount, T)
    <3>1. o \in DOMAIN disk /\ disk[o] = IndexCell(h.EntryCount, T)
      BY <1>1, <1>8, <2>9
    <3>2. o # at /\ o + SizeOf(disk[o]) <= at
      <4>1. h.EntryCount * INDEX_ENTRY_SIZE > 0
        <5>1. \A x, y \in Nat : x > 0 /\ y > 0 => x * y > 0
          OBVIOUS
        <5> QED BY <1>2, <2>9, <5>1, SizesPositive
      <4> QED BY <1>2, <2>1, <2>2, <2>3, <3>1, <4>1, IndexSize
    <3> QED BY <2>5, <3>1, <3>2, WriteLeaves
  <2> QED BY <2>6, <2>7, <2>8, <2>9
<1>9. (phase[p] = "ready" => buf[p] = NoBuf \/ LastWaits(p)) /\ (h.EntryCount = 0 \/ h.EntryCount > 0)
  BY <1>1, <1>2 DEF WaitingInv
<1> QED BY <1>3, <1>4, <1>5, <1>6, <1>7, <1>8, <1>9

-----------------------------------------------------------------------------
(* Steps of one session. *)

Modes == {"closed", "emptied", "header", "loadkeys", "ready", "table", "eof", "end"}

Shapes ==
    /\ phase \in [Proc -> Modes]
    /\ db_modified \in [Proc -> BOOLEAN] /\ stale \in [Proc -> BOOLEAN]
    /\ overrun \in [Proc -> BOOLEAN]
    /\ DOMAIN Header = Proc /\ DOMAIN IndexTable = Proc /\ DOMAIN key_arr = Proc
    /\ DOMAIN fpos = Proc /\ DOMAIN buf = Proc /\ DOMAIN saw = Proc

ModeInv(p) ==
    /\ db_modified[p] => Using(p)
    /\ phase[p] \in {"table", "eof", "end"} => db_modified[p]
    /\ ~db_modified[p] => buf[p] = NoBuf

\* ModesInv is a statement on each process, so that a step of one process keeps the rest.
LEMMA ModesParts == ModesInv <=> Shapes /\ \A p \in Proc : ModeInv(p)
BY DEF ModesInv, Shapes, ModeInv, Modes

OthersSame(p) == \A q \in Proc \ {p} : SameSession(q)

\* Once p has modified the file nobody else has it, and may not go on with it.
Excludes(p) == \A q \in Proc \ {p} : ~db_modified[q] /\ (Live(q) => stale'[q])

\* p has not, if it is there while somebody else has.
Excluded(p) == \A q \in Proc \ {p} : db_modified[q] => stale'[p] /\ ~db_modified'[p]

LEMMA ModesStep ==
    ASSUME IInv, NEW p \in Proc, OthersSame(p), Shapes', ModeInv(p)',
           db_modified'[p] => Excludes(p), Live(p)' => Excluded(p)
    PROVE  ModesInv' /\ OneWriterInv'
<1>1. ASSUME NEW q \in Proc, q # p
      PROVE  /\ ModeInv(q)' /\ (Live(q)' <=> Live(q)) /\ db_modified'[q] = db_modified[q]
             /\ stale[q] => stale'[q]
  <2>1. SameSession(q) /\ ModeInv(q)
    BY <1>1, ModesParts DEF OthersSame, IInv
  <2> QED BY <2>1 DEF SameSession, ModeInv, Using, Live
<1>2. ModesInv'
  <2>1. \A q \in Proc : ModeInv(q)'
    BY <1>1
  <2> QED BY <2>1, ModesParts DEF ModesInv, Shapes, ModeInv, Modes, Using
<1>3. OneWriterInv'
  <2> SUFFICES ASSUME NEW q \in Proc, NEW r \in Proc, db_modified'[q], r # q, Live(r)'
               PROVE  stale'[r] /\ ~db_modified'[r]
    BY DEF OneWriterInv
  <2>1. CASE q = p
    BY <1>1, <2>1 DEF Excludes
  <2>2. CASE r = p
    BY <1>1, <2>2 DEF Excluded
  <2>3. CASE q # p /\ r # p
    BY <1>1, <2>3 DEF IInv, OneWriterInv
  <2> QED BY <2>1, <2>2, <2>3
<1> QED BY <1>2, <1>3

\* A step marks who is still to read its table, if records reach the disk, and nobody
\* else without cause.
MarksKept ==
    /\ Doubted => Doubted'
    /\ \A q \in Proc :
          /\ phase'[q] = "header" /\ ~overrun'[q] => ~overrun[q] /\ (Doubted' => Doubted)
          /\ Live(q)' /\ overrun'[q] => overrun[q] \/ Doubted'

\* p has read no new header, and if it may modify the file it already might.
MayStill(p) ==
    /\ phase'[p] = "header" => phase[p] = "header" /\ Header'[p] = Header[p]
    /\ Live(p)' /\ (db_modified'[p] \/ ~stale'[p]) => Live(p) /\ (db_modified[p] \/ ~stale[p])

LEMMA MarksStep ==
    ASSUME OverrunInv, NEW p \in Proc, OthersSame(p), MarksKept, MayStill(p),
           DiskHeader' = DiskHeader
    PROVE  OverrunInv'
<1> SUFFICES ASSUME NEW q \in Proc
             PROVE  /\ phase'[q] = "header" /\ ~overrun'[q] =>
                          ~Doubted' /\ Header'[q].EntryCount = DiskHeader.EntryCount
                    /\ Live(q)' /\ (db_modified'[q] \/ ~stale'[q]) /\ overrun'[q] => Doubted'
  BY DEF OverrunInv
<1>1. /\ phase'[q] = "header" => phase[q] = "header" /\ Header'[q] = Header[q]
      /\ Live(q)' /\ (db_modified'[q] \/ ~stale'[q]) => Live(q) /\ (db_modified[q] \/ ~stale[q])
  <2>1. CASE q = p
    BY <2>1 DEF MayStill
  <2>2. CASE q # p
    BY <2>2 DEF OthersSame, SameSession, Live
  <2> QED BY <2>1, <2>2
<1>2. /\ phase[q] = "header" /\ ~overrun[q] =>
            ~Doubted /\ Header[q].EntryCount = DiskHeader.EntryCount
      /\ Live(q) /\ (db_modified[q] \/ ~stale[q]) /\ overrun[q] => Doubted
  BY DEF OverrunInv
<1> QED BY <1>1, <1>2 DEF MarksKept

\* What RecordReaches marks.
LEMMA ReachesMarks ==
    ASSUME NEW yes, RecordReaches(yes), spoiled' = spoiled,
           \A q \in Proc : phase'[q] = "header" => phase[q] = "header"
    PROVE  /\ MarksKept /\ overrun' \in [Proc -> BOOLEAN]
           /\ \A q \in Proc : phase[q] # "header" => (overrun'[q] <=> overrun[q])
BY DEF RecordReaches, MarksKept, Doubted

\* Nothing is marked in a step without records.
LEMMA NothingMarked ==
    ASSUME UNCHANGED <<appended, spoiled>>, \A q \in Proc : overrun'[q] = overrun[q] \/ ~Live(q)'
    PROVE  MarksKept
BY DEF MarksKept, Doubted, Live

(* Another session while the file stays as it is. *)
LEMMA OtherIdle ==
    ASSUME NEW q \in Proc, SessionInv(q), SameSession(q),
           disk' = disk, HistoryKept, ~appended' => ~appended
    PROVE  SessionInv(q)'
<1>1. DiskHeader' = DiskHeader /\ (Holds(disk', 0, "header") <=> Holds(disk, 0, "header"))
  BY DEF DiskHeader
<1>2. CASE ~db_modified[q]
  <2>1. HeaderKept
    BY <1>1 DEF HeaderKept
  <2> QED BY <1>2, <2>1, OtherKept DEF HistoryKept
<1>3. CASE db_modified[q]
  <2>1. ImageInv(q)'
    <3> SUFFICES ASSUME Live(q)' PROVE ImageInv(q)'
      BY DEF ImageInv
    <3>1. Live(q)
      BY DEF Live, SameSession
    <3>2. /\ Layout(saw[q], Header[q])
          /\ Prefix(committed, DiskHeader, saw[q], Header[q])
          /\ phase[q] # "header" => TableOf(IndexTable[q], saw[q], Header[q], asked, overrun[q])
      BY <1>3, <3>1 DEF SessionInv, ImageInv
    <3>3. phase[q] # "header" => TableOf(IndexTable[q], saw[q], Header[q], asked', overrun'[q])
      BY <3>2, TableMore DEF HistoryKept, SameSession
    <3> QED BY <1>1, <1>3, <3>1, <3>2, <3>3 DEF ImageInv, SameSession, HistoryKept
  <2>2. KeysInv(q)'
    BY DEF SessionInv, KeysInv, KeysRead, Live, Using, SameSession
  <2>3. WriterInv(q)'
    <3>1. WriterInv(q)
      BY DEF SessionInv
    <3>2. WaitingInv(q)'
      BY <1>1, <1>3, <3>1
      DEF WriterInv, WaitingInv, LastWaits, TableToWrite, EOFOffset, SameSession
    <3> QED BY <1>1, <1>3, <3>1, <3>2 DEF WriterInv, SeenAt, SameSession
  <2> QED BY <2>1, <2>2, <2>3 DEF SessionInv
<1> QED BY <1>2, <1>3

(* A step of p that leaves the file alone. *)
LEMMA QuietStep ==
    ASSUME IInv, NEW p \in Proc, OthersSame(p), Shapes', ModeInv(p)', SessionInv(p)',
           db_modified'[p] => Excludes(p), Live(p)' => Excluded(p),
           disk' = disk, HistoryKept, ~appended' => ~appended, OverrunInv'
    PROVE  IInv'
<1>1. ModesInv' /\ OneWriterInv'
  BY ModesStep
<1>2. FileInv'
  BY FileSame DEF IInv
<1>3. ASSUME NEW q \in Proc PROVE SessionInv(q)'
  <2>1. CASE q # p
    <3>1. SessionInv(q) /\ SameSession(q)
      BY <2>1 DEF IInv, OthersSame
    <3> QED BY <3>1, OtherIdle
  <2> QED BY <2>1
<1> QED BY <1>1, <1>2, <1>3 DEF IInv

(* A session that ends leaves nothing behind. *)
LEMMA EndsFacts ==
    ASSUME Shapes, NEW p \in Proc, Ends(p)
    PROVE  /\ OthersSame(p) /\ Shapes' /\ ModeInv(p)' /\ SessionInv(p)'
           /\ ~Live(p)' /\ ~db_modified'[p] /\ MayStill(p)
           /\ \A q \in Proc : overrun'[q] = overrun[q] \/ ~Live(q)'
<1>1. OthersSame(p) /\ Shapes'
  BY DEF OthersSame, SameSession, Ends, Shapes, Modes
<1>2. /\ phase'[p] = "closed" /\ ~db_modified'[p] /\ fpos'[p] = HEADER_SIZE
      /\ key_arr'[p] = Nothing /\ buf'[p] = NoBuf
  BY DEF Shapes, Ends
<1>3. ~Live(p)' /\ ~Using(p)'
  BY <1>2 DEF Live, Using
<1>4. ModeInv(p)'
  BY <1>2, <1>3 DEF ModeInv
<1>5. SessionInv(p)'
  BY <1>2, <1>3 DEF SessionInv, ImageInv, KeysInv, WriterInv
<1>6. MayStill(p) /\ \A q \in Proc : overrun'[q] = overrun[q] \/ ~Live(q)'
  BY <1>2, <1>3 DEF MayStill, Ends, Shapes
<1> QED BY <1>1, <1>2, <1>3, <1>4, <1>5, <1>6

\* The end of a session, by a kill or a failed open, keeps IInv.
LEMMA EndsKeeps ==
    ASSUME IInv, NEW p \in Proc, Ends(p),
           UNCHANGED <<disk, committed, asked, appended, spoiled>>
    PROVE  IInv'
<1>1. Shapes
  BY ModesParts DEF IInv
<1>2. HistoryKept
  BY DEF HistoryKept, Doubted
<1>3. OverrunInv'
  <2>1. DiskHeader' = DiskHeader
    BY DEF DiskHeader
  <2> QED BY <1>1, <2>1, EndsFacts, NothingMarked, MarksStep DEF IInv
<1> QED BY <1>1, <1>2, <1>3, EndsFacts, QuietStep

-----------------------------------------------------------------------------
(* The empty file, and the beginning of a session. *)

\* A new database has an image without records.
LEMMA EmptyLayout ==
    ASSUME NEW cap \in Caps \cup {0}
    PROVE  LET h == [NoHeader EXCEPT !.EntryCapacity = cap]
           IN  /\ Layout(Nobody, h) /\ Prefix(Nobody, NoHeader, Nobody, h)
               /\ \A A, x : TableOf(Nothing, Nobody, h, A, x)
               /\ h.EntryCount = 0 /\ h.IndexTableOffset = HEADER_SIZE
<1> PICK h : h = [EntryCapacity |-> cap, EntryCount |-> 0, IndexTableOffset |-> HEADER_SIZE]
  OBVIOUS
<1>1. h = [NoHeader EXCEPT !.EntryCapacity = cap]
  BY DEF NoHeader
<1>2. /\ h \in Headers /\ h.EntryCount = 0 /\ h.IndexTableOffset = HEADER_SIZE
      /\ Upto(h.EntryCount) = {}
  BY SizesPositive DEF Headers, Counts, Upto
<1>3. DOMAIN Nothing = {} /\ Nobody.recs = Nothing /\ Nobody.deleted = {}
  BY DEF Nothing, Nobody
<1>4. Layout(Nobody, h)
  BY <1>2, <1>3, SizesPositive DEF Layout, Begin
<1>5. Prefix(Nobody, NoHeader, Nobody, h)
  BY <1>2, <1>3 DEF Prefix, Begin, NoHeader, Upto
<1>6. ASSUME NEW A, NEW x PROVE TableOf(Nothing, Nobody, h, A, x)
  BY <1>2, <1>3 DEF TableOf, Nothing, DeletedIn
<1> QED BY <1>1, <1>2, <1>4, <1>5, <1>6

\* Nothing is in an empty file.
LEMMA EmptyFileFacts ==
    /\ DOMAIN EmptyFile = {}
    /\ \A o, kind : ~Holds(EmptyFile, o, kind)
BY DEF EmptyFile, Holds

(* A file that was just emptied. *)
LEMMA FileEmptied ==
    /\ Layout(Nobody, NoHeader) /\ OnDisk(Nobody, NoHeader, EmptyFile)
    /\ ~TableAt(EmptyFile, NoHeader) /\ NoHeader.EntryCount = 0
    /\ ~Holds(EmptyFile, 0, "header")
<1>1. NoHeader = [NoHeader EXCEPT !.EntryCapacity = 0]
  BY DEF NoHeader
<1>2. Layout(Nobody, NoHeader) /\ NoHeader.EntryCount = 0
  BY <1>1, EmptyLayout
<1>3. OnDisk(Nobody, NoHeader, EmptyFile)
  BY <1>2 DEF OnDisk, Upto
<1>4. ~TableAt(EmptyFile, NoHeader)
  BY EmptyFileFacts DEF TableAt
<1> QED BY <1>2, <1>3, <1>4, EmptyFileFacts

\* IInv holds at first.
LEMMA InitIInv == Init => IInv
<1> SUFFICES ASSUME Init PROVE IInv
  OBVIOUS
<1>1. ASSUME NEW p \in Proc
      PROVE  /\ phase[p] = "closed" /\ ~db_modified[p] /\ buf[p] = NoBuf
             /\ fpos[p] = HEADER_SIZE /\ key_arr[p] = Nothing
  BY DEF Init
<1>2. ModesInv
  BY DEF Init, ModesInv, Using
<1>3. OneWriterInv
  BY <1>1 DEF OneWriterInv
<1>4. FileInv
  <2>1. disk = EmptyFile /\ committed = Nobody
    BY DEF Init
  <2>2. DiskHeader = NoHeader
    BY <2>1, FileEmptied DEF DiskHeader
  <2> QED BY <2>1, <2>2, FileEmptied DEF FileInv
<1>5. ASSUME NEW p \in Proc PROVE SessionInv(p)
  BY <1>1 DEF SessionInv, ImageInv, KeysInv, WriterInv, Live, Using
<1>6. OverrunInv
  BY <1>1 DEF OverrunInv, Live
<1> QED BY <1>2, <1>3, <1>4, <1>5, <1>6 DEF IInv

\* Each operation keeps IInv: create, which also ends the sessions of the others.
LEMMA CreateKeeps ==
    ASSUME IInv, NEW p \in Proc, NEW cap \in Caps, KVDB_DBObject_create(p, cap)
    PROVE  IInv'
<1> PICK h : h = [NoHeader EXCEPT !.EntryCapacity = cap]
  OBVIOUS
<1>1. /\ Layout(Nobody, h) /\ Prefix(Nobody, NoHeader, Nobody, h)
      /\ \A A, x : TableOf(Nothing, Nobody, h, A, x)
      /\ h.EntryCount = 0 /\ h.IndexTableOffset = HEADER_SIZE
  BY EmptyLayout
<1>2. /\ phase'[p] = "ready" /\ db_modified'[p] /\ buf'[p] = NoBuf /\ saw'[p] = Nobody
      /\ Header'[p] = h /\ IndexTable'[p] = Nothing /\ key_arr'[p] = Nothing
      /\ fpos'[p] = HEADER_SIZE
  BY DEF KVDB_DBObject_create
<1>3. ASSUME NEW q \in Proc, q # p
      PROVE  /\ phase'[q] \in {"closed", "emptied"} /\ ~db_modified'[q] /\ buf'[q] = NoBuf
             /\ key_arr'[q] = Nothing /\ fpos'[q] = HEADER_SIZE
  BY <1>3 DEF KVDB_DBObject_create
<1>4. ModesInv'
  <2>1. Shapes'
    BY DEF KVDB_DBObject_create, Shapes, Modes
  <2>2. \A q \in Proc : ModeInv(q)'
    BY <1>2, <1>3 DEF ModeInv, Using
  <2> QED BY <2>1, <2>2 DEF ModesInv, Shapes, ModeInv, Modes
<1>5. OneWriterInv'
  BY <1>2, <1>3 DEF OneWriterInv, Live
<1>6. FileInv' /\ DiskHeader' = NoHeader
  <2>1. disk' = EmptyFile /\ committed' = Nobody
    BY DEF KVDB_DBObject_create
  <2>2. DiskHeader' = NoHeader
    BY <2>1, FileEmptied DEF DiskHeader
  <2> QED BY <2>1, <2>2, FileEmptied DEF FileInv
<1>7. ASSUME NEW q \in Proc, q # p PROVE SessionInv(q)'
  BY <1>3, <1>7 DEF SessionInv, ImageInv, KeysInv, WriterInv, Live, Using
<1>8. SessionInv(p)'
  <2>1. committed' = Nobody
    BY DEF KVDB_DBObject_create
  <2>2. ImageInv(p)'
    BY <1>1, <1>2, <1>6, <2>1 DEF ImageInv
  <2>3. KeysInv(p)'
    <3>1. Upto(h.EntryCount) = {} /\ DOMAIN Nothing = {}
      BY <1>1 DEF Upto, Nothing
    <3> QED BY <1>2, <3>1 DEF KeysInv, KeysRead, Live, Using
  <2>4. WriterInv(p)'
    <3>1. Upto(h.EntryCount) = {}
      BY <1>1 DEF Upto
    <3>2. WaitingInv(p)'
      BY <1>2 DEF WaitingInv
    <3>3. NoHeader.EntryCount = 0
      BY DEF NoHeader
    <3> QED BY <1>1, <1>2, <1>6, <3>1, <3>2, <3>3 DEF WriterInv
  <2> QED BY <2>2, <2>3, <2>4 DEF SessionInv
<1>9. OverrunInv'
  BY <1>2, <1>3 DEF OverrunInv, Live, KVDB_DBObject_create
<1> QED BY <1>4, <1>5, <1>6, <1>7, <1>8, <1>9 DEF IInv

(* A session that has not modified the file reads it as committed. *)
LEMMA ReaderFacts ==
    ASSUME IInv, NEW p \in Proc, Live(p), ~db_modified[p]
    PROVE  /\ Layout(saw[p], Header[p]) /\ Layout(committed, DiskHeader)
           /\ Prefix(saw[p], Header[p], committed, DiskHeader)
           /\ OnDisk(committed, DiskHeader, disk) /\ OnDisk(saw[p], Header[p], disk)
           /\ phase[p] # "header" => TableOf(IndexTable[p], saw[p], Header[p], asked, overrun[p])
           /\ Holds(disk, 0, "header") /\ buf[p] = NoBuf /\ KeysInv(p) /\ Shapes
<1>1. ImageInv(p) /\ KeysInv(p) /\ FileInv /\ ModesInv /\ Shapes
  BY ModesParts DEF IInv, SessionInv
<1>2. /\ Layout(saw[p], Header[p]) /\ Layout(committed, DiskHeader)
      /\ Prefix(saw[p], Header[p], committed, DiskHeader)
      /\ OnDisk(committed, DiskHeader, disk)
  BY <1>1 DEF ImageInv, FileInv
<1>3. OnDisk(saw[p], Header[p], disk)
  BY <1>2, PrefixOnDisk
<1> QED BY <1>1, <1>2, <1>3 DEF ImageInv, ModesInv

\* The read of the header, which takes what is committed as the image of the session.
LEMMA OpenHeaderKeeps ==
    ASSUME IInv, NEW p \in Proc, OpenHeader(p)
    PROVE  IInv'
<1>1. /\ phase[p] = "closed" /\ Holds(disk, 0, "header") /\ disk' = disk
      /\ phase'[p] = "header" /\ Header'[p] = DiskHeader /\ saw'[p] = committed
      /\ db_modified' = db_modified /\ fpos' = fpos /\ key_arr' = key_arr /\ buf' = buf
      /\ stale'[p] = ~NobodyElseModifies(p) /\ overrun'[p] = Doubted /\ Doubted' = Doubted
  BY DEF OpenHeader, DiskHeader, Doubted, IInv, ModesInv
<1>2. HistoryKept /\ (~appended' => ~appended) /\ committed' = committed
  BY <1>1 DEF OpenHeader, HistoryKept
<1>3. ModeInv(p) /\ KeysInv(p) /\ Shapes /\ Layout(committed, DiskHeader)
  BY ModesParts DEF IInv, SessionInv, FileInv
<1>4. ~Live(p) /\ ~db_modified[p]
  BY <1>1, <1>3 DEF Live, ModeInv, Using
<1>5. OthersSame(p) /\ Shapes'
  BY <1>3 DEF OthersSame, SameSession, OpenHeader, Shapes, Modes
<1>6. ModeInv(p)'
  BY <1>1, <1>3, <1>4 DEF ModeInv, Using
<1>7. SessionInv(p)'
  <2>1. DiskHeader' = DiskHeader
    BY <1>1 DEF DiskHeader
  <2>2. ImageInv(p)'
    BY <1>1, <1>2, <1>3, <1>4, <2>1, PrefixRefl DEF ImageInv
  <2>3. KeysInv(p)'
    BY <1>1, <1>3, <1>4 DEF KeysInv, Live, Using
  <2>4. WriterInv(p)'
    BY <1>1, <1>4 DEF WriterInv
  <2> QED BY <2>2, <2>3, <2>4 DEF SessionInv
<1>8. Excluded(p)
  BY <1>1, <1>4 DEF Excluded, NobodyElseModifies
<1>9. OverrunInv'
  <2> SUFFICES ASSUME NEW q \in Proc
               PROVE  /\ phase'[q] = "header" /\ ~overrun'[q] =>
                            ~Doubted' /\ Header'[q].EntryCount = DiskHeader'.EntryCount
                      /\ Live(q)' /\ (db_modified'[q] \/ ~stale'[q]) /\ overrun'[q] => Doubted'
    BY DEF OverrunInv
  <2>0. DiskHeader' = DiskHeader
    BY <1>1 DEF DiskHeader
  <2>1. CASE q = p
    BY <1>1, <2>0, <2>1
  <2>2. CASE q # p
    <3>1. /\ phase'[q] = phase[q] /\ Header'[q] = Header[q] /\ overrun'[q] = overrun[q] /\ (stale[q] => stale'[q])
          /\ db_modified'[q] = db_modified[q]
      BY <1>3, <2>2 DEF OpenHeader, Shapes
    <3> QED BY <1>1, <2>0, <3>1 DEF IInv, OverrunInv, Live
  <2> QED BY <2>1, <2>2
<1> QED BY <1>1, <1>2, <1>4, <1>5, <1>6, <1>7, <1>8, <1>9, QuietStep

(* A reader's index table is the committed one, or that of a session that writes it. *)
LEMMA TableRead ==
    ASSUME IInv, NEW p \in Proc, phase[p] = "header", ~db_modified[p],
           Header[p].EntryCount > 0, TableAt(disk, Header[p])
    PROVE  TableOf(disk[Header[p].IndexTableOffset].table, saw[p], Header[p], asked,
                   overrun[p])
<1> PICK h : h = Header[p]
  OBVIOUS
<1> PICK o : o = h.IndexTableOffset
  OBVIOUS
<1> PICK T : T = disk[o].table
  OBVIOUS
<1>1. /\ Layout(saw[p], h) /\ Layout(committed, DiskHeader)
      /\ Prefix(saw[p], h, committed, DiskHeader) /\ OnDisk(committed, DiskHeader, disk)
  BY ReaderFacts DEF Live
<1>2. disk[o].kind = "index" /\ disk[o].count = h.EntryCount /\ o \in DOMAIN disk
  BY DEF TableAt, Holds
<1>3. h.EntryCount = DiskHeader.EntryCount /\ o = DiskHeader.IndexTableOffset
  <2> SUFFICES ASSUME h.EntryCount # DiskHeader.EntryCount PROVE FALSE
    BY <1>1, PrefixEnds
  <2>1. /\ h.EntryCount \in Upto(DiskHeader.EntryCount)
        /\ committed.recs[h.EntryCount].Offset = o
    BY <1>1, PrefixEnds
  <2>2. committed.recs[h.EntryCount].cell.kind = "record"
    BY <1>1, <2>1, LayoutTypes
  <2>3. disk[o] = committed.recs[h.EntryCount].cell
    BY <1>1, <2>1 DEF OnDisk
  <2> QED BY <1>2, <2>2, <2>3
<1>4. TableOf(T, committed, DiskHeader, asked, Doubted)
  <2>1. TableAt(disk, DiskHeader)
    BY <1>2, <1>3 DEF TableAt, Holds
  <2> QED BY <1>3, <2>1 DEF IInv, FileInv
<1>5. Doubted => overrun[p]
  BY DEF IInv, OverrunInv
<1>6. TableOf(T, saw[p], h, asked, overrun[p])
  BY <1>1, <1>3, <1>4, <1>5 DEF TableOf, Prefix
<1> QED BY <1>6

\* The read of the index table, which may already have deletions of a writer.
LEMMA OpenIndexTableKeeps ==
    ASSUME IInv, NEW p \in Proc, OpenIndexTable(p)
    PROVE  IInv'
<1> PICK h : h = Header[p]
  OBVIOUS
<1> PICK o : o = h.IndexTableOffset
  OBVIOUS
<1>1. phase[p] = "header" /\ Live(p) /\ Shapes /\ ModeInv(p)
  BY ModesParts DEF OpenIndexTable, Live, IInv
<1>2. ~db_modified[p]
  BY <1>1 DEF ModeInv, Using
<1>3. Layout(saw[p], h) /\ KeysInv(p) /\ h.EntryCount \in Nat
  BY <1>1, <1>2, ReaderFacts, LayoutTypes
<1>4. CASE Ends(p)
  BY <1>4, EndsKeeps DEF OpenIndexTable
<1>5. CASE ~Ends(p)
  <2> PICK T : /\ T \in IF h.EntryCount = 0 THEN {Nothing}
                       ELSE IF TableAt(disk, h) THEN {disk[o].table}
                       ELSE [Upto(h.EntryCount) -> Misread]
               /\ IndexTable' = [IndexTable EXCEPT ![p] = T]
    BY <1>5 DEF OpenIndexTable, TableAt
  <2>1. /\ phase' = [phase EXCEPT ![p] = "loadkeys"]
        /\ UNCHANGED <<disk, Header, key_arr, db_modified, fpos, buf, saw, history>>
    BY <1>5 DEF OpenIndexTable, history
  <2> USE DEF history
  <2>2. HistoryKept /\ (~appended' => ~appended) /\ DiskHeader' = DiskHeader /\ disk' = disk
    BY <2>1 DEF HistoryKept, DiskHeader, Doubted
  <2>3. OthersSame(p) /\ Shapes'
    BY <1>1, <2>1 DEF OthersSame, SameSession, Shapes, Modes
  <2>4. phase'[p] = "loadkeys" /\ Live(p)' /\ ~Using(p)'
    BY <1>1, <2>1 DEF Shapes, Live, Using
  <2>5. ModeInv(p)'
    BY <1>1, <1>2, <2>1, <2>4 DEF ModeInv
  <2>6. ImageInv(p)'
    <3>1. TableOf(T, saw[p], h, asked, overrun[p])
      <4>1. CASE h.EntryCount = 0
        <5>1. T = Nothing
          BY <4>1
        <5>2. saw[p].deleted = {} /\ Upto(h.EntryCount) = {}
          BY <1>3, <4>1 DEF Layout, Upto
        <5> QED BY <5>1, <5>2 DEF TableOf, Nothing, DeletedIn
      <4>2. CASE h.EntryCount # 0 /\ TableAt(disk, h)
        <5>1. h.EntryCount > 0 /\ T = disk[o].table
          BY <1>3, <4>2
        <5> QED BY <1>1, <1>2, <4>2, <5>1, TableRead
      <4>3. CASE h.EntryCount # 0 /\ ~TableAt(disk, h)
        <5>1. T \in [Upto(h.EntryCount) -> Entries]
          BY <4>3 DEF Entries
        <5>2. overrun[p]
          <6>1. Prefix(saw[p], h, committed, DiskHeader) /\ Layout(committed, DiskHeader)
            BY <1>1, <1>2, ReaderFacts
          <6>2. h.EntryCount = DiskHeader.EntryCount => o = DiskHeader.IndexTableOffset
            BY <1>3, <6>1, PrefixEnds
          <6>3. ~overrun[p] => ~appended /\ h.EntryCount = DiskHeader.EntryCount
            BY <1>1 DEF IInv, OverrunInv, Doubted
          <6>4. ~appended /\ DiskHeader.EntryCount > 0 => TableAt(disk, DiskHeader)
            BY DEF IInv, FileInv
          <6> QED BY <1>3, <4>3, <6>2, <6>3, <6>4 DEF TableAt
        <5> QED BY <5>1, <5>2 DEF TableOf
      <4> QED BY <4>1, <4>2, <4>3
    <3>3. IndexTable'[p] = T
      BY <1>1 DEF Shapes
    <3>2. ImageInv(p)
      BY DEF IInv, SessionInv
    <3> QED BY <1>1, <1>2, <2>1, <2>2, <3>1, <3>2, <3>3 DEF ImageInv
  <2>7. KeysInv(p)'
    <3>1. key_arr[p] = Nothing /\ fpos[p] = HEADER_SIZE
      BY <1>1, <1>3 DEF KeysInv
    <3>2. KeysRead(p, 0)' /\ HEADER_SIZE = Begin(saw[p], h, 0) /\ 0 \in 0 .. h.EntryCount
      BY <1>3, <2>1, <3>1 DEF KeysRead, Nothing, Upto, Layout
    <3> QED BY <2>1, <2>4, <3>1, <3>2 DEF KeysInv
  <2>8. WriterInv(p)'
    BY <1>2, <2>1 DEF WriterInv
  <2>9. Excluded(p)
    BY <1>1, <1>2, <2>1 DEF Excluded, IInv, OneWriterInv
  <2>10. SessionInv(p)' /\ ~db_modified'[p]
    BY <1>2, <2>1, <2>6, <2>7, <2>8 DEF SessionInv
  <2>11. OverrunInv'
    <3>1. MayStill(p)
      BY <1>1, <2>1, <2>4 DEF MayStill
    <3> QED BY <2>1, <2>2, <2>3, <3>1, NothingMarked, MarksStep DEF IInv
  <2> QED BY <2>2, <2>3, <2>5, <2>9, <2>10, <2>11, QuietStep
<1> QED BY <1>4, <1>5

\* Two arrays of one domain have one length.
LEMMA UptoNumber == \A m, n \in Nat : Upto(m) = Upto(n) => m = n
<1> SUFFICES ASSUME NEW m \in Nat, NEW n \in Nat, Upto(m) = Upto(n) PROVE m = n
  OBVIOUS
<1>1. \A i : i \in 0 .. m - 1 <=> i \in 0 .. n - 1
  BY DEF Upto
<1>2. ~(m < n)
  <2> SUFFICES ASSUME m < n PROVE FALSE
    OBVIOUS
  <2>1. m \in 0 .. n - 1 /\ m \notin 0 .. m - 1
    OBVIOUS
  <2> QED BY <1>1, <2>1
<1>3. ~(n < m)
  <2> SUFFICES ASSUME n < m PROVE FALSE
    OBVIOUS
  <2>1. n \in 0 .. m - 1 /\ n \notin 0 .. n - 1
    OBVIOUS
  <2> QED BY <1>1, <2>1
<1> QED BY <1>2, <1>3

\* The record open_load_keys reads next.
NextKey(p) == CHOOSE n \in 0 .. Header[p].EntryCount : DOMAIN key_arr[p] = Upto(n)

\* An iteration of open_load_keys at a record.
LEMMA KeyLoaded ==
    ASSUME NEW p \in Proc, OpenLoadKey(p), Holds(disk, fpos[p], "record"),
           KeyLen[disk[fpos[p]].key] # 0
    PROVE  /\ key_arr' = [key_arr EXCEPT ![p] =
                            [m \in 0 .. NextKey(p) |-> IF m = NextKey(p)
                                                       THEN disk[fpos[p]].key ELSE @[m]]]
           /\ fpos' = [fpos EXCEPT ![p] = fpos[p] + SizeOf(disk[fpos[p]])]
           /\ UNCHANGED <<disk, phase, Header, IndexTable, db_modified, buf, saw, history>>
BY DEF OpenLoadKey, NextKey

(* How far open_load_keys has got. *)
LEMMA LoadingFacts ==
    ASSUME IInv, NEW p \in Proc, phase[p] = "loadkeys"
    PROVE  /\ Live(p) /\ ~db_modified[p] /\ ~Using(p) /\ Shapes
           /\ Header[p].EntryCount \in Nat
           /\ \E n \in 0 .. Header[p].EntryCount :
                 /\ KeysRead(p, n) /\ fpos[p] = Begin(saw[p], Header[p], n)
                 /\ DOMAIN key_arr[p] = Upto(Header[p].EntryCount)
                       <=> n = Header[p].EntryCount
                 /\ NextKey(p) = n
<1> PICK h : h = Header[p]
  OBVIOUS
<1>1. Live(p) /\ ~db_modified[p] /\ ~Using(p) /\ Shapes
  BY ModesParts DEF IInv, ModeInv, Live, Using
<1>2. KeysInv(p) /\ h.EntryCount \in Nat
  BY <1>1, ReaderFacts, LayoutTypes
<1>3. PICK n \in 0 .. h.EntryCount : KeysRead(p, n) /\ fpos[p] = Begin(saw[p], h, n)
  BY <1>2 DEF KeysInv
<1>4. DOMAIN key_arr[p] = Upto(n)
  BY <1>3 DEF KeysRead
<1>5. \A m \in 0 .. h.EntryCount : DOMAIN key_arr[p] = Upto(m) <=> m = n
  <2>1. \A m \in 0 .. h.EntryCount : m \in Nat
    BY <1>2
  <2> QED BY <1>4, <2>1, UptoNumber
<1>6. NextKey(p) = n
  BY <1>5 DEF NextKey
<1>7. h.EntryCount \in 0 .. h.EntryCount
  BY <1>2
<1> QED BY <1>1, <1>2, <1>3, <1>5, <1>6, <1>7

\* An iteration of open_load_keys: it reads record n for entry n.
LEMMA OpenLoadKeyKeeps ==
    ASSUME IInv, NEW p \in Proc, OpenLoadKey(p)
    PROVE  IInv'
<1> PICK h : h = Header[p]
  OBVIOUS
<1>1. phase[p] = "loadkeys" /\ DOMAIN key_arr[p] # Upto(h.EntryCount)
  BY DEF OpenLoadKey
<1>2. Live(p) /\ ~db_modified[p] /\ ~Using(p) /\ Shapes /\ h.EntryCount \in Nat
  BY <1>1, LoadingFacts
<1>3. PICK n \in 0 .. h.EntryCount :
         /\ KeysRead(p, n) /\ fpos[p] = Begin(saw[p], h, n) /\ n # h.EntryCount
         /\ NextKey(p) = n
  BY <1>1, LoadingFacts
<1> PICK rec : rec = saw[p].recs[n]
  OBVIOUS
<1>4. n \in Upto(h.EntryCount) /\ fpos[p] = rec.Offset
  BY <1>2, <1>3 DEF Upto, Begin
<1>5. /\ Layout(saw[p], h) /\ OnDisk(saw[p], h, disk)
  BY <1>2, ReaderFacts
<1>6. /\ rec.Offset \in DOMAIN disk /\ disk[rec.Offset] = rec.cell
      /\ rec.cell.kind = "record" /\ EndOf(rec) = Begin(saw[p], h, n + 1)
  BY <1>4, <1>5, LayoutTypes DEF OnDisk, Layout
<1>0. CASE ~Holds(disk, fpos[p], "record") \/ KeyLen[disk[fpos[p]].key] = 0
  <2>1. Ends(p) /\ UNCHANGED <<disk, committed, asked, appended, spoiled>>
    BY <1>0 DEF OpenLoadKey
  <2> QED BY <2>1, EndsKeeps
<1> SUFFICES ASSUME KeyLen[disk[fpos[p]].key] # 0 PROVE IInv'
  BY <1>0
<1> USE DEF history
<1>7. /\ key_arr' = [key_arr EXCEPT ![p] =
                       [m \in 0 .. n |-> IF m = n THEN rec.cell.key ELSE @[m]]]
      /\ fpos' = [fpos EXCEPT ![p] = EndOf(rec)]
      /\ UNCHANGED <<disk, phase, Header, IndexTable, db_modified, buf, saw, history>>
  <2>1. Holds(disk, rec.Offset, "record")
    BY <1>6 DEF Holds
  <2>2. EndOf(rec) = rec.Offset + SizeOf(disk[rec.Offset])
    BY <1>6 DEF EndOf
  <2> QED BY <1>3, <1>4, <1>6, <2>1, <2>2, KeyLoaded, SMTT(60)
<1>8. HistoryKept /\ (~appended' => ~appended) /\ DiskHeader' = DiskHeader /\ disk' = disk
  BY <1>7 DEF HistoryKept, DiskHeader, Doubted
<1>9. OthersSame(p) /\ Shapes'
  BY <1>2, <1>7 DEF OthersSame, SameSession, Shapes, Modes
<1>10. ModeInv(p)' /\ Live(p)' /\ ~Using(p)' /\ ~db_modified'[p]
  BY <1>2, <1>7, ModesParts DEF IInv, ModeInv, Live, Using
<1>11. ImageInv(p)'
  <2>1. ImageInv(p)
    BY DEF IInv, SessionInv
  <2> QED BY <1>2, <1>7, <1>8, <2>1 DEF ImageInv
<1>12. KeysInv(p)'
  <2>1. /\ DOMAIN key_arr[p] = Upto(n)
        /\ \A m \in Upto(n) : key_arr[p][m] = saw[p].recs[m].cell.key
    BY <1>3 DEF KeysRead
  <2>2. key_arr'[p] = [m \in 0 .. n |-> IF m = n THEN rec.cell.key ELSE key_arr[p][m]]
    BY <1>2, <1>7 DEF Shapes
  <2>3. n + 1 \in 0 .. h.EntryCount /\ Upto(n + 1) = 0 .. n
        /\ \A m \in 0 .. n : m = n \/ m \in Upto(n)
    <3>1. \A x, y \in Nat : x \in 0 .. y /\ x # y =>
             /\ x + 1 \in 0 .. y /\ x + 1 - 1 = x
             /\ \A m \in 0 .. x : m = x \/ m \in 0 .. x - 1
      OBVIOUS
    <3>2. n \in Nat /\ n \in 0 .. h.EntryCount /\ n # h.EntryCount
      BY <1>2, <1>3
    <3>3. /\ n + 1 \in 0 .. h.EntryCount /\ n + 1 - 1 = n
          /\ \A m \in 0 .. n : m = n \/ m \in 0 .. n - 1
      BY <1>2, <3>1, <3>2
    <3> QED BY <3>3 DEF Upto
  <2>4. KeysRead(p, n + 1)'
    BY <1>7, <2>1, <2>2, <2>3 DEF KeysRead
  <2>5. fpos'[p] = Begin(saw[p], h, n + 1)
    BY <1>2, <1>6, <1>7 DEF Shapes
  <2> QED BY <1>1, <1>7, <1>10, <2>3, <2>4, <2>5 DEF KeysInv
<1>13. WriterInv(p)'
  BY <1>10 DEF WriterInv
<1>14. Excluded(p)
  BY <1>2, <1>7 DEF Excluded, IInv, OneWriterInv
<1>15. SessionInv(p)'
  BY <1>11, <1>12, <1>13 DEF SessionInv
<1>16. OverrunInv'
  <2>1. MayStill(p)
    BY <1>2, <1>7, <1>10 DEF MayStill, Live
  <2> QED BY <1>7, <1>8, <1>9, <2>1, NothingMarked, MarksStep DEF IInv
<1> QED BY <1>8, <1>9, <1>10, <1>14, <1>15, <1>16, QuietStep

\* The end of open.
LEMMA OpenDoneKeeps ==
    ASSUME IInv, NEW p \in Proc, OpenDone(p)
    PROVE  IInv'
<1> PICK h : h = Header[p]
  OBVIOUS
<1>1. /\ phase[p] = "loadkeys" /\ DOMAIN key_arr[p] = Upto(h.EntryCount)
      /\ phase' = [phase EXCEPT ![p] = "ready"]
      /\ fpos' = [fpos EXCEPT ![p] = HEADER_SIZE]
      /\ UNCHANGED <<disk, Header, IndexTable, key_arr, db_modified, buf, saw,
                     stale, committed, asked, appended, overrun, spoiled>>
  BY DEF OpenDone, history
<1>2. Live(p) /\ ~db_modified[p] /\ Shapes /\ KeysRead(p, h.EntryCount)
  BY <1>1, LoadingFacts
<1>3. HistoryKept /\ (~appended' => ~appended) /\ DiskHeader' = DiskHeader /\ disk' = disk
  BY <1>1 DEF HistoryKept, DiskHeader, Doubted
<1>4. OthersSame(p) /\ Shapes'
  BY <1>1, <1>2 DEF OthersSame, SameSession, Shapes, Modes
<1>5. phase'[p] = "ready" /\ Live(p)' /\ Using(p)' /\ ~db_modified'[p]
  BY <1>1, <1>2 DEF Shapes, Live, Using
<1>6. ModeInv(p)'
  BY <1>1, <1>5, ModesParts DEF IInv, ModeInv
<1>7. ImageInv(p)'
  <2>1. ImageInv(p)
    BY DEF IInv, SessionInv
  <2> QED BY <1>1, <1>2, <1>3, <2>1 DEF ImageInv
<1>8. KeysInv(p)'
  BY <1>1, <1>2, <1>5 DEF KeysInv, KeysRead
<1>9. WriterInv(p)'
  BY <1>5 DEF WriterInv
<1>10. Excluded(p)
  BY <1>1, <1>2 DEF Excluded, IInv, OneWriterInv
<1>11. SessionInv(p)'
  BY <1>7, <1>8, <1>9 DEF SessionInv
<1>12. OverrunInv'
  <2>1. MayStill(p)
    BY <1>1, <1>2, <1>5 DEF MayStill
  <2> QED BY <1>1, <1>3, <1>4, <2>1, NothingMarked, MarksStep DEF IInv
<1> QED BY <1>3, <1>4, <1>5, <1>6, <1>10, <1>11, <1>12, QuietStep

-----------------------------------------------------------------------------
(* Steps of a session that modifies the file. *)

(* Before it writes, a session that may has all that is committed. *)
LEMMA MayModifyFacts ==
    ASSUME IInv, NEW p \in Proc, phase[p] = "ready", MayModify(p), ~db_modified[p]
    PROVE  /\ Live(p) /\ Layout(committed, DiskHeader)
           /\ Prefix(committed, DiskHeader, saw[p], Header[p])
           /\ DiskHeader.EntryCount = Header[p].EntryCount
           /\ Layout(saw[p], Header[p]) /\ OnDisk(saw[p], Header[p], disk)
           /\ TableOf(IndexTable[p], saw[p], Header[p], asked, overrun[p])
           /\ buf[p] = NoBuf
<1>1. Live(p)
  BY DEF Live
<1>2. /\ Layout(saw[p], Header[p]) /\ Layout(committed, DiskHeader)
      /\ Prefix(saw[p], Header[p], committed, DiskHeader)
      /\ OnDisk(saw[p], Header[p], disk)
      /\ TableOf(IndexTable[p], saw[p], Header[p], asked, overrun[p])
      /\ buf[p] = NoBuf
  BY <1>1, ReaderFacts
<1>3. Prefix(committed, DiskHeader, saw[p], Header[p])
  BY <1>1 DEF IInv, SessionInv, ImageInv, MayModify
<1>4. DiskHeader.EntryCount = Header[p].EntryCount
  <2>1. DiskHeader.EntryCount \in Nat /\ Header[p].EntryCount \in Nat
    BY <1>2, LayoutTypes
  <2>2. DiskHeader.EntryCount <= Header[p].EntryCount /\ Header[p].EntryCount <= DiskHeader.EntryCount
    BY <1>2, <1>3 DEF Prefix
  <2> QED BY <2>1, <2>2
<1> QED BY <1>1, <1>2, <1>3, <1>4

(* Either way the flush before put keeps the file. *)
LEMMA MayModifyFlush ==
    ASSUME IInv, NEW p \in Proc, phase[p] = "ready", MayModify(p), Flushes(p), HistoryKept
    PROVE  /\ FileInv' /\ HeaderKept /\ OnDisk(saw[p], Header[p], disk')
           /\ Layout(saw[p], Header[p]) /\ Layout(committed, DiskHeader)
           /\ Prefix(committed, DiskHeader, saw[p], Header[p])
           /\ TableOf(IndexTable[p], saw[p], Header[p], asked, overrun[p])
<1>1. CASE db_modified[p]
  <2>1. FileInv' /\ HeaderKept /\ OnDisk(saw[p], Header[p], disk')
    BY <1>1, FlushKeeps
  <2> QED BY <1>1, <2>1, WriterFacts
<1>2. CASE ~db_modified[p]
  <2>1. buf[p] = NoBuf /\ FileInv
    BY <1>2, MayModifyFacts DEF IInv
  <2>2. disk' = disk /\ (~appended' => ~appended)
    BY <2>1, FlushNothing
  <2>3. FileInv' /\ HeaderKept
    BY <2>1, <2>2, FileSame
  <2>4. OnDisk(saw[p], Header[p], disk')
    BY <1>2, <2>2, MayModifyFacts
  <2> QED BY <1>2, <2>3, <2>4, MayModifyFacts
<1> QED BY <1>1, <1>2

\* While a session has modified the file nobody else has, and the others are stale.
LEMMA AloneFacts ==
    ASSUME IInv, NEW p \in Proc, db_modified[p]
    PROVE  \A q \in Proc \ {p} : ~db_modified[q] /\ (Live(q) => stale[q])
<1> SUFFICES ASSUME NEW q \in Proc \ {p} PROVE ~db_modified[q] /\ (Live(q) => stale[q])
  OBVIOUS
<1>1. CASE Live(q)
  BY <1>1 DEF IInv, OneWriterInv
<1>2. CASE ~Live(q)
  BY <1>2, ModesParts DEF IInv, ModeInv, Using, Live
<1> QED BY <1>1, <1>2

(* A step of a session that modifies the file, or will have done so. *)
LEMMA WriterStep ==
    ASSUME IInv, NEW p \in Proc, OthersSame(p), Excludes(p), Shapes', ModeInv(p)',
           SessionInv(p)', FileInv', HeaderKept, HistoryKept, MarksKept, MayStill(p)
    PROVE  IInv'
<1>1. ModesInv' /\ OneWriterInv'
  <2>1. Excluded(p)
    BY DEF Excludes, Excluded
  <2> QED BY <2>1, ModesStep
<1>2. ASSUME NEW q \in Proc PROVE SessionInv(q)'
  <2>1. CASE q # p
    <3>1. SessionInv(q) /\ SameSession(q) /\ ~db_modified[q]
      BY <2>1 DEF IInv, OthersSame, Excludes
    <3> QED BY <3>1, OtherKept DEF HistoryKept
  <2> QED BY <2>1
<1>3. OverrunInv'
  BY MarksStep DEF IInv, HeaderKept
<1> QED BY <1>1, <1>2, <1>3 DEF IInv

\* What may wait in phase `to'.
MayWait(p, to, w) ==
    /\ to \in {"ready", "table", "eof", "end"}
    /\ to = "ready" => w = NoBuf
    /\ to = "table" => w = TableToWrite(p)
    /\ to = "eof" => w = Waiting(EOFOffset(p), EOFCell)
    /\ to = "end" => w = Waiting(0, HeaderCell(Header[p]))

\* The session goes on in phase `to' with w waiting; nothing else of it changes.
WritesNext(p, to, w) ==
    /\ phase' = [phase EXCEPT ![p] = to]
    /\ buf' = [buf EXCEPT ![p] = w]
    /\ Header' = Header /\ IndexTable' = IndexTable /\ key_arr' = key_arr
    /\ db_modified' = db_modified /\ fpos' = fpos /\ saw' = saw /\ stale' = stale
    /\ spoiled' = spoiled

(* What waits after a step of close lies behind the records, or is the header. *)
LEMMA WaitsElsewhere ==
    ASSUME IInv, NEW p \in Proc, db_modified[p], NEW to, NEW w, MayWait(p, to, w), w # NoBuf
    PROVE  \A n \in Upto(Header[p].EntryCount) : w.at # saw[p].recs[n].Offset
<1> PICK h : h = Header[p]
  OBVIOUS
<1> PICK o : o = h.IndexTableOffset
  OBVIOUS
<1>1. Layout(saw[p], h)
  BY WriterFacts
<1>2. /\ h.EntryCount \in Nat /\ o \in Nat
      /\ \A n \in Upto(h.EntryCount) :
            /\ saw[p].recs[n].Offset \in Nat /\ saw[p].recs[n].Offset < o
            /\ HEADER_SIZE <= saw[p].recs[n].Offset
  BY <1>1, LayoutTypes
<1>3. CASE to = "table"
  <2>1. w.at = o
    BY <1>3 DEF MayWait, TableToWrite, Waiting
  <2> QED BY <1>2, <2>1
<1>4. CASE to = "eof"
  <2>1. w.at = o + h.EntryCount * INDEX_ENTRY_SIZE
    BY <1>4 DEF MayWait, EOFOffset, Waiting
  <2>2. h.EntryCount * INDEX_ENTRY_SIZE \in Nat
    <3>1. \A x, y \in Nat : x * y \in Nat
      OBVIOUS
    <3> QED BY <1>2, <3>1, SizesPositive
  <2>3. \A x, y, z \in Nat : z < x => x + y # z
    OBVIOUS
  <2> QED BY <1>2, <2>1, <2>2, <2>3
<1>5. CASE to = "end"
  <2>1. w.at = 0
    BY <1>5 DEF MayWait, Waiting
  <2> QED BY <1>2, <2>1, SizesPositive
<1> QED BY <1>3, <1>4, <1>5 DEF MayWait

\* A session that has modified the file flushes what waits and leaves the next cell waiting.
LEMMA WritesNextKeeps ==
    ASSUME IInv, NEW p \in Proc, db_modified[p], phase[p] # "end",
           Flushes(p), HistoryKept, NEW to, NEW w, WritesNext(p, to, w), MayWait(p, to, w),
           to \in {"eof", "end"} => phase[p] # "ready"
    PROVE  IInv'
<1> PICK h : h = Header[p]
  OBVIOUS
<1> PICK o : o = h.IndexTableOffset
  OBVIOUS
<1>1. /\ FileInv' /\ HeaderKept /\ OnDisk(saw[p], h, disk')
      /\ ~appended' => DiskHeader.EntryCount = h.EntryCount
      /\ phase[p] # "ready" /\ h.EntryCount > 0 =>
            o \in DOMAIN disk' /\ disk'[o] = IndexCell(h.EntryCount, IndexTable[p])
  BY FlushKeeps
<1>2. Shapes /\ ModeInv(p) /\ SessionInv(p) /\ Using(p) /\ Live(p)
  BY WriterFacts, ModesParts DEF IInv
<1>3. /\ phase'[p] = to /\ buf'[p] = w /\ Header'[p] = h /\ IndexTable'[p] = IndexTable[p]
      /\ key_arr'[p] = key_arr[p] /\ db_modified'[p] = db_modified[p]
      /\ saw'[p] = saw[p] /\ fpos'[p] = fpos[p]
  BY <1>2 DEF WritesNext, Shapes
<1>4. OthersSame(p) /\ Shapes' /\ MarksKept /\ (overrun'[p] <=> overrun[p])
  <2>1. \A q \in Proc : phase'[q] = "header" => phase[q] = "header"
    BY <1>2 DEF WritesNext, Shapes, MayWait
  <2>2. /\ MarksKept /\ overrun' \in [Proc -> BOOLEAN]
        /\ \A q \in Proc : phase[q] # "header" => (overrun'[q] <=> overrun[q])
    BY <2>1, ReachesMarks DEF Flushes, WritesNext
  <2>3. \A q \in Proc : phase[q] # "header" => overrun'[q] = overrun[q]
    BY <1>2, <2>2 DEF Shapes
  <2>4. phase[p] # "header"
    BY <1>2 DEF Using
  <2> QED BY <1>2, <2>2, <2>3, <2>4
      DEF WritesNext, OthersSame, SameSession, Shapes, Modes, MayWait
<1>5. Excludes(p)
  BY AloneFacts DEF Excludes, WritesNext
<1>6. Using(p)' /\ Live(p)' /\ phase'[p] # "header" /\ ModeInv(p)'
  BY <1>3 DEF MayWait, Using, Live, ModeInv
<1>7. ImageInv(p)'
  <2>1. /\ Layout(saw[p], h) /\ Prefix(committed, DiskHeader, saw[p], h)
        /\ TableOf(IndexTable[p], saw[p], h, asked, overrun[p])
    BY WriterFacts
  <2>2. TableOf(IndexTable[p], saw[p], h, asked', overrun'[p])
    BY <1>4, <2>1, TableMore DEF HistoryKept
  <2> QED BY <1>1, <1>3, <2>1, <2>2 DEF ImageInv, HeaderKept, HistoryKept
<1>8. KeysInv(p)'
  BY <1>2, <1>3, <1>6 DEF SessionInv, KeysInv, KeysRead, Using
<1>9. WriterInv(p)'
  <2>1. WaitingInv(p)'
    BY <1>3 DEF WaitingInv, MayWait, TableToWrite, EOFOffset
  <2>2. ASSUME NEW n \in Upto(h.EntryCount)
        PROVE  SeenAt(p, saw[p].recs[n].Offset, saw[p].recs[n].cell)'
    <3>1. saw[p].recs[n].Offset \in DOMAIN disk' /\ disk'[saw[p].recs[n].Offset] = saw[p].recs[n].cell
      BY <1>1 DEF OnDisk
    <3>2. w # NoBuf => w.at # saw[p].recs[n].Offset
      BY WaitsElsewhere
    <3> QED BY <1>3, <3>1, <3>2 DEF SeenAt
  <2>3. phase'[p] \in {"eof", "end"} /\ h.EntryCount > 0 =>
           o \in DOMAIN disk' /\ disk'[o] = IndexCell(h.EntryCount, IndexTable[p])
    BY <1>1, <1>3
  <2>4. ~appended' => ~(DiskHeader'.EntryCount < h.EntryCount)
    <3>1. h.EntryCount \in Nat
      BY WriterFacts, LayoutTypes
    <3> QED BY <1>1, <3>1 DEF HeaderKept
  <2> QED BY <1>3, <2>1, <2>2, <2>3, <2>4 DEF WriterInv, SeenAt
<1>10. SessionInv(p)'
  BY <1>7, <1>8, <1>9 DEF SessionInv
<1>11. MayStill(p)
  BY <1>2, <1>3, <1>6 DEF MayStill, WritesNext
<1> QED BY <1>1, <1>4, <1>5, <1>6, <1>10, <1>11, WriterStep

\* get and the three fwrites of close are such flushes.
LEMMA GetKeeps ==
    ASSUME IInv, NEW p \in Proc, KVDB_DBObject_get(p)
    PROVE  IInv'
<1>1. phase[p] = "ready" /\ buf[p] # NoBuf
  BY DEF KVDB_DBObject_get
<1>2. db_modified[p] /\ Shapes
  BY <1>1, ModesParts DEF IInv, ModeInv
<1>3. Flushes(p) /\ HistoryKept /\ MayWait(p, "ready", NoBuf)
  BY DEF KVDB_DBObject_get, SeekAndWrite, Flushes, HistoryKept, MayWait, RecordReaches, Doubted
<1>4. WritesNext(p, "ready", NoBuf)
  <2>1. phase' = phase /\ phase = [phase EXCEPT ![p] = "ready"]
    BY <1>1, <1>2 DEF KVDB_DBObject_get, Shapes
  <2> QED BY <2>1 DEF KVDB_DBObject_get, SeekAndWrite, WritesNext
<1> QED BY <1>1, <1>2, <1>3, <1>4, WritesNextKeeps

LEMMA CloseStepKeeps ==
    ASSUME IInv, NEW p \in Proc,
           WriteDBIndexTable(p) \/ WriteDBEOFHeader(p) \/ WriteDBFileHeader(p)
    PROVE  IInv'
<1>1. PICK from, to, w :
         /\ CloseStep(p, from, to, w) /\ MayWait(p, to, w)
         /\ from \in {"ready", "table", "eof"} /\ (from = "ready" => db_modified[p])
         /\ to \in {"eof", "end"} => from # "ready"
  <2>1. CASE WriteDBIndexTable(p)
    BY <2>1 DEF WriteDBIndexTable, MayWait
  <2>2. CASE WriteDBEOFHeader(p)
    BY <2>2 DEF WriteDBEOFHeader, MayWait
  <2>3. CASE WriteDBFileHeader(p)
    BY <2>3 DEF WriteDBFileHeader, MayWait
  <2> QED BY <2>1, <2>2, <2>3
<1>2. phase[p] = from /\ Flushes(p) /\ HistoryKept /\ WritesNext(p, to, w)
  BY <1>1 DEF CloseStep, SeekAndWrite, Flushes, HistoryKept, WritesNext, RecordReaches, Doubted
<1>3. db_modified[p]
  BY <1>1, <1>2, ModesParts DEF IInv, ModeInv
<1> QED BY <1>1, <1>2, <1>3, WritesNextKeeps

(* The file when the header is on the disk: the session's changes are committed. *)
Commits(p) ==
    /\ disk' = Flushed(p) /\ asked' = asked
    /\ committed' = [recs |-> saw[p].recs,
                     deleted |-> IF overrun[p] THEN saw[p].deleted
                                               ELSE DeletedIn(IndexTable[p])]
    /\ appended' = FALSE /\ spoiled' = overrun[p]

\* What a completed close makes the committed image is what its session holds.
LEMMA CommitFacts ==
    ASSUME IInv, NEW p \in Proc, phase[p] = "end", Commits(p)
    PROVE  /\ FileInv' /\ DiskHeader' = Header[p] /\ Holds(disk', 0, "header")
           /\ Layout(committed', Header[p])
           /\ Prefix(committed, DiskHeader, committed', Header[p])
<1> PICK h : h = Header[p]
  OBVIOUS
<1> PICK o : o = h.IndexTableOffset
  OBVIOUS
<1> PICK T : T = IndexTable[p]
  OBVIOUS
<1>1. db_modified[p] /\ FileInv
  BY ModesParts DEF IInv, ModeInv
<1>2. /\ WaitingInv(p) /\ Layout(saw[p], h) /\ Layout(committed, DiskHeader)
      /\ Prefix(committed, DiskHeader, saw[p], h)
      /\ TableOf(T, saw[p], h, asked, overrun[p])
      /\ \A n \in Upto(h.EntryCount) : SeenAt(p, saw[p].recs[n].Offset, saw[p].recs[n].cell)
      /\ h.EntryCount > 0 => o \in DOMAIN disk /\ disk[o] = IndexCell(h.EntryCount, T)
  BY <1>1, WriterFacts
<1>3. /\ h.EntryCount \in Nat /\ o \in Nat /\ HEADER_SIZE <= o /\ h \in Headers
      /\ \A n \in Upto(h.EntryCount) : 0 # saw[p].recs[n].Offset
  BY <1>2, LayoutTypes, SizesPositive DEF Layout
<1>4. buf[p] = Waiting(0, HeaderCell(h)) /\ buf[p].at = 0
  BY <1>2 DEF WaitingInv, Waiting
<1>5. Writes(0, HeaderCell(h))
  <2>1. buf[p] # NoBuf
    <3>1. 0 \in Nat /\ h \in Headers
      BY <1>3
    <3>2. Waiting(0, HeaderCell(h)) # NoBuf
      BY <3>1, HeaderWaits
    <3> QED BY <1>4, <3>2
  <2>2. buf[p].cell = HeaderCell(h)
    BY <1>4 DEF Waiting
  <2> QED BY <1>4, <2>1, <2>2 DEF Commits, Flushed, Writes
<1>6. DiskHeader' = h /\ Holds(disk', 0, "header")
  <2>1. 0 \in DOMAIN disk' /\ disk'[0] = HeaderCell(h)
    BY <1>5, WriteLeaves
  <2> QED BY <2>1 DEF DiskHeader, Holds, HeaderCell
<1>7. /\ committed'.recs = saw[p].recs
      /\ committed'.deleted = IF overrun[p] THEN saw[p].deleted ELSE DeletedIn(T)
      /\ Doubted' <=> overrun[p]
  BY DEF Commits, Doubted
<1>8. Layout(committed', h) /\ Prefix(saw[p], h, committed', h)
  <2>1. saw[p].deleted \subseteq committed'.deleted /\ committed'.deleted \subseteq Upto(h.EntryCount)
    BY <1>2, <1>7 DEF TableOf, DeletedIn, Layout
  <2> QED BY <1>2, <1>7, <2>1, LayoutDeleted
<1>9. Prefix(committed, DiskHeader, committed', h)
  BY <1>2, <1>8, PrefixTrans
<1>10. OnDisk(committed', h, disk')
  <2>1. OnDisk(saw[p], h, disk)
    BY <1>2, <1>3, <1>4, RecordsOnDisk
  <2>2. OnDisk(saw[p], h, disk')
    BY <1>2, <1>5, <2>1, WriteHeaderKeeps DEF Writes
  <2> QED BY <1>7, <2>2 DEF OnDisk
<1>11. h.EntryCount > 0 => TableAt(disk', h)
  <2> SUFFICES ASSUME h.EntryCount > 0 PROVE TableAt(disk', h)
    OBVIOUS
  <2>1. o \in DOMAIN disk' /\ disk'[o] = IndexCell(h.EntryCount, T)
    <3>1. o # 0 /\ 0 + SizeOf(HeaderCell(h)) <= o
      BY <1>3, SizesPositive, HeaderSize
    <3> QED BY <1>2, <1>5, <3>1, WriteLeaves
  <2>2. disk'[o].kind = "index" /\ disk'[o].count = h.EntryCount
    BY <1>2, <2>1, TableOfCell
  <2> QED BY <2>1, <2>2 DEF TableAt, Holds
<1>12. TableAt(disk', h) => TableOf(disk'[o].table, committed', h, asked, Doubted')
  <2> SUFFICES ASSUME TableAt(disk', h)
               PROVE  TableOf(disk'[o].table, committed', h, asked, Doubted')
    OBVIOUS
  <2>1. CASE h.EntryCount > 0
    <3>1. o \in DOMAIN disk' /\ disk'[o] = IndexCell(h.EntryCount, T)
      <4>1. o # 0 /\ 0 + SizeOf(HeaderCell(h)) <= o
        BY <1>3, SizesPositive, HeaderSize
      <4> QED BY <1>2, <1>5, <2>1, <4>1, WriteLeaves
    <3>2. disk'[o].table = T
      BY <1>2, <3>1, TableOfCell
    <3> QED BY <1>2, <1>7, <3>2 DEF TableOf
  <2>2. CASE h.EntryCount = 0
    <3>1. DiskHeader.EntryCount = 0 /\ DiskHeader.IndexTableOffset = o
      <4>1. DiskHeader.EntryCount \in Nat /\ DiskHeader.EntryCount <= h.EntryCount
        BY <1>2, LayoutTypes DEF Prefix
      <4>2. DiskHeader.EntryCount = h.EntryCount
        BY <2>2, <4>1
      <4> QED BY <1>2, <2>2, <4>2, PrefixEnds
    <3>2. TableAt(disk, DiskHeader) /\ disk'[o] = disk[o]
      <4>1. o # 0 /\ o \in DOMAIN disk'
        BY <1>3, SizesPositive DEF TableAt, Holds
      <4>2. o \in DOMAIN disk /\ disk'[o] = disk[o]
        BY <1>5, <4>1, WriteLeaves
      <4> QED BY <2>2, <3>1, <4>2 DEF TableAt, Holds
    <3>3. TableOf(disk'[o].table, committed, DiskHeader, asked, Doubted)
      BY <1>1, <3>1, <3>2 DEF FileInv
    <3>4. Upto(h.EntryCount) = {} /\ committed'.deleted = {}
      BY <1>8, <2>2 DEF Upto, Layout
    <3> QED BY <2>2, <3>1, <3>3, <3>4 DEF TableOf, DeletedIn
  <2> QED BY <1>3, <2>1, <2>2
<1>13. FileInv'
  <2>1. asked' = asked
    BY DEF Commits
  <2> QED BY <1>6, <1>8, <1>10, <1>11, <1>12, <2>1 DEF FileInv
<1> QED BY <1>6, <1>8, <1>9, <1>13

\* The last step of close.
LEMMA FcloseKeeps ==
    ASSUME IInv, NEW p \in Proc, Fclose(p)
    PROVE  IInv'
<1>1. Ends(p) /\ disk' = Flushed(p) /\ asked' = asked
  BY DEF Fclose
<1>2. Shapes
  BY ModesParts DEF IInv
<1>3. CASE phase[p] # "end"
  <2>1. ~db_modified[p] /\ UNCHANGED <<committed, appended, spoiled>>
    BY <1>3 DEF Fclose
  <2>2. buf[p] = NoBuf
    BY <2>1, ModesParts DEF IInv, ModeInv
  <2>3. disk' = disk
    BY <1>1, <2>1, <2>2 DEF Flushed
  <2> QED BY <1>1, <2>1, <2>3, EndsKeeps
<1>4. CASE phase[p] = "end"
  <2>1. Commits(p)
    BY <1>4 DEF Fclose, Commits
  <2>2. /\ FileInv' /\ DiskHeader' = Header[p] /\ Holds(disk', 0, "header")
        /\ Layout(committed', Header[p]) /\ Prefix(committed, DiskHeader, committed', Header[p])
    BY <1>1, <1>4, <2>1, CommitFacts
  <2>3. db_modified[p]
    BY <1>4, ModesParts DEF IInv, ModeInv
  <2>4. /\ OthersSame(p) /\ Shapes' /\ ModeInv(p)' /\ SessionInv(p)'
        /\ ~Live(p)' /\ ~db_modified'[p]
    BY <1>1, <1>2, EndsFacts
  <2>5. ModesInv' /\ OneWriterInv'
    BY <2>4, ModesStep
  <2>6. ASSUME NEW q \in Proc, q # p PROVE SessionInv(q)'
    <3>1. SessionInv(q) /\ SameSession(q) /\ ~db_modified[q] /\ (Live(q) => stale[q])
      BY <2>3, <2>4, <2>6, AloneFacts DEF IInv, OthersSame
    <3>2. ASSUME Live(q) PROVE Prefix(saw[q], Header[q], committed', Header[p])
      <4>1. /\ Layout(saw[q], Header[q]) /\ Layout(committed, DiskHeader)
            /\ Prefix(saw[q], Header[q], committed, DiskHeader)
        BY <3>1, <3>2, ReaderFacts
      <4> QED BY <2>2, <4>1, PrefixTrans
    <3>3. Live(q) => stale'[q]
      BY <3>1 DEF SameSession
    <3>4. asked \subseteq asked'
      BY <1>1
    <3>5. Live(q) => /\ Holds(disk', 0, "header")
                     /\ Prefix(saw[q], Header[q], committed', DiskHeader')
                     /\ ~stale'[q] => Prefix(committed', DiskHeader', saw[q], Header[q])
      BY <2>1, <2>2, <3>2, <3>3
    <3> QED BY <3>1, <3>4, <3>5, OtherSession
  <2>7. OverrunInv'
    <3> SUFFICES ASSUME NEW q \in Proc
                 PROVE  /\ phase'[q] = "header" /\ ~overrun'[q] =>
                              ~Doubted' /\ Header'[q].EntryCount = DiskHeader'.EntryCount
                        /\ Live(q)' /\ (db_modified'[q] \/ ~stale'[q]) /\ overrun'[q] => Doubted'
      BY DEF OverrunInv
    <3>1. CASE q = p
      BY <2>4, <3>1 DEF Live
    <3>2. CASE q # p
      <4>1. /\ SameSession(q) /\ ~db_modified[q] /\ (Live(q) => stale[q])
            /\ overrun'[q] = overrun[q]
        BY <1>1, <1>2, <2>3, <2>4, <3>2, AloneFacts DEF OthersSame, Ends, Shapes
      <4>2. ~(Live(q)' /\ (db_modified'[q] \/ ~stale'[q]))
        BY <4>1 DEF SameSession, Live
      <4>3. ASSUME phase'[q] = "header", ~overrun'[q]
            PROVE  ~Doubted' /\ Header'[q].EntryCount = DiskHeader'.EntryCount
        <5>1. ~Doubted /\ Header[q].EntryCount = DiskHeader.EntryCount
          BY <4>1, <4>3 DEF IInv, OverrunInv, SameSession
        <5>2. ~Doubted'
          <6>1. ~overrun[p]
            BY <2>3, <5>1, WriterFacts
          <6> QED BY <2>1, <6>1 DEF Commits, Doubted
        <5>3. DiskHeader.EntryCount = Header[p].EntryCount
          <6>1. /\ DiskHeader.EntryCount <= Header[p].EntryCount
                /\ ~(DiskHeader.EntryCount < Header[p].EntryCount)
                /\ Layout(saw[p], Header[p]) /\ Layout(committed, DiskHeader)
            BY <1>4, <2>3, <5>1, WriterFacts DEF Doubted
          <6> QED BY <6>1, LayoutTypes
        <5> QED BY <2>2, <4>1, <5>1, <5>2, <5>3 DEF SameSession
      <4> QED BY <4>2, <4>3
    <3> QED BY <3>1, <3>2
  <2> QED BY <2>2, <2>4, <2>5, <2>6, <2>7 DEF IInv
<1> QED BY <1>3, <1>4

\* The parts of an index table that was written.
LEMMA CellTable ==
    ASSUME NEW n, NEW U, U = [i \in Upto(n) |-> U[i]]
    PROVE  /\ IndexCell(n, U).kind = "index" /\ IndexCell(n, U).count = n
           /\ IndexCell(n, U).table = U
BY DEF IndexCell, Upto

(* A part of the table over one of the same length is a table of its own. *)
LEMMA PartOfTableFacts ==
    ASSUME IInv, NEW p \in Proc, db_modified[p], phase[p] = "table",
           Header[p].EntryCount > 0, NEW m \in 1 .. Header[p].EntryCount - 1,
           NEW c, c = PartOfTable(Header[p].IndexTableOffset,
                                  IndexCell(Header[p].EntryCount, IndexTable[p]), m)
    PROVE  /\ c.kind = "index" /\ SafeTable(Header[p].IndexTableOffset, c)
           /\ SafeLength(p, c)
<1> PICK h : h = Header[p]
  OBVIOUS
<1> PICK o : o = h.IndexTableOffset
  OBVIOUS
<1> PICK T : T = IndexTable[p]
  OBVIOUS
<1> PICK t : t = IndexCell(h.EntryCount, T)
  OBVIOUS
<1>1. /\ Layout(saw[p], h) /\ Layout(committed, DiskHeader)
      /\ Prefix(committed, DiskHeader, saw[p], h)
      /\ TableOf(T, saw[p], h, asked, overrun[p]) /\ (overrun[p] => Doubted) /\ FileInv
  BY WriterFacts DEF IInv
<1>2. /\ h.EntryCount \in Nat /\ t.kind = "index" /\ t.count = h.EntryCount /\ t.table = T
      /\ h.EntryCount = DiskHeader.EntryCount <=> o = DiskHeader.IndexTableOffset
  BY <1>1, TableOfCell, LayoutTypes, PrefixEnds
<1>3. CASE Holds(disk, o, "index") /\ disk[o].count = h.EntryCount
  <2> PICK U : U = [n \in Upto(h.EntryCount) |-> IF n < m THEN T[n] ELSE disk[o].table[n]]
    OBVIOUS
  <2>1. c = IndexCell(h.EntryCount, U)
    BY <1>2, <1>3 DEF PartOfTable
  <2>2. c.kind = "index" /\ c.count = h.EntryCount /\ c.table = U
    <3>1. U = [n \in Upto(h.EntryCount) |-> U[n]]
      OBVIOUS
    <3>2. /\ IndexCell(h.EntryCount, U).kind = "index"
          /\ IndexCell(h.EntryCount, U).count = h.EntryCount
          /\ IndexCell(h.EntryCount, U).table = U
      BY <3>1, CellTable
    <3> QED BY <2>1, <3>2
  <2>3. SafeTable(o, c)
    <3> SUFFICES ASSUME IsTable(o, c)
                 PROVE  TableOf(c.table, committed, DiskHeader, asked, Doubted)
      BY DEF SafeTable
    <3>1. h.EntryCount = DiskHeader.EntryCount /\ o = DiskHeader.IndexTableOffset
      BY <2>2 DEF IsTable
    <3>2. TableOf(T, committed, DiskHeader, asked, Doubted)
      <4>1. TableOf(T, saw[p], h, asked, Doubted)
        BY <1>1, TableMore
      <4> QED BY <1>1, <3>1, <4>1, TableOfPrefix
    <3>3. TableOf(disk[o].table, committed, DiskHeader, asked, Doubted)
      BY <1>1, <1>3, <3>1 DEF FileInv, TableAt
    <3> HIDE DEF Upto
    <3>4. TableOf(U, committed, DiskHeader, asked, Doubted)
      BY <3>1, <3>2, <3>3 DEF TableOf, DeletedIn
    <3> QED BY <2>2, <3>4
  <2>4. SafeLength(p, c)
    BY <2>2 DEF SafeLength
  <2> QED BY <2>2, <2>3, <2>4
<1>4. CASE ~(Holds(disk, o, "index") /\ disk[o].count = h.EntryCount)
  <2>1. c = IndexCell(m, T)
    BY <1>2, <1>4 DEF PartOfTable
  <2>2. c.kind = "index" /\ c.count = m /\ m # h.EntryCount
    BY <1>2, <2>1 DEF IndexCell
  <2>3. SafeTable(o, c)
    BY <1>2, <2>2 DEF SafeTable, IsTable
  <2>4. SafeLength(p, c)
    BY <1>4 DEF SafeLength, TableAt
  <2> QED BY <2>2, <2>3, <2>4
<1> QED BY <1>3, <1>4

(* Which cells are spilled in part. *)
LEMMA SpillFacts ==
    ASSUME IInv, NEW p \in Proc, Spill(p)
    PROVE  /\ db_modified[p] /\ UNCHANGED <<session, stale, committed, asked, spoiled>>
           /\ MarksKept /\ overrun' \in [Proc -> BOOLEAN]
           /\ \A q \in Proc : phase[q] # "header" => overrun'[q] = overrun[q]
           /\ \/ /\ phase[p] = "ready" /\ LastWaits(p) /\ appended'
                 /\ Writes(buf[p].at, TornCell(buf[p].cell.key))
              \/ /\ phase[p] = "table" /\ Header[p].EntryCount > 0
                 /\ buf[p] = Waiting(Header[p].IndexTableOffset,
                                     IndexCell(Header[p].EntryCount, IndexTable[p]))
                 /\ ~appended' => ~appended
                 /\ \E m \in 1 .. Header[p].EntryCount - 1 :
                       Writes(Header[p].IndexTableOffset,
                              PartOfTable(Header[p].IndexTableOffset,
                                          IndexCell(Header[p].EntryCount, IndexTable[p]), m))
<1>1. buf[p] # NoBuf /\ UNCHANGED <<session, stale, committed, asked, spoiled>>
  BY DEF Spill
<1>0. /\ MarksKept /\ overrun' \in [Proc -> BOOLEAN]
      /\ \A q \in Proc : phase[q] # "header" => overrun'[q] = overrun[q]
  <2>0. phase' = phase /\ Shapes
    BY <1>1, ModesParts DEF session, IInv
  <2>1. CASE RecordReaches(TRUE)
    <3>1. /\ MarksKept /\ overrun' \in [Proc -> BOOLEAN]
          /\ \A q \in Proc : phase[q] # "header" => (overrun'[q] <=> overrun[q])
      BY <1>1, <2>0, <2>1, ReachesMarks
    <3> QED BY <2>0, <3>1 DEF Shapes
  <2>2. CASE UNCHANGED <<appended, overrun>>
    <3>1. MarksKept
      BY <1>1, <2>2, NothingMarked
    <3> QED BY <2>0, <2>2, <3>1 DEF Shapes
  <2> QED BY <2>1, <2>2 DEF Spill
<1>2. db_modified[p]
  BY <1>1, ModesParts DEF IInv, ModeInv
<1>3. WaitingInv(p) /\ phase[p] \in {"ready", "table", "eof", "end"}
  BY <1>2, WriterFacts DEF Using
<1>4. \/ buf[p].cell.kind = "record" /\ Writes(buf[p].at, TornCell(buf[p].cell.key)) /\ appended'
      \/ /\ buf[p].cell.kind = "index" /\ (~appended' => ~appended)
         /\ \E m \in 1 .. buf[p].cell.count - 1 :
               Writes(buf[p].at, PartOfTable(buf[p].at, buf[p].cell, m))
  BY DEF Spill, Writes, RecordReaches
<1>5. CASE phase[p] = "ready"
  <2>1. LastWaits(p)
    BY <1>1, <1>3, <1>5 DEF WaitingInv
  <2>2. buf[p].cell.kind = "record"
    BY <1>2, <2>1, LastFacts
  <2> QED BY <1>0, <1>1, <1>2, <1>4, <1>5, <2>1, <2>2
<1>6. CASE phase[p] = "table"
  <2>1. /\ Header[p].EntryCount # 0 /\ Header[p].EntryCount \in Nat
        /\ buf[p] = Waiting(Header[p].IndexTableOffset,
                            IndexCell(Header[p].EntryCount, IndexTable[p]))
    BY <1>1, <1>2, <1>3, <1>6, WriterFacts, LayoutTypes DEF WaitingInv, TableToWrite
  <2>2. /\ buf[p].at = Header[p].IndexTableOffset
        /\ buf[p].cell = IndexCell(Header[p].EntryCount, IndexTable[p])
    BY <2>1 DEF Waiting
  <2>3. buf[p].cell.kind = "index" /\ buf[p].cell.count = Header[p].EntryCount
    BY <2>2 DEF IndexCell
  <2>4. /\ ~appended' => ~appended
        /\ \E m \in 1 .. Header[p].EntryCount - 1 :
              Writes(Header[p].IndexTableOffset,
                     PartOfTable(Header[p].IndexTableOffset,
                                 IndexCell(Header[p].EntryCount, IndexTable[p]), m))
    BY <1>4, <2>2, <2>3
  <2> QED BY <1>0, <1>1, <1>2, <1>6, <2>1, <2>4
<1>7. CASE phase[p] \in {"eof", "end"}
  BY <1>3, <1>4, <1>7 DEF WaitingInv, Waiting, EOFCell, HeaderCell
<1> QED BY <1>3, <1>5, <1>6, <1>7

(* After a spill the session goes on as before. *)
LEMMA SpilledStep ==
    ASSUME IInv, NEW p \in Proc, db_modified[p], phase[p] \in {"ready", "table"},
           session' = session, stale' = stale, HistoryKept, FileInv', HeaderKept,
           MarksKept, overrun' \in [Proc -> BOOLEAN],
           \A q \in Proc : phase[q] # "header" => overrun'[q] = overrun[q],
           \A n \in Upto(Header[p].EntryCount) :
              SeenAt(p, saw[p].recs[n].Offset, saw[p].recs[n].cell)',
           ~appended' => DiskHeader.EntryCount = Header[p].EntryCount
    PROVE  IInv'
<1>1. /\ phase' = phase /\ Header' = Header /\ IndexTable' = IndexTable /\ key_arr' = key_arr
      /\ db_modified' = db_modified /\ fpos' = fpos /\ buf' = buf /\ saw' = saw
  BY DEF session
<1>2. Shapes /\ ModeInv(p) /\ SessionInv(p) /\ Using(p) /\ Live(p) /\ Header[p].EntryCount \in Nat
  BY WriterFacts, LayoutTypes, ModesParts DEF IInv
<1>3. OthersSame(p) /\ Shapes' /\ ModeInv(p)'
  BY <1>1, <1>2 DEF OthersSame, SameSession, Shapes, ModeInv, Using
<1>4. Excludes(p)
  BY AloneFacts DEF Excludes
<1>5. ImageInv(p)'
  <2>1. /\ Layout(saw[p], Header[p]) /\ Prefix(committed, DiskHeader, saw[p], Header[p])
        /\ TableOf(IndexTable[p], saw[p], Header[p], asked, overrun[p])
    BY WriterFacts
  <2>2. TableOf(IndexTable[p], saw[p], Header[p], asked', overrun'[p])
    BY <2>1, TableMore DEF HistoryKept
  <2> QED BY <1>1, <2>1, <2>2 DEF ImageInv, HeaderKept, HistoryKept
<1>6. KeysInv(p)'
  BY <1>1, <1>2 DEF SessionInv, KeysInv, KeysRead, Using, Live
<1>7. WriterInv(p)'
  <2>1. WaitingInv(p)'
    BY <1>1, WriterFacts
    DEF HeaderKept, WaitingInv, LastWaits, TableToWrite, EOFOffset
  <2>2. ~appended' => ~(DiskHeader'.EntryCount < Header[p].EntryCount)
    BY <1>2 DEF HeaderKept
  <2> QED BY <1>1, <2>1, <2>2 DEF WriterInv
<1>8. SessionInv(p)'
  BY <1>5, <1>6, <1>7 DEF SessionInv
<1>9. MayStill(p)
  BY <1>1 DEF MayStill, Live
<1> QED BY <1>3, <1>4, <1>8, <1>9, WriterStep

\* A stream that spills a part of what waits keeps IInv.
LEMMA SpillKeeps ==
    ASSUME IInv, NEW p \in Proc, Spill(p)
    PROVE  IInv'
<1> PICK h : h = Header[p]
  OBVIOUS
<1> PICK o : o = h.IndexTableOffset
  OBVIOUS
<1>0. /\ MarksKept /\ overrun' \in [Proc -> BOOLEAN]
      /\ \A q \in Proc : phase[q] # "header" => overrun'[q] = overrun[q]
  BY SpillFacts
<1>1. /\ db_modified[p] /\ session' = session /\ stale' = stale /\ HistoryKept /\ buf' = buf
  <2>1. Doubted => Doubted'
    BY <1>0 DEF MarksKept
  <2> QED BY <2>1, SpillFacts DEF HistoryKept, session
<1>2. CASE /\ phase[p] = "ready" /\ LastWaits(p) /\ appended'
           /\ Writes(buf[p].at, TornCell(buf[p].cell.key))
  <2> PICK n : n = h.EntryCount - 1
    OBVIOUS
  <2> PICK rec : rec = saw[p].recs[n]
    OBVIOUS
  <2> PICK c : c = TornCell(buf[p].cell.key)
    BY SMTT(60)
  <2>1. /\ n \in Upto(h.EntryCount)
        /\ buf[p].at = rec.Offset /\ buf[p].cell = rec.cell /\ buf[p] # NoBuf
        /\ rec.Offset \in Nat /\ DiskHeader.IndexTableOffset <= rec.Offset
        /\ \A m \in Upto(h.EntryCount) :
              m # n => /\ saw[p].recs[m].Offset # rec.Offset
                       /\ EndOf(saw[p].recs[m]) <= rec.Offset
    BY <1>1, <1>2, LastFacts, SMTT(60)
  <2>2. Writes(rec.Offset, c)
    BY <1>2, <2>1, ZenonT(60)
  <2>3. FileInv' /\ HeaderKept
    <3>1. SafeTable(rec.Offset, c) /\ SafeEnd(rec.Offset, c)
      BY <1>2 DEF SafeTable, SafeEnd, IsTable, TornCell
    <3> QED BY <1>1, <2>1, <2>2, <3>1, WriteBehind DEF IInv
  <2>4. ASSUME NEW m \in Upto(h.EntryCount)
        PROVE  SeenAt(p, saw[p].recs[m].Offset, saw[p].recs[m].cell)'
    <3> PICK q : q = saw[p].recs[m].Offset
      OBVIOUS
    <3>1. saw' = saw
      BY <1>1, SMTT(60) DEF session
    <3>2. CASE m = n
      BY <1>1, <2>1, <3>1, <3>2, ZenonT(60) DEF SeenAt
    <3>3. CASE m # n
      <4>1. q \in DOMAIN disk /\ disk[q] = saw[p].recs[m].cell
        <5>1. SeenAt(p, q, saw[p].recs[m].cell)
          BY <1>1, WriterFacts
        <5> QED BY <1>1, <2>1, <3>3, <5>1, ZenonT(60) DEF SeenAt
      <4>2. q + SizeOf(disk[q]) <= rec.Offset /\ q # rec.Offset
        BY <2>1, <3>3, <4>1 DEF EndOf
      <4>3. q \in DOMAIN disk' /\ disk'[q] = saw[p].recs[m].cell
        BY <2>2, <4>1, <4>2, WriteLeaves
      <4> QED BY <1>1, <2>1, <3>1, <4>2, <4>3, ZenonT(60) DEF SeenAt
    <3> QED BY <3>2, <3>3
  <2> QED BY <1>0, <1>1, <1>2, <2>3, <2>4, SpilledStep
<1>3. CASE /\ phase[p] = "table" /\ h.EntryCount > 0
           /\ buf[p] = Waiting(o, IndexCell(h.EntryCount, IndexTable[p]))
           /\ ~appended' => ~appended
           /\ \E m \in 1 .. h.EntryCount - 1 :
                 Writes(o, PartOfTable(o, IndexCell(h.EntryCount, IndexTable[p]), m))
  <2>1. PICK m \in 1 .. h.EntryCount - 1 :
           Writes(o, PartOfTable(o, IndexCell(h.EntryCount, IndexTable[p]), m))
    BY <1>3
  <2> PICK c : c = PartOfTable(o, IndexCell(h.EntryCount, IndexTable[p]), m)
    OBVIOUS
  <2>2. c.kind = "index" /\ SafeTable(o, c) /\ SafeLength(p, c)
    BY <1>1, <1>3, PartOfTableFacts
  <2>3. buf[p].at = o
    BY <1>3 DEF Waiting
  <2>4. /\ FileInv' /\ HeaderKept /\ OnDisk(saw[p], h, disk')
        /\ ~appended' => DiskHeader.EntryCount = h.EntryCount
    BY <1>1, <1>3, <2>1, <2>2, <2>3, WriteTable
  <2>5. ASSUME NEW n \in Upto(h.EntryCount)
        PROVE  SeenAt(p, saw[p].recs[n].Offset, saw[p].recs[n].cell)'
    <3>1. saw' = saw
      BY <1>1 DEF session
    <3>2. o # saw[p].recs[n].Offset
      <4>1. Layout(saw[p], h)
        BY <1>1, WriterFacts
      <4>2. saw[p].recs[n].Offset < o /\ saw[p].recs[n].Offset \in Nat /\ o \in Nat
        BY <4>1, LayoutTypes
      <4> QED BY <4>2
    <3> QED BY <1>1, <2>3, <2>4, <3>1, <3>2 DEF SeenAt, OnDisk
  <2> QED BY <1>0, <1>1, <1>3, <2>4, <2>5, SpilledStep
<1> QED BY <1>2, <1>3, SpillFacts

-----------------------------------------------------------------------------
(* put and delete. *)

\* The entries of an array that is one longer.
LEMMA UptoNext ==
    ASSUME NEW n \in Nat
    PROVE  /\ n \in 0 .. n /\ Upto(n + 1) = 0 .. n
           /\ \A m \in Upto(n) : m \in 0 .. n /\ m # n
           /\ \A m \in 0 .. n : m = n \/ m \in Upto(n)
<1>1. n + 1 - 1 = n
  OBVIOUS
<1>2. Upto(n + 1) = 0 .. n
  BY <1>1 DEF Upto
<1> QED BY <1>2 DEF Upto

(* The session and its image after a put. *)
LEMMA PutFacts ==
    ASSUME IInv, NEW p \in Proc, NEW k \in Key, NEW v \in Val, NEW old,
           PutOver(p, k, v, old)
    PROVE  LET n == Header[p].EntryCount
               o == Header[p].IndexTableOffset
               cell == RecordCell(k, v)
           IN  /\ n \in Nat /\ o \in Nat /\ cell \in Records /\ Shapes
               /\ phase[p] = "ready" /\ MayModify(p) /\ Flushes(p) /\ HistoryKept
               /\ phase' = phase /\ fpos' = fpos /\ spoiled' = spoiled /\ db_modified'[p] /\ stale' = Stale(p)
               /\ buf'[p] = Waiting(o, cell)
               /\ Header'[p] \in Headers /\ Header'[p].EntryCount = n + 1
               /\ Header'[p].IndexTableOffset = o + SizeOf(cell)
               /\ DOMAIN saw'[p].recs = 0 .. n
               /\ saw'[p].recs[n] = [Offset |-> o, cell |-> cell]
               /\ \A m \in Upto(n) : saw'[p].recs[m] = saw[p].recs[m]
               /\ KeysRead(p, Header[p].EntryCount)'
<1> DEFINE n == Header[p].EntryCount
           o == Header[p].IndexTableOffset
           cell == RecordCell(k, v)
<1>1. phase[p] = "ready" /\ MayModify(p) /\ n < Header[p].EntryCapacity
  BY DEF PutOver
<1>2. Shapes /\ Live(p) /\ Using(p) /\ SessionInv(p)
  BY <1>1, ModesParts DEF IInv, Live, Using
<1>3. /\ n \in Nat /\ o \in Nat /\ Header[p] \in Headers /\ KeysRead(p, n)
  BY <1>2, LayoutTypes DEF SessionInv, ImageInv, KeysInv, Layout
<1>4. cell \in Records /\ SizeOf(cell) \in Nat
  BY RecordSize DEF RecordCell, Records
<1>5. /\ Flushes(p) /\ HistoryKept /\ phase' = phase /\ fpos' = fpos /\ stale' = Stale(p)
      /\ spoiled' = spoiled /\ buf'[p] = Waiting(o, cell) /\ db_modified'[p]
  BY <1>2 DEF PutOver, SeekAndWrite, OffsetPtr, Flushes, RecordReaches, HistoryKept, Doubted,
                   Shapes
<1>6. /\ Header'[p] = [EntryCapacity |-> Header[p].EntryCapacity, EntryCount |-> n + 1,
                       IndexTableOffset |-> o + SizeOf(cell)]
  BY <1>2 DEF PutOver, Shapes
<1>7. Header'[p] \in Headers
  <2>1. PICK cap \in Caps \cup {0} : cap = Header[p].EntryCapacity
    BY <1>3 DEF Headers
  <2>2. cap \in Caps /\ cap \in Nat /\ n + 1 \in 0 .. cap
    BY <1>1, <1>3, <2>1
  <2>3. n + 1 \in Counts
    BY <2>2 DEF Counts
  <2>4. o + SizeOf(cell) \in Nat
    <3>1. \A x, y \in Nat : x + y \in Nat
      OBVIOUS
    <3> QED BY <1>3, <1>4, <3>1
  <2> QED BY <1>6, <2>1, <2>3, <2>4 DEF Headers
<1>8. /\ saw'[p].recs = [m \in 0 .. n |-> IF m = n THEN [Offset |-> o, cell |-> cell]
                                          ELSE saw[p].recs[m]]
      /\ key_arr'[p] = [m \in 0 .. n |-> IF m = n THEN k ELSE key_arr[p][m]]
  BY <1>2 DEF PutOver, OffsetPtr, Shapes
<1>9. /\ n \in 0 .. n /\ Upto(n + 1) = 0 .. n
      /\ \A m \in Upto(n) : m \in 0 .. n /\ m # n
      /\ \A m \in 0 .. n : m = n \/ m \in Upto(n)
  BY <1>3, UptoNext
<1>10. /\ DOMAIN saw'[p].recs = 0 .. n
       /\ saw'[p].recs[n] = [Offset |-> o, cell |-> cell]
       /\ \A m \in Upto(n) : saw'[p].recs[m] = saw[p].recs[m]
  BY <1>8, <1>9
<1>11. KeysRead(p, Header[p].EntryCount)'
  <2>1. cell.key = k
    BY DEF RecordCell
  <2>2. DOMAIN key_arr'[p] = 0 .. n
    BY <1>8
  <2>3. \A m \in 0 .. n : key_arr'[p][m] = saw'[p].recs[m].cell.key
    <3> SUFFICES ASSUME NEW m \in 0 .. n
                 PROVE  key_arr'[p][m] = saw'[p].recs[m].cell.key
      OBVIOUS
    <3>1. CASE m = n
      BY <1>8, <1>10, <2>1, <3>1
    <3>2. CASE m \in Upto(n)
      BY <1>3, <1>8, <1>9, <3>2 DEF KeysRead
    <3> QED BY <1>9, <3>1, <3>2
  <2>4. Upto(Header'[p].EntryCount) = 0 .. n
    BY <1>6, <1>9
  <2> QED BY <2>2, <2>3, <2>4 DEF KeysRead
<1> QED BY <1>1, <1>2, <1>3, <1>4, <1>5, <1>6, <1>7, <1>10, <1>11

\* An entry of an index table, deleted if x.
Marked(e, x) == [e EXCEPT !.deleted = @ \/ x]

LEMMA MarkedEntry ==
    ASSUME NEW e \in Entries, NEW m, NEW old
    PROVE  /\ Marked(e, m \in old) \in Entries /\ Marked(e, m \in old).Offset = e.Offset
           /\ Marked(e, m \in old).deleted <=> e.deleted \/ m \in old
BY DEF Marked, Entries

LEMMA MarkedOnly ==
    ASSUME NEW e \in Entries, NEW m, NEW i
    PROVE  /\ Marked(e, m = i) \in Entries /\ Marked(e, m = i).Offset = e.Offset
           /\ Marked(e, m = i).deleted <=> e.deleted \/ m = i
BY DEF Marked, Entries

NewEntry(o) == [Offset |-> o, deleted |-> FALSE, hashed |-> TRUE]

LEMMA NewEntryFacts ==
    ASSUME NEW o \in Nat
    PROVE  NewEntry(o) \in Entries /\ NewEntry(o).Offset = o /\ ~NewEntry(o).deleted
BY DEF NewEntry, Entries

Appended(T, n, o, old) ==
    [m \in 0 .. n |-> IF m = n THEN NewEntry(o) ELSE Marked(T[m], m \in old)]

HeaderIs(h, n, o) == h.EntryCount = n /\ h.IndexTableOffset = o

\* The table after an entry was appended and old ones were deleted fits the longer image.
LEMMA TableAppended ==
    ASSUME NEW n, n \in Nat, NEW o, o \in Nat, NEW h, HeaderIs(h, n, o), NEW im, NEW T, NEW A,
           NEW x, Layout(im, h), TableOf(T, im, h, A, x), NEW old, old \subseteq Upto(n),
           NEW im2, NEW h2, h2.EntryCount = n + 1, NEW A2, A \cup old \subseteq A2,
           im2.recs[n].Offset = o, \A m \in Upto(n) : im2.recs[m] = im.recs[m],
           im2.deleted \subseteq im.deleted \cup old
    PROVE  TableOf(Appended(T, n, o, old), im2, h2, A2, x)
<1>1. T \in [Upto(n) -> Entries] /\ im.deleted \subseteq Upto(n)
  BY DEF TableOf, Layout, HeaderIs
<1>2. /\ n \in 0 .. n /\ Upto(n + 1) = 0 .. n
      /\ \A m \in Upto(n) : m \in 0 .. n /\ m # n
      /\ \A m \in 0 .. n : m = n \/ m \in Upto(n)
  BY UptoNext
<1> HIDE DEF Upto
<1> DEFINE T2 == Appended(T, n, o, old)
<1>3. ASSUME NEW m \in Upto(n)
      PROVE  /\ T2[m] \in Entries /\ T2[m].Offset = T[m].Offset
             /\ T2[m].deleted <=> T[m].deleted \/ m \in old
  <2>1. T[m] \in Entries
    BY <1>1
  <2>2. T2[m] = Marked(T[m], m \in old)
    BY <1>2 DEF Appended
  <2>3. /\ Marked(T[m], m \in old) \in Entries
        /\ Marked(T[m], m \in old).Offset = T[m].Offset
        /\ Marked(T[m], m \in old).deleted <=> T[m].deleted \/ m \in old
    BY <2>1, MarkedEntry, Zenon
  <2> HIDE DEF T2
  <2> QED BY <2>2, <2>3, Zenon
<1>4. T2[n] \in Entries /\ T2[n].Offset = o /\ ~T2[n].deleted
  <2>1. T2[n] = NewEntry(o)
    BY <1>2 DEF Appended
  <2> HIDE DEF T2
  <2> QED BY <2>1, NewEntryFacts
<1>5. T2 = [m \in 0 .. n |-> T2[m]]
  BY DEF Appended
<1> HIDE DEF T2
<1>6. T2 \in [0 .. n -> Entries]
  BY <1>2, <1>3, <1>4, <1>5
<1>7. ASSUME ~x
      PROVE  /\ \A m \in 0 .. n : T2[m].Offset = im2.recs[m].Offset
             /\ im2.deleted \subseteq DeletedIn(T2) /\ DeletedIn(T2) \subseteq A2
  <2>1. /\ \A m \in Upto(n) : T[m].Offset = im.recs[m].Offset
        /\ im.deleted \subseteq DeletedIn(T) /\ DeletedIn(T) \subseteq A
    BY <1>7 DEF TableOf, HeaderIs
  <2>2. \A m \in 0 .. n : T2[m].Offset = im2.recs[m].Offset
    <3>1. T2[n].Offset = im2.recs[n].Offset
      BY <1>4
    <3>2. \A m \in Upto(n) : T2[m].Offset = im2.recs[m].Offset
      BY <1>3, <2>1
    <3> QED BY <1>2, <3>1, <3>2
  <2>3. im2.deleted \subseteq DeletedIn(T2)
    <3> SUFFICES ASSUME NEW m \in im2.deleted PROVE m \in DeletedIn(T2)
      OBVIOUS
    <3>1. m \in Upto(n) /\ (m \in DeletedIn(T) \/ m \in old)
      BY <1>1, <2>1
    <3>2. T[m].deleted \/ m \in old
      BY <3>1 DEF DeletedIn
    <3> QED BY <1>2, <1>3, <1>6, <3>1, <3>2 DEF DeletedIn
  <2>4. DeletedIn(T2) \subseteq A2
    <3> SUFFICES ASSUME NEW m \in DeletedIn(T2) PROVE m \in A \/ m \in old
      OBVIOUS
    <3>1. m \in 0 .. n /\ T2[m].deleted
      BY <1>6 DEF DeletedIn
    <3>2. m \in Upto(n) /\ (T[m].deleted \/ m \in old)
      BY <1>2, <1>3, <1>4, <3>1
    <3>3. T[m].deleted => m \in DeletedIn(T)
      BY <1>1, <3>2 DEF DeletedIn
    <3> QED BY <2>1, <3>2, <3>3
  <2> QED BY <2>2, <2>3, <2>4
<1>8. TableOf(T2, im2, h2, A2, x)
  BY <1>2, <1>6, <1>7 DEF TableOf
<1> QED BY <1>8 DEF T2

(* Its index table after a put: the records' places, and the deletion of old. *)
LEMMA PutTable ==
    ASSUME IInv, NEW p \in Proc, NEW k \in Key, NEW v \in Val, NEW old,
           old \subseteq Upto(Header[p].EntryCount), PutOver(p, k, v, old)
    PROVE  /\ TableOf(IndexTable'[p], saw'[p], Header'[p], asked', overrun'[p])
           /\ saw[p].deleted \subseteq saw'[p].deleted
           /\ saw'[p].deleted \subseteq Upto(Header[p].EntryCount)
<1> DEFINE n == Header[p].EntryCount
           o == Header[p].IndexTableOffset
<1>1. /\ n \in Nat /\ o \in Nat /\ phase[p] = "ready" /\ Shapes
      /\ Header'[p].EntryCount = n + 1
      /\ saw'[p].recs[n] = [Offset |-> o, cell |-> RecordCell(k, v)]
      /\ \A m \in Upto(n) : saw'[p].recs[m] = saw[p].recs[m]
  BY PutFacts
<1>2. SessionInv(p) /\ Live(p) /\ Using(p)
  BY <1>1 DEF IInv, Live, Using
<1>3. /\ TableOf(IndexTable[p], saw[p], Header[p], asked, overrun[p])
      /\ Layout(saw[p], Header[p])
  BY <1>1, <1>2 DEF SessionInv, ImageInv
<1>4. overrun'[p] <=> overrun[p]
  BY <1>1 DEF PutOver, SeekAndWrite, RecordReaches
<1>5. /\ IndexTable'[p] = Appended(IndexTable[p], n, o, old)
      /\ saw'[p].deleted = saw[p].deleted \cup old
      /\ asked' = asked \cup old
  BY <1>1 DEF PutOver, OffsetPtr, Shapes, Appended, NewEntry, Marked
<1>6. saw'[p].recs[n].Offset = o /\ HeaderIs(Header[p], n, o)
      /\ asked \cup old \subseteq asked'
      /\ saw'[p].deleted \subseteq saw[p].deleted \cup old
  BY <1>1, <1>5 DEF HeaderIs
<1>7. TableOf(Appended(IndexTable[p], n, o, old), saw'[p], Header'[p], asked', overrun[p])
  BY <1>1, <1>3, <1>6, TableAppended, ZenonT(60)
<1>8. /\ saw[p].deleted \subseteq saw'[p].deleted
      /\ saw'[p].deleted \subseteq Upto(n)
  BY <1>3, <1>5 DEF Layout
<1>9. TableOf(IndexTable'[p], saw'[p], Header'[p], asked', overrun'[p])
  BY <1>4, <1>5, <1>7, TableMore
<1> QED BY <1>8, <1>9

(* The other sessions of a step after which p has modified the file. *)
LEMMA MayModifyOthers ==
    ASSUME IInv, NEW p \in Proc, MayModify(p), stale' = Stale(p)
    PROVE  Excludes(p)
<1> SUFFICES ASSUME NEW q \in Proc \ {p} PROVE ~db_modified[q] /\ (Live(q) => stale'[q])
  BY DEF Excludes
<1>1. ~db_modified[q]
  BY DEF MayModify, NobodyElseModifies
<1>2. Live(q) => stale'[q]
  BY DEF Live, Stale
<1> QED BY <1>1, <1>2

\* put over the entries it deletes.
LEMMA PutOverKeeps ==
    ASSUME IInv, NEW p \in Proc, NEW k \in Key, NEW v \in Val, NEW old,
           old \subseteq Upto(Header[p].EntryCount), PutOver(p, k, v, old)
    PROVE  IInv'
<1> PICK n : n = Header[p].EntryCount
  OBVIOUS
<1> PICK o : o = Header[p].IndexTableOffset
  OBVIOUS
<1> PICK cell : cell = RecordCell(k, v)
  OBVIOUS
<1>1. /\ n \in Nat /\ o \in Nat /\ cell \in Records /\ Shapes
      /\ phase[p] = "ready" /\ MayModify(p) /\ Flushes(p) /\ HistoryKept
      /\ phase' = phase /\ fpos' = fpos /\ spoiled' = spoiled /\ db_modified'[p] /\ stale' = Stale(p)
      /\ buf'[p] = Waiting(o, cell)
      /\ Header'[p] \in Headers /\ Header'[p].EntryCount = n + 1
      /\ Header'[p].IndexTableOffset = o + SizeOf(cell)
      /\ DOMAIN saw'[p].recs = 0 .. n
      /\ saw'[p].recs[n] = [Offset |-> o, cell |-> cell]
      /\ \A m \in Upto(n) : saw'[p].recs[m] = saw[p].recs[m]
      /\ KeysRead(p, Header[p].EntryCount)'
  BY PutFacts
<1>2. /\ TableOf(IndexTable'[p], saw'[p], Header'[p], asked', overrun'[p])
      /\ saw[p].deleted \subseteq saw'[p].deleted
      /\ saw'[p].deleted \subseteq Upto(n)
  BY PutTable
<1>3. /\ FileInv' /\ HeaderKept /\ OnDisk(saw[p], Header[p], disk')
      /\ Layout(saw[p], Header[p]) /\ Layout(committed, DiskHeader)
      /\ Prefix(committed, DiskHeader, saw[p], Header[p])
  BY <1>1, MayModifyFlush
<1>4. Layout(saw'[p], Header'[p]) /\ Prefix(saw[p], Header[p], saw'[p], Header'[p])
  BY <1>1, <1>2, <1>3, LayoutAppend
<1>5. Prefix(committed', DiskHeader', saw'[p], Header'[p])
  BY <1>1, <1>3, <1>4, PrefixTrans DEF HeaderKept, HistoryKept
<1>6. Using(p)' /\ Live(p)' /\ phase'[p] # "header" /\ phase'[p] = "ready"
  BY <1>1 DEF Using, Live
<1>7. ImageInv(p)'
  BY <1>1, <1>2, <1>4, <1>5, <1>6 DEF ImageInv
<1>8. KeysInv(p)'
  BY <1>1, <1>6 DEF KeysInv
<1>9. buf'[p] # NoBuf /\ buf'[p].at = o /\ buf'[p].cell = cell
  BY <1>1, RecordWaits DEF Waiting
<1>10. WriterInv(p)'
  <2>1. WaitingInv(p)'
    <3>1. DiskHeader'.EntryCount <= n
      BY <1>3 DEF HeaderKept, Prefix
    <3>2. Header'[p].EntryCount - 1 = n
      BY <1>1
    <3>3. saw'[p].recs[n].Offset = o /\ saw'[p].recs[n].cell = cell
      BY <1>1
    <3>4. LastWaits(p)'
      BY <1>1, <3>1, <3>2, <3>3 DEF LastWaits
    <3> QED BY <1>6, <3>4 DEF WaitingInv
  <2>2. ASSUME NEW m \in Upto(n + 1)
        PROVE  SeenAt(p, saw[p].recs[m].Offset, saw[p].recs[m].cell)'
    <3>1. m = n \/ m \in Upto(n)
      BY <1>1, UptoNext
    <3>2. CASE m = n
      BY <1>1, <1>9, <3>2, SMTT(60) DEF SeenAt
    <3>3. CASE m \in Upto(n)
      <4>1. /\ saw[p].recs[m].Offset \in DOMAIN disk'
            /\ disk'[saw[p].recs[m].Offset] = saw[p].recs[m].cell
        BY <1>3, <3>3 DEF OnDisk
      <4>2. saw[p].recs[m].Offset \in Nat /\ saw[p].recs[m].Offset < o
        BY <1>3, <3>3, LayoutTypes
      <4>3. saw'[p].recs[m] = saw[p].recs[m] /\ buf'[p].at # saw[p].recs[m].Offset
        BY <1>1, <1>9, <3>3, <4>2
      <4> QED BY <4>1, <4>3 DEF SeenAt
    <3> QED BY <3>1, <3>2, <3>3
  <2> QED BY <1>1, <1>6, <1>9, <2>1, <2>2 DEF WriterInv
<1>11. SessionInv(p)' /\ ModeInv(p)'
  BY <1>1, <1>6, <1>7, <1>8, <1>10 DEF SessionInv, ModeInv
<1>12. OthersSame(p) /\ Shapes' /\ MarksKept
  <2>1. /\ MarksKept /\ overrun' \in [Proc -> BOOLEAN]
        /\ \A q \in Proc : phase[q] # "header" => (overrun'[q] <=> overrun[q])
    BY <1>1, ReachesMarks DEF Flushes
  <2>2. \A q \in Proc : phase[q] # "header" => overrun'[q] = overrun[q]
    <3>1. Shapes
      BY <1>1
    <3> QED BY <2>1, <3>1 DEF Shapes
  <2>3. OthersSame(p)
    BY <1>1, <2>2 DEF OthersSame, SameSession, PutOver, SeekAndWrite, Shapes, Stale
  <2>4. Shapes'
    BY <1>1, <2>1 DEF PutOver, SeekAndWrite, Shapes, Stale, Modes
  <2> QED BY <2>1, <2>3, <2>4
<1>13. Excludes(p)
  BY <1>1, MayModifyOthers
<1>14. MayStill(p)
  BY <1>1, <1>6 DEF MayStill, MayModify, Live
<1> QED BY <1>1, <1>3, <1>11, <1>12, <1>13, <1>14, WriterStep

\* put, with the deletion of the old entry of its key.
LEMMA PutKeeps ==
    ASSUME IInv, NEW p \in Proc, NEW k \in Key, NEW v \in Val, KVDB_DBObject_put(p, k, v)
    PROVE  IInv'
<1>1. CASE PutOver(p, k, v, {})
  BY <1>1, PutOverKeeps
<1>2. ASSUME NEW m \in Found(p, k), PutOver(p, k, v, {m}) PROVE IInv'
  <2>1. phase[p] = "ready"
    BY <1>2 DEF PutOver
  <2>2. KeysRead(p, Header[p].EntryCount)
    BY <2>1 DEF IInv, SessionInv, KeysInv, Using
  <2>3. {m} \subseteq Upto(Header[p].EntryCount)
    BY <2>2 DEF Found, KeysRead
  <2> QED BY <1>2, <2>3, PutOverKeeps
<1> QED BY <1>1, <1>2 DEF KVDB_DBObject_put

Flagged(T, i) == [m \in DOMAIN T |-> Marked(T[m], m = i)]

(* A table in which another entry is flagged describes the image with that deletion. *)
LEMMA TableFlagged ==
    ASSUME NEW h, NEW im, NEW T, NEW A, NEW x, Layout(im, h), TableOf(T, im, h, A, x),
           NEW i \in Upto(h.EntryCount), NEW im2, im2.recs = im.recs,
           im2.deleted \subseteq im.deleted \cup {i}, NEW A2, A \cup {i} \subseteq A2
    PROVE  TableOf(Flagged(T, i), im2, h, A2, x)
<1> PICK D : D = Upto(h.EntryCount)
  OBVIOUS
<1>1. T \in [D -> Entries] /\ im.deleted \subseteq D
  BY DEF TableOf, Layout
<1> DEFINE T2 == Flagged(T, i)
<1>2. ASSUME NEW m \in D
      PROVE  /\ T2[m] \in Entries /\ T2[m].Offset = T[m].Offset
             /\ T2[m].deleted <=> T[m].deleted \/ m = i
  <2>1. T[m] \in Entries
    BY <1>1
  <2>2. T2[m] = Marked(T[m], m = i)
    BY <1>1 DEF Flagged
  <2>3. /\ Marked(T[m], m = i) \in Entries
        /\ Marked(T[m], m = i).Offset = T[m].Offset
        /\ Marked(T[m], m = i).deleted <=> T[m].deleted \/ m = i
    BY <2>1, MarkedOnly, Zenon
  <2> HIDE DEF T2
  <2> QED BY <2>2, <2>3, Zenon
<1>3. T2 = [m \in D |-> T2[m]]
  BY <1>1 DEF Flagged
<1> HIDE DEF T2
<1>4. T2 \in [D -> Entries] /\ DOMAIN T2 = D
  BY <1>2, <1>3
<1>5. ASSUME ~x
      PROVE  /\ \A m \in D : T2[m].Offset = im2.recs[m].Offset
             /\ im2.deleted \subseteq DeletedIn(T2) /\ DeletedIn(T2) \subseteq A2
  <2>1. /\ \A m \in D : T[m].Offset = im.recs[m].Offset
        /\ im.deleted \subseteq DeletedIn(T) /\ DeletedIn(T) \subseteq A
    BY <1>5 DEF TableOf
  <2>2. \A m \in D : T2[m].Offset = im2.recs[m].Offset
    BY <1>2, <2>1
  <2>3. im2.deleted \subseteq DeletedIn(T2)
    <3> SUFFICES ASSUME NEW m \in im2.deleted PROVE m \in DeletedIn(T2)
      OBVIOUS
    <3>1. m \in D /\ (m \in DeletedIn(T) \/ m = i)
      BY <1>1, <2>1
    <3>2. T[m].deleted \/ m = i
      BY <3>1 DEF DeletedIn
    <3> QED BY <1>2, <1>4, <3>1, <3>2 DEF DeletedIn
  <2>4. DeletedIn(T2) \subseteq A2
    <3> SUFFICES ASSUME NEW m \in DeletedIn(T2) PROVE m \in A \/ m = i
      OBVIOUS
    <3>1. m \in D /\ T2[m].deleted
      BY <1>4 DEF DeletedIn
    <3>2. T[m].deleted \/ m = i
      BY <1>2, <3>1
    <3>3. T[m].deleted => m \in DeletedIn(T)
      BY <1>1, <3>1 DEF DeletedIn
    <3> QED BY <2>1, <3>2, <3>3
  <2> QED BY <2>2, <2>3, <2>4
<1>6. TableOf(T2, im2, h, A2, x)
  BY <1>4, <1>5 DEF TableOf
<1> QED BY <1>6 DEF T2

(* What a session that may modify the file has, whether it did or not. *)
LEMMA MayModifyRecords ==
    ASSUME IInv, NEW p \in Proc, phase[p] = "ready", MayModify(p)
    PROVE  /\ Layout(saw[p], Header[p]) /\ Layout(committed, DiskHeader)
           /\ Prefix(committed, DiskHeader, saw[p], Header[p])
           /\ TableOf(IndexTable[p], saw[p], Header[p], asked, overrun[p])
           /\ KeysRead(p, Header[p].EntryCount)
           /\ buf[p] = NoBuf \/ LastWaits(p)
           /\ \A m \in Upto(Header[p].EntryCount) :
                 SeenAt(p, saw[p].recs[m].Offset, saw[p].recs[m].cell)
           /\ ~appended /\ DiskHeader.EntryCount < Header[p].EntryCount => buf[p] # NoBuf
<1>1. Using(p) /\ KeysRead(p, Header[p].EntryCount)
  BY DEF Using, IInv, SessionInv, KeysInv
<1>2. CASE db_modified[p]
  BY <1>1, <1>2, WriterFacts DEF WaitingInv
<1>3. CASE ~db_modified[p]
  <2>1. /\ Layout(saw[p], Header[p]) /\ Layout(committed, DiskHeader)
        /\ Prefix(committed, DiskHeader, saw[p], Header[p])
        /\ TableOf(IndexTable[p], saw[p], Header[p], asked, overrun[p])
        /\ buf[p] = NoBuf /\ DiskHeader.EntryCount = Header[p].EntryCount
        /\ OnDisk(saw[p], Header[p], disk)
    BY <1>3, MayModifyFacts
  <2>2. Header[p].EntryCount \in Nat
    BY <2>1, LayoutTypes
  <2>3. \A m \in Upto(Header[p].EntryCount) :
           SeenAt(p, saw[p].recs[m].Offset, saw[p].recs[m].cell)
    BY <2>1 DEF OnDisk, SeenAt
  <2> QED BY <1>1, <2>1, <2>2, <2>3
<1> QED BY <1>2, <1>3

\* delete by number.
LEMMA DeleteKeeps ==
    ASSUME IInv, NEW p \in Proc, NEW i \in Upto(Header[p].EntryCount),
           KVDB_DBObject_delete(p, i)
    PROVE  IInv'
<1> PICK h : h = Header[p]
  OBVIOUS
<1>1. /\ phase[p] = "ready" /\ MayModify(p) /\ Shapes /\ FileInv
      /\ disk' = disk /\ HistoryKept /\ (~appended' => ~appended) /\ appended' = appended
      /\ phase' = phase /\ Header' = Header /\ key_arr' = key_arr /\ fpos' = fpos
      /\ buf' = buf /\ stale' = Stale(p) /\ asked' = asked \cup {i}
      /\ overrun' = overrun /\ spoiled' = spoiled
  BY ModesParts DEF KVDB_DBObject_delete, HistoryKept, Doubted, IInv
<1>2. /\ IndexTable'[p] = Flagged(IndexTable[p], i) /\ db_modified'[p]
      /\ saw'[p].recs = saw[p].recs /\ saw'[p].deleted = saw[p].deleted \cup {i}
  <2>1. IndexTable' = [IndexTable EXCEPT ![p] = Flagged(IndexTable[p], i)]
    BY DEF KVDB_DBObject_delete, Flagged, Marked
  <2>2. IndexTable'[p] = Flagged(IndexTable[p], i)
    BY <1>1, <2>1 DEF Shapes
  <2> QED BY <1>1, <2>2 DEF KVDB_DBObject_delete, Shapes
<1>3. /\ Layout(saw[p], h) /\ Layout(committed, DiskHeader)
      /\ Prefix(committed, DiskHeader, saw[p], h)
      /\ TableOf(IndexTable[p], saw[p], h, asked, overrun[p])
      /\ KeysRead(p, h.EntryCount)
      /\ buf[p] = NoBuf \/ LastWaits(p)
      /\ \A m \in Upto(h.EntryCount) : SeenAt(p, saw[p].recs[m].Offset, saw[p].recs[m].cell)
      /\ ~appended /\ DiskHeader.EntryCount < h.EntryCount => buf[p] # NoBuf
  BY <1>1, MayModifyRecords
<1>4. FileInv' /\ HeaderKept
  BY <1>1, FileSame
<1>5. Layout(saw'[p], h) /\ Prefix(saw[p], h, saw'[p], h)
  <2>1. saw[p].deleted \subseteq saw'[p].deleted /\ saw'[p].deleted \subseteq Upto(h.EntryCount)
    BY <1>2, <1>3 DEF Layout
  <2> QED BY <1>2, <1>3, <2>1, LayoutDeleted
<1>6. Prefix(committed, DiskHeader, saw'[p], h)
  BY <1>3, <1>5, PrefixTrans
<1>7. TableOf(IndexTable'[p], saw'[p], h, asked', overrun'[p])
  <2>1. asked \cup {i} \subseteq asked' /\ saw'[p].deleted \subseteq saw[p].deleted \cup {i}
    BY <1>1, <1>2
  <2>2. TableOf(Flagged(IndexTable[p], i), saw'[p], h, asked', overrun[p])
    BY <1>2, <1>3, <2>1, TableFlagged
  <2> QED BY <1>1, <1>2, <2>2
<1>8. Using(p)' /\ Live(p)' /\ phase'[p] # "header" /\ phase'[p] = "ready"
  BY <1>1 DEF Using, Live
<1>9. ImageInv(p)'
  BY <1>1, <1>2, <1>4, <1>5, <1>6, <1>7, <1>8 DEF ImageInv, HeaderKept, HistoryKept
<1>10. KeysInv(p)'
  BY <1>1, <1>2, <1>3, <1>8 DEF KeysInv, KeysRead
<1>11. WriterInv(p)'
  <2>1. WaitingInv(p)'
    <3>1. LastWaits(p) => LastWaits(p)'
      BY <1>1, <1>2, <1>4 DEF LastWaits, HeaderKept
    <3> QED BY <1>1, <1>3, <1>8, <3>1 DEF WaitingInv
  <2>2. \A m \in Upto(h.EntryCount) : SeenAt(p, saw[p].recs[m].Offset, saw[p].recs[m].cell)'
    BY <1>1, <1>2, <1>3 DEF SeenAt
  <2> QED BY <1>1, <1>3, <1>4, <1>8, <2>1, <2>2 DEF WriterInv, HeaderKept
<1>12. SessionInv(p)' /\ ModeInv(p)'
  BY <1>2, <1>8, <1>9, <1>10, <1>11 DEF SessionInv, ModeInv
<1>13. OthersSame(p)
  BY <1>1 DEF OthersSame, SameSession, KVDB_DBObject_delete, Shapes, Stale
<1>14. Shapes'
  BY <1>1 DEF KVDB_DBObject_delete, Shapes, Stale, Modes
<1>15. Excludes(p)
  BY <1>1, MayModifyOthers
<1>16. MarksKept
  BY <1>1, NothingMarked
<1>17. MayStill(p)
  BY <1>1, <1>8 DEF MayStill, MayModify, Live
<1> QED BY <1>1, <1>4, <1>12, <1>13, <1>14, <1>15, <1>16, <1>17, WriterStep

-----------------------------------------------------------------------------
(* The invariant, and what follows from it. *)

\* A kill, and then all steps.
LEMMA KillKeeps ==
    ASSUME IInv, NEW p \in Proc, Kill(p)
    PROVE  IInv'
<1>1. Ends(p) /\ UNCHANGED <<disk, committed, asked, appended, spoiled>>
  BY DEF Kill
<1> QED BY <1>1, EndsKeeps

LEMMA NextKeeps ==
    ASSUME IInv, [Next]_vars
    PROVE  IInv'
<1>1. CASE Next
  <2> PICK p \in Proc :
        \/ \E cap \in Caps : KVDB_DBObject_create(p, cap)
        \/ Open(p)
        \/ \E k \in Key, v \in Val : KVDB_DBObject_put(p, k, v)
        \/ \E n \in Upto(Header[p].EntryCount) : KVDB_DBObject_delete(p, n)
        \/ KVDB_DBObject_get(p)
        \/ Close(p)
        \/ Spill(p)
        \/ Kill(p)
    BY <1>1 DEF Next
  <2>1. CASE \E cap \in Caps : KVDB_DBObject_create(p, cap)
    BY <2>1, CreateKeeps
  <2>2. CASE Open(p)
    BY <2>2, OpenHeaderKeeps, OpenIndexTableKeeps, OpenLoadKeyKeeps, OpenDoneKeeps DEF Open
  <2>3. CASE \E k \in Key, v \in Val : KVDB_DBObject_put(p, k, v)
    BY <2>3, PutKeeps
  <2>4. CASE \E n \in Upto(Header[p].EntryCount) : KVDB_DBObject_delete(p, n)
    BY <2>4, DeleteKeeps
  <2>5. CASE KVDB_DBObject_get(p)
    BY <2>5, GetKeeps
  <2>6. CASE Close(p)
    BY <2>6, CloseStepKeeps, FcloseKeeps DEF Close
  <2>7. CASE Spill(p)
    BY <2>7, SpillKeeps
  <2>8. CASE Kill(p)
    BY <2>8, KillKeeps, SMTT(60)
  <2> QED BY <2>1, <2>2, <2>3, <2>4, <2>5, <2>6, <2>7, <2>8
<1>2. CASE UNCHANGED vars
  BY <1>2 DEF vars, session, history, IInv, ModesInv, OneWriterInv, OverrunInv, Doubted, FileInv, SessionInv, ImageInv,
              KeysInv, WriterInv, WaitingInv, LastWaits, TableToWrite, EOFOffset, KeysRead,
              SeenAt, Live, Using, DiskHeader
<1> QED BY <1>1, <1>2

(* Whatever any number of sessions do, and wherever they are killed, the         *)
(* invariant holds.                                                              *)
THEOREM SessionsInvariant == Spec => []IInv
<1>1. Init => IInv
  BY InitIInv
<1>2. IInv /\ [Next]_vars => IInv'
  BY NextKeeps
<1> QED BY <1>1, <1>2, PTL DEF Spec

(* A session sees the records that were committed when it read the header, and   *)
(* its own, under their keys, for as long as it lives; and where its table says, *)
(* unless records had reached the disk since the last close when it read the     *)
(* table (kvdb.c 159-210, 311-323).                                              *)
THEOREM SnapshotsAreStable == Spec => []SnapshotReads
<1>1. IInv => SnapshotReads
  <2> SUFFICES ASSUME IInv, NEW p \in Proc, Using(p)
               PROVE  /\ DOMAIN saw[p].recs = Upto(Header[p].EntryCount)
                      /\ \A n \in DOMAIN saw[p].recs :
                            LET rec == saw[p].recs[n]
                            IN  /\ ~overrun[p] => IndexTable[p][n].Offset = rec.Offset
                                /\ key_arr[p][n] = rec.cell.key
                                /\ SeenAt(p, rec.Offset, rec.cell)
    BY DEF SnapshotReads
  <2>1. Live(p) /\ phase[p] # "header"
    BY DEF Using, Live
  <2>2. /\ Layout(saw[p], Header[p]) /\ TableOf(IndexTable[p], saw[p], Header[p], asked, overrun[p])
        /\ KeysRead(p, Header[p].EntryCount)
    BY <2>1 DEF IInv, SessionInv, ImageInv, KeysInv
  <2>3. ASSUME NEW n \in Upto(Header[p].EntryCount)
        PROVE  SeenAt(p, saw[p].recs[n].Offset, saw[p].recs[n].cell)
    <3>1. CASE db_modified[p]
      BY <3>1, WriterFacts
    <3>2. CASE ~db_modified[p]
      BY <2>1, <3>2, ReaderFacts DEF OnDisk, SeenAt
    <3> QED BY <3>1, <3>2
  <2> QED BY <2>2, <2>3 DEF Layout, TableOf, KeysRead
<1> QED BY <1>1, SessionsInvariant, PTL

(* A deletion that a close wrote is seen by every later session, and no session  *)
(* sees one that nobody asked for (kvdb.c 256-260, 180), but for the sessions    *)
(* that may have read other bytes as their table.                                *)
THEOREM DeletionsAreSeen == Spec => []DeletionsSeen
<1>1. IInv => DeletionsSeen
  <2> SUFFICES ASSUME IInv, NEW p \in Proc, Using(p), ~overrun[p]
               PROVE  /\ saw[p].deleted \subseteq DeletedIn(IndexTable[p])
                      /\ DeletedIn(IndexTable[p]) \subseteq asked
    BY DEF DeletionsSeen
  <2>1. Live(p) /\ phase[p] # "header"
    BY DEF Using, Live
  <2> QED BY <2>1 DEF IInv, SessionInv, ImageInv, TableOf
<1> QED BY <1>1, SessionsInvariant, PTL

(* The records of the last completed close stay where they are on the disk,      *)
(* whatever sessions do and wherever they are killed (kvdb.c 210, 311).          *)
THEOREM CommittedRecordsStay == Spec => []CommittedRecordsSurvive
<1>1. IInv => CommittedRecordsSurvive
  <2> SUFFICES ASSUME IInv, Holds(disk, 0, "header")
               PROVE  /\ DOMAIN committed.recs = Upto(disk[0].hdr.EntryCount)
                      /\ \A n \in DOMAIN committed.recs :
                            LET rec == committed.recs[n]
                            IN  rec.Offset \in DOMAIN disk /\ disk[rec.Offset] = rec.cell
    BY DEF CommittedRecordsSurvive
  <2>1. DiskHeader = disk[0].hdr
    BY DEF DiskHeader
  <2>2. Layout(committed, disk[0].hdr) /\ OnDisk(committed, disk[0].hdr, disk)
    BY <2>1 DEF IInv, FileInv
  <2> QED BY <2>2 DEF Layout, OnDisk
<1> QED BY <1>1, SessionsInvariant, PTL

(* Only a record that reached the disk with no close after it leaves a file      *)
(* without a whole index table where its header says; the table says where the   *)
(* records are unless a session that may have misread its own wrote it (kvdb.c   *)
(* 222-261).                                                                     *)
THEOREM DeletionsKeepTheFile == Spec => []OnlyAppendsBreakTheFile
<1>1. IInv => OnlyAppendsBreakTheFile
  <2> SUFFICES ASSUME IInv, Holds(disk, 0, "header"), ~appended, disk[0].hdr.EntryCount > 0
               PROVE  LET h == disk[0].hdr
                      IN  /\ Holds(disk, h.IndexTableOffset, "index")
                          /\ disk[h.IndexTableOffset].count = h.EntryCount
                          /\ ~spoiled =>
                                \A n \in Upto(h.EntryCount) :
                                   disk[h.IndexTableOffset].table[n].Offset
                                      = committed.recs[n].Offset
    BY DEF OnlyAppendsBreakTheFile
  <2>1. DiskHeader = disk[0].hdr
    BY DEF DiskHeader
  <2>2. /\ TableAt(disk, disk[0].hdr)
        /\ TableOf(disk[disk[0].hdr.IndexTableOffset].table, committed, disk[0].hdr, asked, Doubted)
    BY <2>1 DEF IInv, FileInv
  <2> QED BY <2>2 DEF TableAt, TableOf, Doubted
<1> QED BY <1>1, SessionsInvariant, PTL
=============================================================================
