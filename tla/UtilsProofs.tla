----------------------------- MODULE UtilsProofs -----------------------------
(***************************************************************************)
(* Theorems about three parts that stand beside the engine: the table      *)
(* tools of utils/tbldb with their tokenizer, the chained table of         *)
(* SubProjs/hash, and the arena of core/src/mem.                           *)
(*                                                                         *)
(* TableTools, for every text, primary key column, buffer and key size.    *)
(* With what TxtTokProofs has of the tokenizer, the record that the loop   *)
(* over the columns appends to is shown to be taken apart into the same    *)
(* cells by the loop that reads it; the invariant of the import then says, *)
(* row by row, what is listed, what is in the database and what is deleted *)
(* in it.                                                                  *)
(*                                                                         *)
(* ChainTable, for every hash, capacity, key and value.  What a table      *)
(* holds of one key is in one bucket, so that an insertion, a deletion and *)
(* a resize are each described by what they do to the list of every key;   *)
(* the invariant says that these lists are those of the history.           *)
(*                                                                         *)
(* MemArena, for every word size, alignment, object and arena size: the    *)
(* objects made since the last reset are intact unless a sum has wrapped.  *)
(* The bump pointer is what separates them: it is behind every object, and *)
(* an allocation that does not wrap begins at it or behind it.             *)
(***************************************************************************)
EXTENDS TableTools, TxtTokProofs, ChainTable, MemArena

-----------------------------------------------------------------------------
(* The bytes of a record. *)

\* The bytes of a record, column by column.
LEMMA BytesFacts ==
    ASSUME NEW L \in Nat, NEW toks, Len(toks) = L, \A n \in 1 .. L : toks[n].tok_len \in Nat
    PROVE  /\ BytesUpTo(toks)[0] = 0
           /\ \A n \in 0 .. L : BytesUpTo(toks)[n] \in Nat
           /\ \A n \in 1 .. L :
                 BytesUpTo(toks)[n] = BytesUpTo(toks)[n - 1] + LEN_SIZE + toks[n].tok_len
<1> DEFINE step == [n \in 1 .. L |-> [x \in Nat |-> x + LEN_SIZE + toks[n].tok_len]]
           Sum(f) == [n \in 0 .. L |-> IF n = 0 THEN 0 ELSE f[n - 1] + LEN_SIZE + toks[n].tok_len]
<1>1. LEN_SIZE \in Nat
  BY TableAssumption
<1>2. Turns(step, L, Nat)
  BY <1>1 DEF Turns
<1>3. ASSUME NEW f, Loop(f, L, 0, step)
      PROVE  f = Sum(f)
  <2>1. /\ \A n \in 0 .. L : f[n] \in Nat
        /\ f[0] = 0
        /\ \A n \in 1 .. L : f[n] = step[n][f[n - 1]]
    <3> HIDE DEF step
    <3>1. \A n \in 0 .. L : f[n] \in Nat
      BY <1>2, <1>3, LoopStays
    <3> QED BY <1>3, <3>1, LoopTurns
  <2>2. \A n \in 0 .. L : f[n] = IF n = 0 THEN 0 ELSE f[n - 1] + LEN_SIZE + toks[n].tok_len
    BY <2>1, OneOrMore
  <2>3. f = [n \in 0 .. L |-> f[n]]
    BY <1>3 DEF Loop
  <2> QED BY <2>2, <2>3
<1>4. \E s : s = Sum(s)
  <2>1. \E f : Loop(f, L, 0, step)
    <3> HIDE DEF step
    <3> QED BY <1>2, LoopComputes
  <2> HIDE DEF Sum
  <2> QED BY <1>3, <2>1
<1> PICK s : s = BytesUpTo(toks)
  OBVIOUS
<1>5. s = Sum(s)
  <2>1. s = CHOOSE f : f = Sum(f)
    BY DEF BytesUpTo
  <2> HIDE DEF Sum
  <2> QED BY <1>4, <2>1
<1>6. s[0] = 0 /\ \A n \in 1 .. L : s[n] = s[n - 1] + LEN_SIZE + toks[n].tok_len
  BY <1>5
<1>7. \A n \in 0 .. L : s[n] \in Nat
  <2> DEFINE B == {n \in 0 .. L : s[n] \in Nat}
  <2>1. 0 \in B /\ \A n \in 1 .. L : n - 1 \in B => n \in B
    BY SMTT(60), <1>1, <1>6
  <2>2. 0 .. L \subseteq B
    <3> HIDE DEF B
    <3> QED BY <2>1, Reaches
  <2> QED BY <2>2
<1> QED BY <1>6, <1>7

\* A product, one factor further.
LEMMA OneMore ==
    ASSUME NEW n \in Nat \ {0}, NEW size \in Nat
    PROVE  n * size = (n - 1) * size + size /\ n * size \in Nat /\ (n - 1) * size \in Nat
<1>1. \A x \in Nat : x * size \in Nat
  OBVIOUS
<1>2. \A x, y \in Int : (x + y) * size = x * size + y * size
  OBVIOUS
<1>3. n = (n - 1) + 1 /\ n - 1 \in Nat /\ 1 * size = size
  OBVIOUS
<1>4. ((n - 1) + 1) * size = (n - 1) * size + 1 * size
  BY <1>2, <1>3
<1> QED BY <1>1, <1>3, <1>4

\* A record with all the fields of its line has the characters of the line but its
\* commas, and a length for each column.
LEMMA BytesOf ==
    ASSUME NEW line \in Seq(Char), NEW cols \in Nat, FieldCnt(line) <= cols
    PROVE  BytesUpTo(MarkTokPosMeta(line, cols, Delim))[cols]
             = Len(line) - (FieldCnt(line) - 1) + cols * LEN_SIZE
<1> PICK toks : toks = MarkTokPosMeta(line, cols, Delim)
  OBVIOUS
<1> PICK marks : marks = Marks(line, Delim)
  OBVIOUS
<1> PICK K : K = FieldCnt(line)
  OBVIOUS
<1>1. K \in Nat \ {0} /\ K <= cols /\ Len(line) \in Nat /\ LEN_SIZE \in Nat
  BY FieldsOf, TableAssumption
<1>2. /\ Len(toks) = cols
      /\ \A n \in 1 .. cols : /\ toks[n].tok_len \in Nat
                              /\ n <= K => toks[n] = marks[n]
                              /\ n > K => toks[n].tok_len = 0
  BY ArrayOf
<1>3. \A k \in 1 .. K : marks[k].tok_len = EndOf(marks, k) - EndOf(marks, k - 1) - 1
  BY TokenOf
<1>4. EndOf(marks, 0) = 0 /\ EndOf(marks, K) = Len(line) + 1
  BY MarksOf DEF EndOf
<1>5. \A k \in 0 .. K : EndOf(marks, k) \in Nat
  <2>1. TokensTo(line, marks, Len(line) + 1) /\ Len(marks) = K
    BY MarksOf
  <2>2. \A k \in 1 .. K : EndOf(marks, k) \in 1 .. Len(line) + 1
    BY <2>1 DEF TokensTo
  <2> QED BY <1>1, <1>4, <2>2, OneOrMore
<1> PICK sum : sum = BytesUpTo(toks)
  OBVIOUS
<1>6. /\ sum[0] = 0
      /\ \A n \in 0 .. cols : sum[n] \in Nat
      /\ \A n \in 1 .. cols : sum[n] = sum[n - 1] + LEN_SIZE + toks[n].tok_len
  BY <1>2, BytesFacts
<1> DEFINE Total(n) == (IF n <= K THEN EndOf(marks, n) - n ELSE Len(line) + 1 - K) + n * LEN_SIZE
           B == {n \in 0 .. cols : sum[n] = Total(n)}
<1>7. 0 \in B
  <2>1. 0 * LEN_SIZE = 0
    BY <1>1
  <2> QED BY <1>1, <1>4, <1>6, <2>1
<1>8. ASSUME NEW n \in 1 .. cols, n - 1 \in B PROVE n \in B
  <2>1. sum[n] = Total(n - 1) + LEN_SIZE + toks[n].tok_len /\ n - 1 \in 0 .. cols
    BY <1>6, <1>8
  <2>2. /\ n * LEN_SIZE = (n - 1) * LEN_SIZE + LEN_SIZE
        /\ n * LEN_SIZE \in Nat /\ (n - 1) * LEN_SIZE \in Nat
    BY <1>1, OneMore
  <2>3. CASE n <= K
    <3>1. /\ n \in 1 .. K /\ n \in 0 .. K /\ n - 1 \in 0 .. K /\ n - 1 <= K
      BY <1>1, <2>3
    <3>2. toks[n].tok_len = EndOf(marks, n) - EndOf(marks, n - 1) - 1
      BY <1>2, <1>3, <2>3, <3>1
    <3>3. Total(n - 1) = EndOf(marks, n - 1) - (n - 1) + (n - 1) * LEN_SIZE
      BY <3>1
    <3>4. Total(n) = EndOf(marks, n) - n + n * LEN_SIZE
      BY <2>3
    <3>5. EndOf(marks, n) \in Nat /\ EndOf(marks, n - 1) \in Nat
      BY <1>5, <3>1
    <3> HIDE DEF Total
    <3>6. sum[n] = Total(n)
      BY SMTT(60), <1>1, <2>1, <2>2, <3>2, <3>3, <3>4, <3>5
    <3> QED BY <3>6
  <2>4. CASE ~(n <= K)
    <3>1. toks[n].tok_len = 0
      BY <1>1, <1>2, <2>4
    <3>2. Total(n - 1) = Len(line) + 1 - K + (n - 1) * LEN_SIZE
      <4>1. CASE n - 1 <= K
        <5>1. n - 1 = K
          BY <1>1, <2>4, <4>1
        <5>2. Total(n - 1) = EndOf(marks, n - 1) - (n - 1) + (n - 1) * LEN_SIZE
          BY <4>1
        <5> HIDE DEF Total
        <5> QED BY <1>4, <5>1, <5>2
      <4>2. CASE ~(n - 1 <= K)
        BY <4>2
      <4> QED BY <4>1, <4>2
    <3>3. Total(n) = Len(line) + 1 - K + n * LEN_SIZE
      BY <2>4
    <3> HIDE DEF Total
    <3>4. sum[n] = Total(n)
      BY SMTT(60), <1>1, <2>1, <2>2, <3>1, <3>2, <3>3
    <3> QED BY <3>4
  <2> QED BY <2>3, <2>4
<1>9. cols \in B
  <2>1. 0 .. cols \subseteq B
    <3> HIDE DEF B
    <3> QED BY <1>7, <1>8, Reaches
  <2> HIDE DEF B
  <2> QED BY <2>1
<1>10. Total(cols) = Len(line) - (K - 1) + cols * LEN_SIZE
  <2>1. cols * LEN_SIZE \in Nat
    BY <1>1
  <2>2. CASE cols <= K
    <3>1. cols = K
      BY <1>1, <2>2
    <3>2. Total(cols) = EndOf(marks, cols) - cols + cols * LEN_SIZE
      BY <2>2
    <3> HIDE DEF Total
    <3> QED BY <1>1, <1>4, <2>1, <3>1, <3>2
  <2>3. CASE ~(cols <= K)
    <3>1. Total(cols) = Len(line) + 1 - K + cols * LEN_SIZE
      BY <2>3
    <3> HIDE DEF Total
    <3> QED BY <1>1, <2>1, <3>1
  <2> QED BY <2>2, <2>3
<1> QED BY <1>9, <1>10

-----------------------------------------------------------------------------
(* A record and what is read back from it. *)

Byte == Char \cup Nat

\* b[n] is the record after n of the cells c.
Records(b, c, cols) ==
    /\ b[0] = <<>>
    /\ \A n \in 1 .. cols : c[n] \in Seq(Char) /\ b[n] = b[n - 1] \o (<<Len(c[n])>> \o c[n])

\* One cell more.
CellAdded(b, c, r) ==
    /\ r \in Seq(Byte) /\ Len(c) \in Nat
    /\ Len(r) = Len(b) + 1 + Len(c)
    /\ \A x \in 1 .. Len(b) : r[x] = b[x]
    /\ r[Len(b) + 1] = Len(c)
    /\ \A x \in 1 .. Len(c) : r[Len(b) + 1 + x] = c[x]

\* What one cell adds to a record.
LEMMA OneCell ==
    ASSUME NEW b \in Seq(Byte), NEW c \in Seq(Char), NEW r, r = b \o (<<Len(c)>> \o c)
    PROVE  CellAdded(b, c, r)
<1>1. <<Len(c)>> \in Seq(Byte) /\ c \in Seq(Byte) /\ Len(c) \in Nat /\ Len(b) \in Nat
  BY DEF Byte
<1>2. Len(<<Len(c)>>) = 1 /\ <<Len(c)>>[1] = Len(c)
  OBVIOUS
<1> PICK u : u = <<Len(c)>> \o c
  OBVIOUS
<1>3. /\ u \in Seq(Byte) /\ Len(u) = 1 + Len(c)
      /\ \A x \in 1 .. 1 + Len(c) : u[x] = IF x <= 1 THEN <<Len(c)>>[x] ELSE c[x - 1]
  BY <1>1, <1>2, ConcatProperties
<1>4. u[1] = Len(c) /\ \A x \in 1 .. Len(c) : u[x + 1] = c[x]
  <2>1. 1 \in 1 .. 1 + Len(c)
    BY <1>1
  <2>2. u[1] = Len(c)
    BY <1>2, <1>3, <2>1
  <2>3. ASSUME NEW x \in 1 .. Len(c) PROVE u[x + 1] = c[x]
    <3>1. x + 1 \in 1 .. 1 + Len(c) /\ ~(x + 1 <= 1) /\ (x + 1) - 1 = x
      BY <1>1
    <3> QED BY <1>3, <3>1
  <2> QED BY <2>2, <2>3
<1>5. /\ r \in Seq(Byte) /\ Len(r) = Len(b) + Len(u)
      /\ \A x \in 1 .. Len(b) + Len(u) : r[x] = IF x <= Len(b) THEN b[x] ELSE u[x - Len(b)]
  BY <1>3, ConcatProperties
<1>6. \A x \in 1 .. Len(b) : r[x] = b[x]
  <2>1. \A x \in 1 .. Len(b) : x \in 1 .. Len(b) + Len(u) /\ x <= Len(b)
    BY <1>1, <1>3
  <2> QED BY <1>5, <2>1
<1>7. \A y \in 1 .. 1 + Len(c) : r[Len(b) + y] = u[y]
  <2>1. ASSUME NEW y \in 1 .. 1 + Len(c)
        PROVE  r[Len(b) + y] = u[y]
    <3>1. Len(b) + y \in 1 .. Len(b) + Len(u) /\ ~(Len(b) + y <= Len(b)) /\ (Len(b) + y) - Len(b) = y
      BY <1>1, <1>3
    <3> QED BY <1>5, <3>1
  <2> QED BY <2>1
<1>8. r[Len(b) + 1] = Len(c)
  <2>1. 1 \in 1 .. 1 + Len(c)
    BY <1>1
  <2> QED BY <1>4, <1>7, <2>1
<1>9. ASSUME NEW x \in 1 .. Len(c) PROVE r[Len(b) + 1 + x] = c[x]
  <2>1. x + 1 \in 1 .. 1 + Len(c) /\ Len(b) + (x + 1) = Len(b) + 1 + x
    BY <1>1
  <2>2. r[Len(b) + (x + 1)] = u[x + 1]
    BY <1>7, <2>1
  <2> QED BY <1>4, <2>1, <2>2
<1> QED BY <1>1, <1>3, <1>5, <1>6, <1>8, <1>9 DEF CellAdded

\* Column by column, a record grows by one cell.
LEMMA RecordGrows ==
    ASSUME NEW b, NEW c, NEW cols \in Nat, Records(b, c, cols)
    PROVE  /\ \A n \in 0 .. cols : b[n] \in Seq(Byte) /\ Len(b[n]) \in Nat
           /\ \A n \in 1 .. cols : c[n] \in Seq(Char) /\ CellAdded(b[n - 1], c[n], b[n])
<1>1. \A n \in 1 .. cols : c[n] \in Seq(Char) /\ b[n] = b[n - 1] \o (<<Len(c[n])>> \o c[n])
  BY DEF Records
<1> DEFINE B == {n \in 0 .. cols : b[n] \in Seq(Byte)}
<1>2. 0 \in B
  <2>1. b[0] = <<>> /\ <<>> \in Seq(Byte) /\ 0 \in 0 .. cols
    BY DEF Records
  <2> QED BY <2>1
<1>3. ASSUME NEW n \in 1 .. cols, n - 1 \in B PROVE n \in B
  <2>1. b[n - 1] \in Seq(Byte) /\ c[n] \in Seq(Char) /\ b[n] = b[n - 1] \o (<<Len(c[n])>> \o c[n])
    BY <1>1, <1>3
  <2>2. CellAdded(b[n - 1], c[n], b[n])
    BY <2>1, OneCell
  <2>3. b[n] \in Seq(Byte)
    BY <2>2 DEF CellAdded
  <2> QED BY <2>3
<1>4. 0 .. cols \subseteq B
  <2> HIDE DEF B
  <2> QED BY <1>2, <1>3, Reaches
<1>5. \A n \in 0 .. cols : b[n] \in Seq(Byte) /\ Len(b[n]) \in Nat
  BY <1>4
<1>6. ASSUME NEW n \in 1 .. cols
      PROVE  c[n] \in Seq(Char) /\ CellAdded(b[n - 1], c[n], b[n])
  <2>1. n - 1 \in 0 .. cols
    OBVIOUS
  <2>2. b[n - 1] \in Seq(Byte) /\ c[n] \in Seq(Char) /\ b[n] = b[n - 1] \o (<<Len(c[n])>> \o c[n])
    BY <1>1, <1>5, <2>1
  <2> HIDE DEF B
  <2> QED BY <2>2, OneCell
<1> QED BY <1>5, <1>6

\* A sum that the provers do not find.
LEMMA Further ==
    ASSUME NEW p \in Nat, NEW d \in Nat \ {0}, NEW q \in Nat, NEW l \in Nat, p + (d - 1) <= q
    PROVE  p + d <= q + 1 + l
OBVIOUS

\* What the record has after n cells it has for good, and every cell takes a byte.
LEMMA RecordKeeps ==
    ASSUME NEW b, NEW c, NEW cols \in Nat, Records(b, c, cols), NEW n \in 0 .. cols
    PROVE  \A m \in n .. cols : /\ Len(b[n]) + (m - n) <= Len(b[m])
                                /\ \A x \in 1 .. Len(b[n]) : b[m][x] = b[n][x]
<1> DEFINE D == {d \in 0 .. cols - n :
                   /\ Len(b[n]) + d <= Len(b[n + d])
                   /\ \A x \in 1 .. Len(b[n]) : b[n + d][x] = b[n][x]}
<1>1. /\ \A m \in 0 .. cols : Len(b[m]) \in Nat
      /\ \A m \in 1 .. cols : CellAdded(b[m - 1], c[m], b[m])
  BY RecordGrows
<1>2. cols - n \in Nat /\ Len(b[n]) \in Nat
  BY <1>1
<1>3. 0 \in D
  <2>1. n + 0 = n /\ 0 \in 0 .. cols - n /\ Len(b[n]) + 0 <= Len(b[n])
    BY <1>2
  <2> QED BY <2>1
<1>4. ASSUME NEW d \in 1 .. cols - n, d - 1 \in D PROVE d \in D
  <2> PICK m \in 1 .. cols : m = n + d
    OBVIOUS
  <2>1. m - 1 = n + (d - 1) /\ d \in 0 .. cols - n /\ m - 1 \in 0 .. cols /\ m \in 0 .. cols
    OBVIOUS
  <2>2. CellAdded(b[m - 1], c[m], b[m]) /\ Len(b[m - 1]) \in Nat /\ Len(b[m]) \in Nat
    BY <1>1, <2>1
  <2>3. /\ Len(b[n]) + (d - 1) <= Len(b[m - 1])
        /\ \A x \in 1 .. Len(b[n]) : b[m - 1][x] = b[n][x]
    BY <1>4, <2>1
  <2>4. Len(c[m]) \in Nat /\ Len(b[m]) = Len(b[m - 1]) + 1 + Len(c[m])
    BY <2>2 DEF CellAdded
  <2>5. Len(b[n]) + d <= Len(b[m])
    <3>1. d \in Nat \ {0}
      OBVIOUS
    <3>2. Len(b[n]) + d <= Len(b[m - 1]) + 1 + Len(c[m])
      BY <1>2, <2>2, <2>3, <2>4, <3>1, Further
    <3> QED BY <2>4, <3>2
  <2>6. ASSUME NEW x \in 1 .. Len(b[n]) PROVE b[m][x] = b[n][x]
    <3>1. x \in 1 .. Len(b[m - 1])
      BY SMTT(60), <1>2, <2>2, <2>3
    <3>2. b[m][x] = b[m - 1][x]
      BY <2>2, <3>1 DEF CellAdded
    <3> QED BY <2>3, <3>2
  <2> QED BY <2>1, <2>5, <2>6
<1>5. 0 .. cols - n \subseteq D
  <2> HIDE DEF D
  <2> QED BY <1>2, <1>3, <1>4, Reaches
<1>6. ASSUME NEW m \in n .. cols
      PROVE  /\ Len(b[n]) + (m - n) <= Len(b[m])
             /\ \A x \in 1 .. Len(b[n]) : b[m][x] = b[n][x]
  <2>1. m - n \in 0 .. cols - n /\ n + (m - n) = m
    OBVIOUS
  <2>2. m - n \in D
    <3> HIDE DEF D
    <3> QED BY <1>5, <2>1
  <2> QED BY <2>1, <2>2
<1> QED BY <1>6

\* The cell is in the record behind from, and ends at to.
CellAt(blob, from, cell, to) ==
    /\ from \in Nat /\ to \in Nat /\ Len(cell) \in Nat /\ Len(blob) \in Nat
    /\ to = from + 1 + Len(cell)
    /\ to <= Len(blob)
    /\ blob[from + 1] = Len(cell)
    /\ \A x \in 1 .. Len(cell) : blob[from + 1 + x] = cell[x]

\* A cell is in the whole record where it was appended.
LEMMA CellKept ==
    ASSUME NEW b, NEW cell, NEW r, CellAdded(b, cell, r), Len(b) \in Nat,
           NEW blob, Len(blob) \in Nat, Len(r) <= Len(blob),
           \A x \in 1 .. Len(r) : blob[x] = r[x]
    PROVE  CellAt(blob, Len(b), cell, Len(r))
<1> PICK p \in Nat : p = Len(b)
  OBVIOUS
<1> PICK l : l = Len(cell)
  OBVIOUS
<1>1. /\ l \in Nat /\ Len(r) = p + 1 + l
      /\ r[p + 1] = l
      /\ \A x \in 1 .. l : r[p + 1 + x] = cell[x]
  BY DEF CellAdded
<1>2. p + 1 \in 1 .. p + 1 + l /\ \A x \in 1 .. l : p + 1 + x \in 1 .. p + 1 + l
  BY <1>1
<1>3. blob[p + 1] = l /\ \A x \in 1 .. l : blob[p + 1 + x] = cell[x]
  BY <1>1, <1>2
<1>4. Len(r) \in Nat
  BY <1>1
<1> QED BY <1>1, <1>3, <1>4 DEF CellAt

\* A cell in the complete record.
LEMMA CellIn ==
    ASSUME NEW b, NEW c, NEW cols \in Nat, Records(b, c, cols), NEW n \in 1 .. cols
    PROVE  CellAt(b[cols], Len(b[n - 1]), c[n], Len(b[n]))
<1>1. n \in 0 .. cols /\ n - 1 \in 0 .. cols /\ cols \in n .. cols /\ cols \in 0 .. cols
      /\ cols - n \in Nat
  OBVIOUS
<1>2. /\ \A m \in 0 .. cols : Len(b[m]) \in Nat
      /\ CellAdded(b[n - 1], c[n], b[n])
  BY RecordGrows
<1>3. Len(b[n - 1]) \in Nat /\ Len(b[n]) \in Nat /\ Len(b[cols]) \in Nat
  BY <1>1, <1>2
<1>4. /\ Len(b[n]) + (cols - n) <= Len(b[cols])
      /\ \A x \in 1 .. Len(b[n]) : b[cols][x] = b[n][x]
  BY <1>1, RecordKeeps
<1>5. \A p, q, d \in Nat : p + d <= q => p <= q
  OBVIOUS
<1>6. Len(b[n]) <= Len(b[cols])
  BY <1>1, <1>3, <1>4, <1>5
<1> QED BY <1>2, <1>3, <1>4, <1>6, CellKept

\* The loop that reads a record passes a cell.
LEMMA CellPassed ==
    ASSUME NEW blob, NEW from, NEW cell, NEW to, CellAt(blob, from, cell, to)
    PROVE  ~(from >= Len(blob)) /\ from + 1 + blob[from + 1] = to
BY DEF CellAt

\* It takes the text of the cell.
LEMMA CellTaken ==
    ASSUME NEW blob \in Seq(Byte), NEW from, NEW cell \in Seq(Char), NEW to,
           CellAt(blob, from, cell, to)
    PROVE  SubSeq(blob, from + 2, to) = cell
<1> PICK l : l = Len(cell)
  OBVIOUS
<1>1. from \in Nat /\ to \in Nat /\ l \in Nat /\ to = from + 1 + l /\ to <= Len(blob)
  BY DEF CellAt
<1>2. \A x \in 1 .. l : blob[from + 1 + x] = cell[x]
  BY DEF CellAt
<1> PICK first \in Nat \ {0} : first = from + 2
  BY <1>1
<1>3. to - first + 1 = l /\ (IF first <= to THEN to - first + 1 ELSE 0) = l
  BY <1>1
<1>4. \A x \in 1 .. l : first + x - 1 = from + 1 + x
  BY <1>1
<1> PICK u : u = SubSeq(blob, first, to)
  OBVIOUS
<1>5. /\ u \in Seq(Byte) /\ Len(u) = IF first <= to THEN to - first + 1 ELSE 0
      /\ \A x \in 1 .. to - first + 1 : u[x] = blob[first + x - 1]
  <2>1. to \in Nat /\ to <= Len(blob)
    BY <1>1
  <2> QED BY SMTT(60), <2>1, PartOf
<1>6. Len(u) = l
  BY <1>3, <1>5
<1>7. \A x \in 1 .. l : u[x] = cell[x]
  BY <1>2, <1>3, <1>4, <1>5
<1>8. cell \in Seq(Byte)
  BY DEF Byte
<1>9. u = cell
  BY <1>5, <1>6, <1>7, <1>8, SeqEqual
<1> QED BY <1>9

\* The smaller of two numbers.
LEMMA MinOfTwo ==
    ASSUME NEW a \in Nat, NEW b \in Nat, a <= b
    PROVE  Min({a, b}) = a
<1>1. {a, b} \subseteq Nat /\ {a, b} # {}
  OBVIOUS
<1>2. Min({a, b}) \in {a, b} /\ \A x \in {a, b} : Min({a, b}) <= x
  BY <1>1, MinIsLeast
<1>3. Min({a, b}) <= a /\ (Min({a, b}) = a \/ Min({a, b}) = b)
  BY <1>2
<1> QED BY <1>3

\* The loop that reads a record passes cell after cell.
LEMMA ReadFacts ==
    ASSUME NEW b, NEW c, NEW cols \in Nat, Records(b, c, cols)
    PROVE  /\ DOMAIN ReadUpTo(b[cols]) = 0 .. Len(b[cols])
           /\ \A n \in 0 .. Len(b[cols]) :
                 ReadUpTo(b[cols])[n] = IF n <= cols THEN Len(b[n]) ELSE Len(b[cols])
<1> PICK blob : blob = b[cols]
  OBVIOUS
<1> PICK L : L = Len(blob)
  OBVIOUS
<1>1. L \in Nat /\ \A n \in 0 .. cols : Len(b[n]) \in Nat
  BY RecordGrows
<1>2. Len(b[0]) = 0
  BY DEF Records
<1> DEFINE Next1(x) == IF x >= L THEN x ELSE x + 1 + blob[x + 1]
           Eq(f) == [n \in 0 .. L |-> IF n = 0 THEN 0 ELSE Next1(f[n - 1])]
           At(n) == IF n <= cols THEN Len(b[n]) ELSE L
<1>3. ASSUME NEW n \in Nat \ {0} PROVE At(n) = Next1(At(n - 1))
  <2>1. CASE n <= cols
    <3>1. n \in 1 .. cols /\ n - 1 <= cols
      BY <2>1
    <3>2. CellAt(blob, Len(b[n - 1]), c[n], Len(b[n]))
      BY <3>1, CellIn
    <3>3. ~(Len(b[n - 1]) >= L) /\ Len(b[n - 1]) + 1 + blob[Len(b[n - 1]) + 1] = Len(b[n])
      BY <3>2, CellPassed
    <3>4. At(n) = Len(b[n]) /\ At(n - 1) = Len(b[n - 1])
      BY <2>1, <3>1
    <3> HIDE DEF At
    <3> QED BY <3>3, <3>4
  <2>2. CASE ~(n <= cols)
    <3>1. At(n - 1) = L
      <4>1. CASE n - 1 <= cols
        <5>1. n - 1 = cols
          BY <2>2, <4>1
        <5> QED BY <5>1
      <4>2. CASE ~(n - 1 <= cols)
        BY <4>2
      <4> QED BY <4>1, <4>2
    <3>2. At(n) = L /\ Next1(L) = L
      BY <1>1, <2>2
    <3> HIDE DEF At, Next1
    <3> QED BY <3>1, <3>2
  <2> QED BY <2>1, <2>2
<1>4. At(0) = 0
  BY <1>2
<1>5. \E f : f = Eq(f)
  <2> DEFINE w == [n \in 0 .. L |-> At(n)]
  <2>1. ASSUME NEW n \in 0 .. L
        PROVE  At(n) = IF n = 0 THEN 0 ELSE Next1(w[n - 1])
    <3>1. CASE n = 0
      BY <1>4, <3>1
    <3>2. CASE n # 0
      <4>1. n \in Nat \ {0} /\ n - 1 \in 0 .. L
        BY <1>1, <3>2
      <4>2. w[n - 1] = At(n - 1)
        <5> HIDE DEF At
        <5> QED BY <4>1
      <4> HIDE DEF At, Next1, w
      <4> QED BY <1>3, <3>2, <4>1, <4>2
    <3> QED BY <3>1, <3>2
  <2>2. w = Eq(w)
    <3> HIDE DEF At, Next1
    <3> QED BY <2>1
  <2> HIDE DEF w
  <2> QED BY <2>2
<1> PICK read : read = ReadUpTo(blob)
  OBVIOUS
<1>6. read = Eq(read)
  <2>1. read = CHOOSE f : f = Eq(f)
    BY ZenonT(60) DEF ReadUpTo
  <2> HIDE DEF Eq
  <2> QED BY <1>5, <2>1
<1>7. DOMAIN read = 0 .. L /\ \A n \in 0 .. L : read[n] = IF n = 0 THEN 0 ELSE Next1(read[n - 1])
  <2> HIDE DEF Next1
  <2> QED BY <1>6
<1>8. \A n \in 0 .. L : read[n] = At(n)
  <2> DEFINE B == {n \in 0 .. L : read[n] = At(n)}
  <2>1. 0 \in B
    <3> HIDE DEF At, Next1
    <3> QED BY <1>1, <1>4, <1>7
  <2>2. ASSUME NEW n \in 1 .. L, n - 1 \in B PROVE n \in B
    <3>1. n \in 0 .. L /\ n # 0 /\ n \in Nat \ {0}
      BY <1>1
    <3>2. read[n] = Next1(At(n - 1))
      <4> HIDE DEF At, Next1
      <4> QED BY <1>7, <2>2, <3>1
    <3> HIDE DEF At, Next1
    <3> QED BY <1>3, <3>1, <3>2
  <2>3. 0 .. L \subseteq B
    <3> HIDE DEF B
    <3> QED BY <1>1, <2>1, <2>2, Reaches
  <2> HIDE DEF At
  <2> QED BY <2>3
<1> QED BY <1>7, <1>8

\* A record decodes to its cells.
LEMMA DecodesTo ==
    ASSUME NEW b, NEW c, NEW cols \in Nat, Records(b, c, cols)
    PROVE  DecodeRecord(b[cols]) = [n \in 1 .. cols |-> c[n]]
<1> PICK blob : blob = b[cols]
  OBVIOUS
<1> PICK L : L = Len(blob)
  OBVIOUS
<1> PICK read : read = ReadUpTo(blob)
  OBVIOUS
<1>1. /\ L \in Nat /\ blob \in Seq(Byte)
      /\ \A n \in 0 .. cols : Len(b[n]) \in Nat
  BY RecordGrows
<1>2. /\ DOMAIN read = 0 .. L
      /\ \A n \in 0 .. L : read[n] = IF n <= cols THEN Len(b[n]) ELSE L
  BY ReadFacts
<1>3. \A n \in 0 .. cols : Len(b[n]) + (cols - n) <= L
  <2>1. \A n \in 0 .. cols : cols \in n .. cols
    OBVIOUS
  <2> QED BY <2>1, RecordKeeps
<1>4. cols <= L
  <2>1. Len(b[0]) + (cols - 0) <= L /\ Len(b[0]) \in Nat
    BY <1>1, <1>3
  <2> QED BY <1>1, <2>1
<1>5. {n \in DOMAIN read : read[n] < L} = 0 .. cols - 1
  <2>1. ASSUME NEW n \in 0 .. cols - 1 PROVE n \in DOMAIN read /\ read[n] < L
    <3>1. n \in 0 .. cols /\ n \in 0 .. L /\ n <= cols
      BY <1>1, <1>4
    <3>2. read[n] = Len(b[n]) /\ Len(b[n]) \in Nat /\ Len(b[n]) + (cols - n) <= L
      BY <1>1, <1>2, <1>3, <3>1
    <3> QED BY <1>1, <1>2, <3>1, <3>2
  <2>2. ASSUME NEW n \in DOMAIN read, read[n] < L PROVE n \in 0 .. cols - 1
    <3>1. n \in 0 .. L /\ read[n] # L
      BY <1>1, <1>2, <2>2
    <3>2. n <= cols /\ n # cols
      BY <1>2, <3>1
    <3> QED BY <1>1, <3>1, <3>2
  <2> QED BY <2>1, <2>2
<1>6. Cardinality(0 .. cols - 1) = cols
  <2>1. 0 \in Int /\ cols - 1 \in Int
    OBVIOUS
  <2>2. Cardinality(0 .. cols - 1) = IF 0 > cols - 1 THEN 0 ELSE (cols - 1) - 0 + 1
    BY <2>1, FS_Interval
  <2> QED BY <2>2
<1> DEFINE Cell(n) == SubSeq(blob, read[n - 1] + 2, Min({read[n], Len(blob)}))
<1>7. DecodeRecord(blob) = [n \in 1 .. cols |-> Cell(n)]
  <2>1. Cardinality({n \in DOMAIN read : read[n] < Len(blob)}) = cols
    BY <1>5, <1>6
  <2>2. DecodeRecord(blob) = [n \in 1 .. Cardinality({n \in DOMAIN read : read[n] < Len(blob)}) |-> Cell(n)]
    BY DEF DecodeRecord
  <2> HIDE DEF Cell
  <2> QED BY <2>1, <2>2
<1>8. ASSUME NEW n \in 1 .. cols PROVE Cell(n) = c[n]
  <2>1. CellAt(blob, Len(b[n - 1]), c[n], Len(b[n])) /\ c[n] \in Seq(Char)
    BY CellIn, RecordGrows
  <2>2. n \in 0 .. L /\ n - 1 \in 0 .. L /\ n <= cols /\ n - 1 <= cols
    BY <1>1, <1>4
  <2>3. read[n - 1] = Len(b[n - 1]) /\ read[n] = Len(b[n])
    BY <1>2, <2>2
  <2>4. Min({Len(b[n]), Len(blob)}) = Len(b[n])
    <3>1. Len(b[n]) \in Nat /\ Len(blob) \in Nat /\ Len(b[n]) <= Len(blob)
      BY <2>1 DEF CellAt
    <3> QED BY <3>1, MinOfTwo
  <2>5. Cell(n) = SubSeq(blob, Len(b[n - 1]) + 2, Len(b[n]))
    BY <2>3, <2>4
  <2> QED BY <1>1, <2>1, <2>5, CellTaken
<1> HIDE DEF Cell
<1> QED BY <1>7, <1>8

\* The cell that a token of the array gives.
LEMMA CellOfToken ==
    ASSUME NEW line \in Seq(Char), NEW cols \in Nat, NEW n \in 1 .. cols
    PROVE  LET tok == MarkTokPosMeta(line, cols, Delim)[n]
           IN  TokOf(line, tok) \in Seq(Char) /\ Len(TokOf(line, tok)) = tok.tok_len /\ tok.tok_len \in Nat
<1> PICK tok : tok = MarkTokPosMeta(line, cols, Delim)[n]
  OBVIOUS
<1>1. tok.tok_off \in Nat /\ tok.tok_len \in Nat /\ tok.tok_off + tok.tok_len <= Len(line)
  BY ArrayOf
<1> PICK from \in Nat \ {0} : from = tok.tok_off + 1
  BY <1>1
<1> PICK to \in Nat : to = tok.tok_off + tok.tok_len
  BY <1>1
<1>2. (IF from <= to THEN to - from + 1 ELSE 0) = tok.tok_len /\ to <= Len(line)
  <2>1. \A o, l \in Nat : (IF o + 1 <= o + l THEN (o + l) - (o + 1) + 1 ELSE 0) = l
    OBVIOUS
  <2>2. to <= Len(line)
    BY <1>1
  <2> QED BY <1>1, <2>1, <2>2
<1> PICK u : u = SubSeq(line, from, to)
  OBVIOUS
<1>3. u \in Seq(Char) /\ Len(u) = IF from <= to THEN to - from + 1 ELSE 0
  BY SMTT(60), <1>2, PartOf
<1>4. u = TokOf(line, tok)
  BY DEF TokOf
<1> QED BY <1>1, <1>2, <1>3, <1>4

\* The loop that makes a record makes it cell by cell.
LEMMA BlobFacts ==
    ASSUME NEW line \in Seq(Char), NEW cols \in Nat
    PROVE  LET toks == MarkTokPosMeta(line, cols, Delim)
           IN  Records(BlobUpTo(line, toks), [n \in 1 .. cols |-> TokOf(line, toks[n])], cols)
<1> PICK toks : toks = MarkTokPosMeta(line, cols, Delim)
  OBVIOUS
<1> DEFINE cell(n) == TokOf(line, toks[n])
           piece(n) == <<toks[n].tok_len>> \o cell(n)
           step == [n \in 1 .. cols |-> [x \in Seq(Byte) |-> x \o piece(n)]]
           Sum(f) == [n \in 0 .. cols |-> IF n = 0 THEN <<>> ELSE f[n - 1] \o piece(n)]
<1>1. Len(toks) = cols
  BY ArrayOf
<1>2. \A n \in 1 .. cols : /\ cell(n) \in Seq(Char)
                           /\ Len(cell(n)) = toks[n].tok_len /\ toks[n].tok_len \in Nat
  BY CellOfToken
<1>3. ASSUME NEW n \in 1 .. cols PROVE piece(n) = <<Len(cell(n))>> \o cell(n)
  BY <1>2
<1> HIDE DEF cell, piece
<1>4. ASSUME NEW n \in 1 .. cols, NEW x \in Seq(Byte)
      PROVE  x \o piece(n) \in Seq(Byte)
  <2>1. CellAdded(x, cell(n), x \o piece(n))
    <3>1. cell(n) \in Seq(Char) /\ x \o piece(n) = x \o (<<Len(cell(n))>> \o cell(n))
      BY <1>2, <1>3
    <3> QED BY <3>1, OneCell
  <2> QED BY <2>1 DEF CellAdded
<1>5. \A n \in 1 .. cols, x \in Seq(Byte) : step[n][x] = x \o piece(n)
  OBVIOUS
<1>6. Turns(step, cols, Seq(Byte))
  <2> HIDE DEF step
  <2> QED BY <1>4, <1>5 DEF Turns
<1>7. <<>> \in Seq(Byte)
  OBVIOUS
<1>8. ASSUME NEW f, Loop(f, cols, <<>>, step)
      PROVE  f = Sum(f)
  <2> HIDE DEF step
  <2>1. \A n \in 0 .. cols : f[n] \in Seq(Byte)
    BY <1>6, <1>7, <1>8, LoopStays
  <2>2. f[0] = <<>> /\ \A n \in 1 .. cols : f[n] = step[n][f[n - 1]]
    BY <1>8, LoopTurns
  <2>3. \A n \in 0 .. cols : f[n] = IF n = 0 THEN <<>> ELSE f[n - 1] \o piece(n)
    BY <1>5, <2>1, <2>2, OneOrMore
  <2>4. f = [n \in 0 .. cols |-> f[n]]
    BY <1>8 DEF Loop
  <2> QED BY <2>3, <2>4
<1>9. \E s : s = Sum(s)
  <2>1. \E f : Loop(f, cols, <<>>, step)
    <3> HIDE DEF step
    <3> QED BY <1>6, <1>7, LoopComputes
  <2> HIDE DEF Sum
  <2> QED BY <1>8, <2>1
<1> PICK s : s = BlobUpTo(line, toks)
  OBVIOUS
<1>10. s = Sum(s)
  <2>1. s = CHOOSE f : f = Sum(f)
    BY <1>1 DEF BlobUpTo, piece, cell
  <2> HIDE DEF Sum
  <2> QED BY <1>9, <2>1
<1>11. s[0] = <<>> /\ \A n \in 1 .. cols : s[n] = s[n - 1] \o piece(n)
  <2>1. \A n \in 0 .. cols : s[n] = IF n = 0 THEN <<>> ELSE s[n - 1] \o piece(n)
    BY <1>10
  <2>2. 0 \in 0 .. cols /\ \A n \in 1 .. cols : n \in 0 .. cols /\ n # 0
    OBVIOUS
  <2> QED BY <2>1, <2>2
<1> PICK c : c = [n \in 1 .. cols |-> cell(n)]
  OBVIOUS
<1>12. \A n \in 1 .. cols : c[n] = cell(n)
  OBVIOUS
<1>13. \A n \in 1 .. cols : c[n] \in Seq(Char) /\ s[n] = s[n - 1] \o (<<Len(c[n])>> \o c[n])
  BY <1>2, <1>3, <1>11, <1>12
<1>14. Records(s, c, cols)
  BY <1>11, <1>13 DEF Records
<1>15. c = [n \in 1 .. cols |-> TokOf(line, toks[n])]
  BY DEF cell
<1> QED BY <1>14, <1>15

\* A record decodes to the row it was made of.
LEMMA RecordOf ==
    ASSUME NEW piece \in Seq(Char), NEW cols \in Nat
    PROVE  LET line == Stripped(piece)
           IN  DecodeRecord(BlobUpTo(line, MarkTokPosMeta(line, cols, Delim))[cols]) = RowOf(piece, cols)
<1> PICK line : line = Stripped(piece)
  OBVIOUS
<1> PICK toks : toks = MarkTokPosMeta(line, cols, Delim)
  OBVIOUS
<1>1. line \in Seq(Char)
  BY StrippedLine
<1> PICK c : c = [n \in 1 .. cols |-> TokOf(line, toks[n])]
  OBVIOUS
<1>2. Records(BlobUpTo(line, toks), c, cols)
  BY <1>1, BlobFacts
<1>3. DecodeRecord(BlobUpTo(line, toks)[cols]) = [n \in 1 .. cols |-> c[n]]
  BY <1>2, DecodesTo
<1>4. \A n \in 1 .. cols : c[n] = RowOf(piece, cols)[n]
  BY CellsOf
<1>5. RowOf(piece, cols) = [n \in 1 .. cols |-> RowOf(piece, cols)[n]]
  BY DEF RowOf
<1> QED BY <1>3, <1>4, <1>5

-----------------------------------------------------------------------------
(* The import, row by row. *)

EntryType == [key : Seq(Char), val : Seq(Byte), deleted : BOOLEAN]

\* The key and the record of the n-th row.
KeyOf(text, pk, cols, n) == RowOf(text[n], cols)[pk + 1]

BlobOf(text, cols, n) ==
    BlobUpTo(Stripped(text[n]), MarkTokPosMeta(Stripped(text[n]), cols, Delim))[cols]

\* The rows whose key the engine does not refuse.
Takes(text, pk, cols) == {n \in DOMAIN text : Len(KeyOf(text, pk, cols, n)) <= MAX_KEY_SIZE}

\* The n-th row is the one that got entry x.
RowAt(text, pk, cols, es, x, n) ==
    /\ n \in Takes(text, pk, cols) /\ CountIn(Takes(text, pk, cols), n) = x
    /\ es[x].key = KeyOf(text, pk, cols, n) /\ es[x].val = BlobOf(text, cols, n)

AsMany(c, es) == Len(es) = IF c <= DB_ENTRY_CAP THEN c ELSE DB_ENTRY_CAP

\* After k rows: the listing of all keys, and an entry for each row that is not
\* refused, in their order, up to the capacity.
RowsIn(text, pk, cols, k, keys, es) ==
    /\ keys = [n \in 1 .. k |-> KeyOf(text, pk, cols, n)]
    /\ es \in Seq(EntryType)
    /\ AsMany(CountIn(Takes(text, pk, cols), k), es)
    /\ \A x \in 1 .. Len(es) : \E n \in 1 .. k : RowAt(text, pk, cols, es, x, n)

\* A later entry has the same key.
Later(es, n) == \E m \in 1 .. Len(es) : m > n /\ es[m].key = es[n].key

LastOfKeyLives(es) == \A n \in 1 .. Len(es) : es[n].deleted <=> Later(es, n)

\* The columns and the rows of the text, and how many of these are imported.
Counted(text, pk, cols, rows, k) ==
    /\ text \in Texts /\ text \in Seq(Seq(Char))
    /\ cols \in Nat /\ pk + 1 \in 1 .. cols
    /\ rows \in 0 .. Len(text) /\ k \in 0 .. rows
    /\ \A n \in 1 .. k : Stripped(text[n]) # <<>>

ImportInv ==
    /\ csv \in Texts /\ pk_col_idx \in Int
    /\ pc \in {"start", "rows", "refused", "dead", "done"}
    /\ pc = "start" => i = 0 /\ drift = 0 /\ entries = <<>> /\ keys_txt = <<>>
    /\ pc \in {"rows", "dead", "done"} =>
          /\ Counted(csv, pk_col_idx, col_cnt, row_cnt, i)
          /\ drift = MovedUpTo(csv)[i]
          /\ RowsIn(csv, pk_col_idx, col_cnt, i, keys_txt, entries)
    /\ pc \in {"rows", "dead"} => LastOfKeyLives(entries)
    /\ pc = "dead" => i < row_cnt /\ (Overruns \/ (Line # <<>> /\ MeetsTombstone(Key)))
    /\ pc = "done" =>
          /\ i < row_cnt => Line = <<>>
          /\ \A n \in 1 .. Len(entries) :
                entries[n].deleted <=> (Later(entries, n) \/ n - 1 \in DeletedIDs)

\* The key of a row is a text, and its record decodes to the row.
LEMMA KeyAndBlob ==
    ASSUME NEW text \in Seq(Seq(Char)), NEW cols \in Nat, NEW pk, pk + 1 \in 1 .. cols,
           NEW n \in 1 .. Len(text)
    PROVE  /\ KeyOf(text, pk, cols, n) \in Seq(Char)
           /\ BlobOf(text, cols, n) \in Seq(Byte)
           /\ DecodeRecord(BlobOf(text, cols, n)) = RowOf(text[n], cols)
<1> PICK line : line = Stripped(text[n])
  OBVIOUS
<1> PICK toks : toks = MarkTokPosMeta(line, cols, Delim)
  OBVIOUS
<1>1. text[n] \in Seq(Char)
  OBVIOUS
<1>2. line \in Seq(Char)
  BY <1>1, StrippedLine
<1>3. RowOf(text[n], cols)[pk + 1] \in Seq(Char)
  <2>1. TokOf(line, toks[pk + 1]) = RowOf(text[n], cols)[pk + 1]
    BY <1>1, CellsOf
  <2>2. TokOf(line, toks[pk + 1]) \in Seq(Char)
    BY <1>2, CellOfToken
  <2> QED BY <2>1, <2>2
<1>4. BlobUpTo(line, toks)[cols] \in Seq(Byte)
  <2> PICK c : c = [x \in 1 .. cols |-> TokOf(line, toks[x])]
    OBVIOUS
  <2>1. Records(BlobUpTo(line, toks), c, cols)
    BY <1>2, BlobFacts
  <2>2. cols \in 0 .. cols
    OBVIOUS
  <2> QED BY <2>1, <2>2, RecordGrows
<1>5. DecodeRecord(BlobUpTo(line, toks)[cols]) = RowOf(text[n], cols)
  BY <1>1, RecordOf
<1> QED BY <1>3, <1>4, <1>5 DEF KeyOf, BlobOf

\* What the code has at hand in a row.
LEMMA AtRow ==
    ASSUME ImportInv, pc \in {"rows", "dead", "done"}, i < row_cnt
    PROVE  /\ i + 1 \in 1 .. Len(csv) /\ csv[i + 1] \in Seq(Char) /\ csv \in Seq(Seq(Char))
           /\ Line = Stripped(csv[i + 1])
           /\ Toks = MarkTokPosMeta(Stripped(csv[i + 1]), col_cnt, Delim)
           /\ Key = KeyOf(csv, pk_col_idx, col_cnt, i + 1)
           /\ Blob = BlobOf(csv, col_cnt, i + 1)
<1>1. /\ csv \in Seq(Seq(Char)) /\ col_cnt \in Nat /\ pk_col_idx + 1 \in 1 .. col_cnt
      /\ row_cnt \in 0 .. Len(csv) /\ i \in 0 .. row_cnt
  BY DEF ImportInv, Counted
<1>2. i + 1 \in 1 .. Len(csv)
  BY <1>1
<1>3. csv[i + 1] \in Seq(Char)
  BY <1>1, <1>2
<1>4. Line = Stripped(csv[i + 1])
  BY <1>3, StripsBoth DEF Line, Piece
<1>5. Toks = MarkTokPosMeta(Stripped(csv[i + 1]), col_cnt, Delim)
  BY <1>4 DEF Toks
<1>6. Key = KeyOf(csv, pk_col_idx, col_cnt, i + 1)
  <2>1. TokOf(Stripped(csv[i + 1]), MarkTokPosMeta(Stripped(csv[i + 1]), col_cnt, Delim)[pk_col_idx + 1])
          = RowOf(csv[i + 1], col_cnt)[pk_col_idx + 1]
    BY <1>1, <1>3, CellsOf
  <2> QED BY <1>4, <1>5, <2>1 DEF KeyOf, Key
<1>7. Blob = BlobOf(csv, col_cnt, i + 1)
  BY <1>4, <1>5 DEF Blob, BlobOf
<1> QED BY <1>1, <1>2, <1>3, <1>4, <1>5, <1>6, <1>7

\* What runs over a buffer in a row.
LEMMA OverrunIs ==
    ASSUME ImportInv, pc = "dead", Overruns
    PROVE  LET line == Stripped(csv[i + 1])
           IN  \/ FieldCnt(line) > col_cnt
               \/ MovedUpTo(csv)[i] + Len(csv[i + 1]) >= BUFFER_SIZE
               \/ Len(line) - (FieldCnt(line) - 1) + col_cnt * LEN_SIZE > BUFFER_SIZE
<1> PICK line : line = Stripped(csv[i + 1])
  OBVIOUS
<1>1. i < row_cnt /\ pc \in {"rows", "dead", "done"}
  BY DEF ImportInv
<1>2. /\ i + 1 \in 1 .. Len(csv) /\ csv[i + 1] \in Seq(Char) /\ csv \in Seq(Seq(Char))
      /\ Line = line /\ Toks = MarkTokPosMeta(line, col_cnt, Delim)
  BY <1>1, AtRow
<1>3. line \in Seq(Char) /\ col_cnt \in Nat /\ drift = MovedUpTo(csv)[i] /\ i \in 0 .. Len(csv)
  BY <1>1, <1>2, StrippedLine DEF ImportInv, Counted
<1>4. FieldCnt(line) \in Nat \ {0} /\ Len(Marks(line, Delim)) = FieldCnt(line)
  BY <1>3, FieldsOf, MarksOf
<1>5. CASE drift + Len(Piece) + 1 > BUFFER_SIZE
  <2>1. drift \in Nat /\ Len(csv[i + 1]) \in Nat /\ BUFFER_SIZE \in Nat
    BY <1>2, <1>3, MovedFacts, TableAssumption
  <2>2. drift + Len(csv[i + 1]) + 1 > BUFFER_SIZE
    BY <1>5 DEF Piece
  <2>3. drift + Len(csv[i + 1]) >= BUFFER_SIZE
    BY <2>1, <2>2
  <2> QED BY <1>3, <2>3
<1>6. CASE Overflows(Line, col_cnt, Delim)
  <2>1. Len(Marks(Line, Delim)) > col_cnt
    BY <1>6 DEF Overflows
  <2> QED BY <1>2, <1>4, <2>1
<1>7. CASE BlobBytes > BUFFER_SIZE
  <2>1. CASE FieldCnt(line) <= col_cnt
    <3>1. BlobBytes = Len(line) - (FieldCnt(line) - 1) + col_cnt * LEN_SIZE
      BY <1>2, <1>3, <2>1, BytesOf DEF BlobBytes
    <3> QED BY <1>7, <3>1
  <2>2. CASE ~(FieldCnt(line) <= col_cnt)
    <3>1. FieldCnt(line) > col_cnt
      BY <1>3, <1>4, <2>2
    <3> QED BY <3>1
  <2> QED BY <2>1, <2>2
<1> QED BY <1>5, <1>6, <1>7 DEF Overruns

\* What the rows taken are: numbers, as many as counted, an entry each.
LEMMA TakesFacts ==
    ASSUME NEW text \in Seq(Seq(Char)), NEW pk, NEW cols, NEW T, T = Takes(text, pk, cols)
    PROVE  /\ T \subseteq Nat /\ T \subseteq 1 .. Len(text)
           /\ \A n \in Nat : CountIn(T, n) \in Nat
           /\ \A m, n \in T : m < n <=> CountIn(T, m) < CountIn(T, n)
<1>1. T \subseteq 1 .. Len(text)
  BY DEF Takes
<1>2. T \subseteq Nat
  BY <1>1
<1>3. \A n \in Nat : CountIn(T, n) \in Nat
  BY <1>2, CountStep
<1>4. ASSUME NEW m \in T, NEW n \in T PROVE m < n <=> CountIn(T, m) < CountIn(T, n)
  <2>1. m \in Nat /\ n \in Nat /\ CountIn(T, m) \in Nat /\ CountIn(T, n) \in Nat
    BY <1>2, <1>3
  <2>2. m < n => CountIn(T, m) < CountIn(T, n)
    BY <1>2, <2>1, CountGrows
  <2>3. n < m => CountIn(T, n) < CountIn(T, m)
    BY <1>2, <2>1, CountGrows
  <2>4. m < n \/ n < m \/ m = n
    BY <2>1
  <2> QED BY <2>1, <2>2, <2>3, <2>4
<1> QED BY <1>1, <1>2, <1>3, <1>4

\* A tombstone is there for a key that was put twice.
LEMMA TombstoneIs ==
    ASSUME ImportInv, pc = "dead", LiveIDs # DOMAIN entries
    PROVE  \E m, n \in 1 .. i + 1 : /\ m < n /\ n <= i
                                    /\ keys_txt[m] = keys_txt[n] /\ Len(keys_txt[n]) <= MAX_KEY_SIZE
<1> PICK T : T = Takes(csv, pk_col_idx, col_cnt)
  OBVIOUS
<1>1. /\ RowsIn(csv, pk_col_idx, col_cnt, i, keys_txt, entries)
      /\ LastOfKeyLives(entries) /\ i \in Nat /\ csv \in Seq(Seq(Char))
  BY DEF ImportInv, Counted
<1>2. DOMAIN entries = 1 .. Len(entries) /\ Len(entries) \in Nat
  <2>1. entries \in Seq(EntryType)
    BY <1>1 DEF RowsIn
  <2> QED BY <2>1
<1>3. PICK x \in 1 .. Len(entries) : entries[x].deleted
  BY <1>2 DEF LiveIDs
<1>4. PICK y \in 1 .. Len(entries) : y > x /\ entries[y].key = entries[x].key
  BY <1>1, <1>3 DEF LastOfKeyLives, Later
<1>5. PICK m \in 1 .. i : RowAt(csv, pk_col_idx, col_cnt, entries, x, m)
  BY <1>1 DEF RowsIn
<1>6. PICK n \in 1 .. i : RowAt(csv, pk_col_idx, col_cnt, entries, y, n)
  BY <1>1 DEF RowsIn
<1>7. m < n
  <2>1. m \in T /\ n \in T /\ CountIn(T, m) = x /\ CountIn(T, n) = y
    BY <1>5, <1>6 DEF RowAt
  <2>2. CountIn(T, m) < CountIn(T, n)
    BY <1>2, <1>4, <2>1
  <2> QED BY <1>1, <2>1, <2>2, TakesFacts
<1>8. \A r \in 1 .. i : keys_txt[r] = KeyOf(csv, pk_col_idx, col_cnt, r)
  BY <1>1 DEF RowsIn
<1>9. keys_txt[m] = keys_txt[n]
  BY <1>4, <1>5, <1>6, <1>8 DEF RowAt
<1>10. Len(keys_txt[n]) <= MAX_KEY_SIZE
  BY <1>6, <1>8 DEF RowAt, Takes
<1>11. m \in 1 .. i + 1 /\ n \in 1 .. i + 1 /\ n <= i
  BY <1>1
<1> QED BY <1>7, <1>9, <1>10, <1>11

\* The invariant implies that a fault has one of the four causes.
LEMMA FaultsFollow == ImportInv => ImportFaultsOnlyOn
<1> SUFFICES ASSUME ImportInv, pc = "dead"
             PROVE  ImportFaultsOnlyOn
  BY DEF ImportFaultsOnlyOn
<1>1. i < row_cnt /\ (Overruns \/ LiveIDs # DOMAIN entries) /\ i \in Nat
  BY DEF ImportInv, Counted, MeetsTombstone
<1>2. i + 1 \in 1 .. i + 1 /\ (i + 1) - 1 = i
  BY <1>1
<1>3. CASE Overruns
  <2> PICK r : r = i + 1
    OBVIOUS
  <2>1. r \in 1 .. i + 1 /\ r - 1 = i
    BY <1>2
  <2>2. LET line == Stripped(csv[r])
        IN  \/ FieldCnt(line) > col_cnt
            \/ MovedUpTo(csv)[r - 1] + Len(csv[r]) >= BUFFER_SIZE
            \/ Len(line) - (FieldCnt(line) - 1) + col_cnt * LEN_SIZE > BUFFER_SIZE
    BY <1>3, <2>1, OverrunIs
  <2> QED BY <2>1, <2>2 DEF ImportFaultsOnlyOn
<1>4. CASE LiveIDs # DOMAIN entries
  <2>1. \E m, n \in 1 .. i + 1 : /\ m < n /\ n <= i
                                 /\ keys_txt[m] = keys_txt[n] /\ Len(keys_txt[n]) <= MAX_KEY_SIZE
    BY <1>4, TombstoneIs
  <2> QED BY <2>1 DEF ImportFaultsOnlyOn
<1> QED BY <1>1, <1>3, <1>4

\* The rows read are those before the first blank one.
LEMMA ReadIs ==
    ASSUME ImportInv, pc = "done", NEW Blank, Blank = {n \in 1 .. row_cnt : Stripped(csv[n]) = <<>>}
    PROVE  (IF Blank = {} THEN row_cnt ELSE Min(Blank) - 1) = i
<1>1. /\ row_cnt \in Nat /\ i \in 0 .. row_cnt
      /\ \A n \in 1 .. i : Stripped(csv[n]) # <<>>
      /\ i < row_cnt => Line = <<>>
  BY DEF ImportInv, Counted
<1>2. CASE i = row_cnt
  BY <1>1, <1>2
<1>3. CASE i # row_cnt
  <2>1. i < row_cnt /\ i + 1 \in 1 .. row_cnt
    BY <1>1, <1>3
  <2>2. Stripped(csv[i + 1]) = <<>>
    <3>1. Line = Stripped(csv[i + 1])
      BY <2>1, AtRow
    <3> QED BY <1>1, <2>1, <3>1
  <2>3. i + 1 \in Blank
    BY <2>1, <2>2
  <2>4. Blank \subseteq Nat /\ Blank # {} /\ \A n \in Blank : n \in 1 .. row_cnt /\ n \notin 1 .. i
    BY <1>1, <2>3
  <2>5. Min(Blank) \in Blank /\ Min(Blank) <= i + 1
    BY <2>3, <2>4, MinIsLeast
  <2> PICK m : m = Min(Blank)
    OBVIOUS
  <2>6. m \in 1 .. row_cnt /\ m \notin 1 .. i /\ m <= i + 1
    BY <2>4, <2>5
  <2>7. m - 1 = i
    BY <1>1, <2>6
  <2> QED BY <2>4, <2>7
<1> QED BY <1>2, <1>3

\* The entry of a row that has one.
LEMMA EntryOfRow ==
    ASSUME NEW text \in Seq(Seq(Char)), NEW pk, NEW cols, NEW k \in Nat, NEW keys, NEW es,
           RowsIn(text, pk, cols, k, keys, es),
           NEW T, T = Takes(text, pk, cols),
           NEW n \in T, n <= k, CountIn(T, n) <= DB_ENTRY_CAP
    PROVE  /\ CountIn(T, n) \in 1 .. Len(es)
           /\ RowAt(text, pk, cols, es, CountIn(T, n), n)
<1> PICK x : x = CountIn(T, n)
  OBVIOUS
<1>1. /\ n \in Nat \ {0} /\ x \in Nat /\ T \subseteq Nat
      /\ CountIn(T, k) \in Nat /\ CountIn(T, 0) \in Nat /\ CountIn(T, 0) = 0
  <2>1. T \subseteq Nat /\ T \subseteq 1 .. Len(text) /\ \A m \in Nat : CountIn(T, m) \in Nat
    BY TakesFacts
  <2>2. n \in Nat \ {0} /\ 0 \in Nat
    BY <2>1
  <2> QED BY <2>1, <2>2, CountStep
<1>2. 0 < x
  <2>1. 0 < n /\ 0 \in Nat
    BY <1>1
  <2> QED BY <1>1, <2>1, CountGrows
<1>3. x <= CountIn(T, k)
  <2>1. n = k \/ n < k
    BY <1>1
  <2>2. n < k => x <= CountIn(T, k)
    BY <1>1, CountGrows
  <2> QED BY <1>1, <2>1, <2>2
<1>4. x \in 1 .. Len(es)
  <2>1. Len(es) = IF CountIn(T, k) <= DB_ENTRY_CAP THEN CountIn(T, k) ELSE DB_ENTRY_CAP
    BY DEF RowsIn, AsMany
  <2>2. DB_ENTRY_CAP \in Nat
    BY TableAssumption
  <2> QED BY <1>1, <1>2, <1>3, <2>1, <2>2
<1>5. PICK m \in 1 .. k : RowAt(text, pk, cols, es, x, m)
  BY <1>4 DEF RowsIn
<1>6. m = n
  <2>1. m \in T /\ CountIn(T, m) = x
    BY <1>5 DEF RowAt
  <2>2. ~(m < n) /\ ~(n < m)
    <3>1. ~(CountIn(T, m) < CountIn(T, n)) /\ ~(CountIn(T, n) < CountIn(T, m))
      BY <1>1, <2>1
    <3> QED BY <2>1, <3>1, TakesFacts
  <2> QED BY <1>1, <2>1, <2>2
<1> QED BY <1>4, <1>5, <1>6

\* An entry is followed by one of its key exactly if its row is.
LEMMA LaterRow ==
    ASSUME NEW text \in Seq(Seq(Char)), NEW pk, NEW cols, NEW k \in Nat, NEW keys, NEW es,
           RowsIn(text, pk, cols, k, keys, es),
           NEW T, T = Takes(text, pk, cols),
           NEW Put, Put = {m \in T : m <= k /\ CountIn(T, m) <= DB_ENTRY_CAP},
           NEW n \in Put
    PROVE  Later(es, CountIn(T, n)) <=>
              \E m \in Put : m > n /\ KeyOf(text, pk, cols, m) = KeyOf(text, pk, cols, n)
<1> PICK x : x = CountIn(T, n)
  OBVIOUS
<1>1. /\ \A m \in Put : /\ m \in T /\ m \in Nat /\ CountIn(T, m) \in 1 .. Len(es)
                         /\ RowAt(text, pk, cols, es, CountIn(T, m), m)
      /\ n \in T
  <2>1. \A m \in Put : m \in T /\ m <= k /\ CountIn(T, m) <= DB_ENTRY_CAP
    OBVIOUS
  <2>2. \A m \in T : m \in Nat
    BY TakesFacts
  <2> QED BY <2>1, <2>2, EntryOfRow
<1>2. \A m \in Put : es[CountIn(T, m)].key = KeyOf(text, pk, cols, m)
  BY <1>1 DEF RowAt
<1>3. \A m \in T : n < m <=> x < CountIn(T, m)
  BY <1>1, TakesFacts
<1>4. ASSUME NEW m \in Put, m > n, KeyOf(text, pk, cols, m) = KeyOf(text, pk, cols, n)
      PROVE  Later(es, x)
  <2> PICK y : y = CountIn(T, m)
    OBVIOUS
  <2>1. y \in 1 .. Len(es) /\ es[y].key = es[x].key
    BY <1>1, <1>2, <1>4
  <2>2. m \in T /\ n < m
    BY <1>1, <1>4
  <2>3. y > x
    BY <1>3, <2>2
  <2> QED BY <2>1, <2>3 DEF Later
<1>5. ASSUME Later(es, x)
      PROVE  \E m \in Put : m > n /\ KeyOf(text, pk, cols, m) = KeyOf(text, pk, cols, n)
  <2>1. PICK y \in 1 .. Len(es) : y > x /\ es[y].key = es[x].key
    BY <1>5 DEF Later
  <2>2. PICK m \in 1 .. k : RowAt(text, pk, cols, es, y, m)
    BY DEF RowsIn
  <2>3. m \in T /\ CountIn(T, m) = y /\ es[y].key = KeyOf(text, pk, cols, m)
    BY <2>2 DEF RowAt
  <2>4. y <= DB_ENTRY_CAP
    <3>1. CountIn(T, k) \in Nat /\ DB_ENTRY_CAP \in Nat
      BY TakesFacts, TableAssumption
    <3>2. Len(es) <= DB_ENTRY_CAP /\ Len(es) \in Nat
      BY <3>1 DEF RowsIn, AsMany
    <3> QED BY <3>1, <3>2
  <2>5. m \in Put
    BY <2>3, <2>4
  <2>6. m > n
    BY <1>3, <2>1, <2>3
  <2>7. KeyOf(text, pk, cols, m) = KeyOf(text, pk, cols, n)
    BY <1>2, <2>1, <2>3
  <2> QED BY <2>5, <2>6, <2>7
<1> QED BY <1>4, <1>5

\* The lesser of two numbers.
LEMMA MinOf ==
    ASSUME NEW a \in Nat, NEW b \in Nat
    PROVE  Min({a, b}) = IF a <= b THEN a ELSE b
<1>1. CASE a <= b
  BY <1>1, MinOfTwo
<1>2. CASE ~(a <= b)
  <2>1. b <= a /\ {a, b} = {b, a}
    BY <1>2
  <2>2. Min({b, a}) = b
    BY <2>1, MinOfTwo
  <2> QED BY <1>2, <2>1, <2>2
<1> QED BY <1>1, <1>2

\* The invariant implies that the records are the rows.
LEMMA RecordsFollow == ImportInv => RecordsAreRows
<1> SUFFICES ASSUME ImportInv, pc = "done"
             PROVE  RecordsAreRows
  BY DEF RecordsAreRows
<1> DEFINE Blank  == {n \in 1 .. row_cnt : Stripped(csv[n]) = <<>>}
           read   == IF Blank = {} THEN row_cnt ELSE Min(Blank) - 1
           Row(n) == RowOf(csv[n], col_cnt)
           PK(n)  == Row(n)[pk_col_idx + 1]
           Taken  == {n \in 1 .. read : Len(PK(n)) <= MAX_KEY_SIZE}
           ID(n)  == Cardinality({m \in Taken : m < n})
           Put    == {n \in Taken : ID(n) < DB_ENTRY_CAP}
<1> PICK T : T = Takes(csv, pk_col_idx, col_cnt)
  OBVIOUS
<1>1. /\ csv \in Seq(Seq(Char)) /\ col_cnt \in Nat /\ pk_col_idx + 1 \in 1 .. col_cnt
      /\ row_cnt \in 0 .. Len(csv) /\ i \in 0 .. row_cnt
      /\ RowsIn(csv, pk_col_idx, col_cnt, i, keys_txt, entries)
      /\ \A n \in 1 .. Len(entries) :
            entries[n].deleted <=> (Later(entries, n) \/ n - 1 \in DeletedIDs)
  BY DEF ImportInv, Counted
<1>2. read = i
  BY ReadIs
<1>3. /\ i \in Nat /\ DB_ENTRY_CAP \in Nat
      /\ T \subseteq Nat /\ \A n \in Nat : CountIn(T, n) \in Nat
  <2>1. i \in Nat /\ DB_ENTRY_CAP \in Nat
    BY <1>1, TableAssumption
  <2>2. T \subseteq Nat /\ \A n \in Nat : CountIn(T, n) \in Nat
    BY <1>1, TakesFacts
  <2> QED BY <2>1, <2>2
<1>4. keys_txt = [n \in 1 .. read |-> PK(n)]
  BY <1>1, <1>2 DEF RowsIn, KeyOf
<1>5. Taken = {n \in 1 .. i : n \in T} /\ \A n : n \in Taken <=> n \in 1 .. i /\ n \in T
  <2>1. \A n \in 1 .. i : n \in DOMAIN csv
    BY <1>1
  <2>2. \A n \in 1 .. i : n \in T <=> Len(PK(n)) <= MAX_KEY_SIZE
    BY <2>1 DEF Takes, KeyOf
  <2> HIDE DEF read
  <2> QED BY <1>2, <2>2
<1>6. ASSUME NEW n \in Taken PROVE n \in T /\ n \in 1 .. i /\ ID(n) + 1 = CountIn(T, n)
  <2>1. n \in T /\ n \in 1 .. i
    BY <1>5
  <2> PICK l \in Nat : l = n - 1 /\ l + 1 = n
    BY <1>3, <2>1
  <2>2. i \in Nat /\ n \in Nat
    BY <1>3, <2>1
  <2>3. /\ \A m \in 1 .. i : m < n <=> m \in 1 .. l
        /\ \A m \in 1 .. l : m \in 1 .. i
    <3> HIDE DEF Taken, ID, Put, read, Blank
    <3> QED BY <2>1, <2>2
  <2>4. {m \in Taken : m < n} = {m \in 1 .. l : m \in T}
    <3> HIDE DEF Taken
    <3> QED BY <1>5, <2>3
  <2>5. ID(n) = CountIn(T, l)
    <3> HIDE DEF Taken
    <3> QED BY <2>4 DEF CountIn
  <2>6. CountIn(T, l + 1) = CountIn(T, l) + 1
    <3>1. n \in T /\ n \in Nat
      BY <2>1, <2>2
    <3> HIDE DEF ID, Taken, Put
    <3> QED BY <1>3, <3>1, CountStep
  <2> HIDE DEF ID
  <2> QED BY <2>1, <2>5, <2>6
<1>7. ASSUME NEW n PROVE ID(n) \in Nat
  <2> PICK S : S = Taken
    OBVIOUS
  <2>1. S \subseteq 1 .. i /\ IsFiniteSet(1 .. i)
    <3> HIDE DEF Taken
    <3> QED BY <1>3, <1>5, FS_Interval
  <2>2. IsFiniteSet({m \in S : m < n})
    <3>1. {m \in S : m < n} \subseteq 1 .. i
      BY <2>1
    <3> QED BY <2>1, <3>1, FS_Subset
  <2>3. Cardinality({m \in S : m < n}) \in Nat
    BY <2>2, FS_CardinalityType
  <2> HIDE DEF Taken
  <2> QED BY <2>3
<1>8. Len(entries) = Min({Cardinality(Taken), DB_ENTRY_CAP})
  <2>1. Cardinality(Taken) = CountIn(T, i)
    <3> HIDE DEF Taken
    <3> QED BY <1>5 DEF CountIn
  <2>2. Len(entries) = IF CountIn(T, i) <= DB_ENTRY_CAP THEN CountIn(T, i) ELSE DB_ENTRY_CAP
    BY <1>1 DEF RowsIn, AsMany
  <2>3. CountIn(T, i) \in Nat
    BY <1>3
  <2> HIDE DEF Taken
  <2> QED BY <1>3, <2>1, <2>2, <2>3, MinOf
<1>9. \A n : n \in Put <=> n \in T /\ n <= i /\ CountIn(T, n) <= DB_ENTRY_CAP
  <2>1. ASSUME NEW n \in Taken PROVE ID(n) < DB_ENTRY_CAP <=> CountIn(T, n) <= DB_ENTRY_CAP
    <3> HIDE DEF ID, Taken
    <3>1. ID(n) + 1 = CountIn(T, n) /\ n \in T
      BY <1>6
    <3>2. CountIn(T, n) \in Nat /\ ID(n) \in Nat
      BY <1>3, <1>7, <3>1
    <3> QED BY <1>3, <3>1, <3>2
  <2>2. \A n : n \in Taken <=> n \in T /\ n <= i
    <3>1. T \subseteq 1 .. Len(csv)
      BY <1>1, TakesFacts
    <3>2. \A n \in T : n \in 1 .. i <=> n <= i
      BY <1>3, <3>1, SMTT(60)
    <3> HIDE DEF Taken
    <3> QED BY <1>5, <3>2
  <2> HIDE DEF Taken, ID
  <2> QED BY <2>1, <2>2
<1>10. Put = {m \in T : m <= i /\ CountIn(T, m) <= DB_ENTRY_CAP}
  <2> HIDE DEF Put
  <2> QED BY <1>9
<1>11. ASSUME NEW n \in Put
       PROVE  LET record == entries[ID(n) + 1]
              IN  /\ record.key = PK(n)
                  /\ DecodeRecord(record.val) = Row(n)
                  /\ ~record.deleted <=> /\ ID(n) \notin DeletedIDs
                                         /\ \A m \in Put : m > n => PK(m) # PK(n)
  <2> PICK x : x = CountIn(T, n)
    OBVIOUS
  <2>1. n \in Taken
    OBVIOUS
  <2>2. x = ID(n) + 1 /\ n \in T /\ n \in 1 .. Len(csv) /\ n <= i /\ x <= DB_ENTRY_CAP
    <3> HIDE DEF Taken, ID, Put
    <3>1. n \in T /\ n \in 1 .. i /\ ID(n) + 1 = CountIn(T, n)
      BY <1>6, <2>1
    <3>2. x <= DB_ENTRY_CAP
      BY <1>9
    <3> QED BY <1>1, <3>1, <3>2
  <2>3. x \in 1 .. Len(entries) /\ RowAt(csv, pk_col_idx, col_cnt, entries, x, n)
    <3> HIDE DEF Taken, ID, Put
    <3>1. i \in Nat /\ n \in T /\ CountIn(T, n) <= DB_ENTRY_CAP
      BY <1>3, <2>2
    <3>2. /\ CountIn(T, n) \in 1 .. Len(entries)
          /\ RowAt(csv, pk_col_idx, col_cnt, entries, CountIn(T, n), n)
      BY <1>1, <2>2, <3>1, EntryOfRow
    <3> QED BY <3>2
  <2>4. entries[x].key = PK(n)
    BY <2>3 DEF RowAt, KeyOf
  <2>5. DecodeRecord(entries[x].val) = Row(n)
    <3>1. entries[x].val = BlobOf(csv, col_cnt, n)
      BY <2>3 DEF RowAt
    <3> QED BY <1>1, <2>2, <3>1, KeyAndBlob
  <2>6. entries[x].deleted <=> (Later(entries, x) \/ x - 1 \in DeletedIDs)
    BY <1>1, <2>3
  <2>7. x - 1 = ID(n)
    <3> HIDE DEF ID, Taken, Put
    <3>1. ID(n) \in Nat
      BY <1>7
    <3> QED BY <2>2, <3>1
  <2>8. Later(entries, x) <=> \E m \in Put : m > n /\ PK(m) = PK(n)
    <3> PICK P : P = Put
      OBVIOUS
    <3>1. P = {m \in T : m <= i /\ CountIn(T, m) <= DB_ENTRY_CAP} /\ n \in P
      <4> HIDE DEF Put
      <4> QED BY <1>10
    <3>2. Later(entries, x) <=>
            \E m \in P : m > n /\ KeyOf(csv, pk_col_idx, col_cnt, m) = KeyOf(csv, pk_col_idx, col_cnt, n)
      <4> HIDE DEF Put, Taken, ID
      <4>1. i \in Nat
        BY <1>3
      <4>2. Later(entries, CountIn(T, n)) <=>
              \E m \in P : m > n /\ KeyOf(csv, pk_col_idx, col_cnt, m) = KeyOf(csv, pk_col_idx, col_cnt, n)
        BY <1>1, <3>1, <4>1, LaterRow
      <4> QED BY <4>2
    <3> HIDE DEF Put
    <3> QED BY <3>2 DEF KeyOf
  <2> HIDE DEF Put, ID, Taken
  <2> QED BY <2>2, <2>4, <2>5, <2>6, <2>7, <2>8
<1> HIDE DEF Put
<1>12. LET record(n) == entries[ID(n) + 1]
       IN  \A n \in Put : /\ record(n).key = PK(n)
                          /\ DecodeRecord(record(n).val) = Row(n)
                          /\ ~record(n).deleted <=> /\ ID(n) \notin DeletedIDs
                                                    /\ \A m \in Put : m > n => PK(m) # PK(n)
  BY <1>11
<1> QED BY <1>4, <1>8, <1>12 DEF RecordsAreRows, Put

\* The invariant holds at first.
LEMMA ImportInit == Init => ImportInv
  BY TableAssumption DEF Init, ImportInv

\* The numbers from 1 to n are n.
LEMMA UpTo == ASSUME NEW n \in Nat PROVE IsFiniteSet(1 .. n) /\ Cardinality(1 .. n) = n
  BY FS_Interval

\* A text has as many rows as it has complete lines.
LEMMA RowsCounted ==
    ASSUME NEW text \in Seq(Seq(Char)), NEW S \in SUBSET DOMAIN text
    PROVE  Cardinality(S) \in 0 .. Len(text)
<1>1. DOMAIN text = 1 .. Len(text) /\ Len(text) \in Nat
  OBVIOUS
<1>2. IsFiniteSet(1 .. Len(text)) /\ Cardinality(1 .. Len(text)) = Len(text)
  BY <1>1, UpTo
<1>3. IsFiniteSet(S) /\ Cardinality(S) <= Len(text)
  BY <1>1, <1>2, FS_Subset
<1>4. Cardinality(S) \in Nat
  BY <1>3, FS_CardinalityType
<1> QED BY <1>1, <1>3, <1>4

\* A first line has a number of columns.
LEMMA ColumnsCounted ==
    ASSUME NEW text \in Seq(Seq(Char)), text # <<>>
    PROVE  CntTok(text[1], Delim) \in Nat
<1> DEFINE S == {n \in DOMAIN text[1] : text[1][n] = Delim}
<1>1. text[1] \in Seq(Char)
  OBVIOUS
<1>2. DOMAIN text[1] = 1 .. Len(text[1]) /\ Len(text[1]) \in Nat
  BY <1>1
<1>3. IsFiniteSet(1 .. Len(text[1]))
  BY <1>2, FS_Interval
<1>4. IsFiniteSet(S)
  <2>1. S \in SUBSET (1 .. Len(text[1]))
    BY <1>2
  <2> QED BY <1>3, <2>1, FS_Subset
<1>5. Cardinality(S) \in Nat
  BY <1>4, FS_CardinalityType
<1> QED BY <1>5 DEF CntTok

\* An import that is not refused has a column for the key.
LEMMA ImportStarts == ASSUME ImportInv, mktbldb PROVE ImportInv'
<1>1. /\ pc = "start" /\ csv \in Texts /\ pk_col_idx \in Int
      /\ i = 0 /\ drift = 0 /\ entries = <<>> /\ keys_txt = <<>>
  BY DEF ImportInv, mktbldb
<1>2. /\ row_cnt' = count_csv_rows /\ col_cnt' = count_csv_cols
      /\ csv' = csv /\ pk_col_idx' = pk_col_idx /\ i' = i /\ drift' = drift
      /\ entries' = entries /\ keys_txt' = keys_txt
      /\ pc' = IF pk_col_idx < 0 \/ pk_col_idx > count_csv_cols - 1 THEN "refused" ELSE "rows"
  BY DEF mktbldb
<1>3. csv \in Seq(Seq(Char))
  BY <1>1, TableAssumption
<1>4. count_csv_rows \in 0 .. Len(csv)
  <2>1. {n \in DOMAIN csv : Last(csv[n]) = nl} \in SUBSET DOMAIN csv
    OBVIOUS
  <2> QED BY <1>3, <2>1, RowsCounted DEF count_csv_rows
<1>5. CASE pc' = "refused"
  BY <1>1, <1>2, <1>5 DEF ImportInv
<1>6. CASE pc' = "rows"
  <2>1. ~(pk_col_idx < 0 \/ pk_col_idx > count_csv_cols - 1)
    BY <1>2, <1>6
  <2>2. count_csv_cols \in Nat \cup {-1}
    BY <1>3, ColumnsCounted DEF count_csv_cols
  <2>3. count_csv_cols \in Nat /\ pk_col_idx + 1 \in 1 .. count_csv_cols
    BY <1>1, <2>1, <2>2
  <2>4. Counted(csv, pk_col_idx, count_csv_cols, count_csv_rows, 0)
    <3>1. 0 \in 0 .. count_csv_rows
      BY <1>3, <1>4
    <3> QED BY <1>1, <1>3, <1>4, <2>3, <3>1 DEF Counted
  <2>5. RowsIn(csv, pk_col_idx, count_csv_cols, 0, <<>>, <<>>)
    <3>1. <<>> = [n \in 1 .. 0 |-> KeyOf(csv, pk_col_idx, count_csv_cols, n)]
      OBVIOUS
    <3>2. <<>> \in Seq(EntryType) /\ Len(<<>>) = 0 /\ 1 .. Len(<<>>) = {}
      OBVIOUS
    <3>3. Len(<<>>) = IF 0 <= DB_ENTRY_CAP THEN 0 ELSE DB_ENTRY_CAP
      BY <3>2, TableAssumption
    <3>4. AsMany(CountIn(Takes(csv, pk_col_idx, count_csv_cols), 0), <<>>)
      <4>1. CountIn(Takes(csv, pk_col_idx, count_csv_cols), 0) = 0
        <5>1. Takes(csv, pk_col_idx, count_csv_cols) \subseteq Nat
          BY <1>3, TakesFacts
        <5> QED BY <5>1, CountStep
      <4> QED BY <3>2, <3>3, <4>1 DEF AsMany
    <3> QED BY <3>1, <3>2, <3>4 DEF RowsIn
  <2>6. LastOfKeyLives(<<>>)
    BY DEF LastOfKeyLives
  <2>7. MovedUpTo(csv)[0] = 0
    BY <1>3, MovedFacts
  <2>8. /\ csv' = csv /\ pk_col_idx' = pk_col_idx /\ i' = 0 /\ drift' = 0
        /\ entries' = <<>> /\ keys_txt' = <<>>
        /\ Counted(csv, pk_col_idx, col_cnt, row_cnt, i)'
        /\ RowsIn(csv, pk_col_idx, col_cnt, i, keys_txt, entries)'
        /\ LastOfKeyLives(entries)' /\ (drift = MovedUpTo(csv)[i])'
    BY <1>1, <1>2, <2>4, <2>5, <2>6, <2>7
  <2> QED BY <1>1, <1>6, <2>8 DEF ImportInv
<1> QED BY <1>2, <1>5, <1>6

\* Entries whose IDs are in a set, deleted.
DeletedIn(es, ids) ==
    [n \in DOMAIN es |-> IF n \in ids THEN [es[n] EXCEPT !.deleted = TRUE] ELSE es[n]]

\* A delete changes nothing else of an entry.
LEMMA DeletedAre ==
    ASSUME NEW es \in Seq(EntryType), NEW ids
    PROVE  /\ DeletedIn(es, ids) \in Seq(EntryType) /\ Len(DeletedIn(es, ids)) = Len(es)
           /\ \A n \in 1 .. Len(es) :
                 /\ DeletedIn(es, ids)[n].key = es[n].key /\ DeletedIn(es, ids)[n].val = es[n].val
                 /\ DeletedIn(es, ids)[n].deleted <=> (es[n].deleted \/ n \in ids)
<1> PICK L \in Nat : L = Len(es) /\ DOMAIN es = 1 .. L
  OBVIOUS
<1> PICK E : E = DeletedIn(es, ids)
  OBVIOUS
<1>1. E = [n \in 1 .. L |-> IF n \in ids THEN [es[n] EXCEPT !.deleted = TRUE] ELSE es[n]]
  BY DEF DeletedIn
<1>2. \A n \in 1 .. L : es[n] \in EntryType
  OBVIOUS
<1>3. ASSUME NEW n \in 1 .. L
      PROVE  /\ E[n] \in EntryType /\ E[n].key = es[n].key /\ E[n].val = es[n].val
             /\ E[n].deleted <=> (es[n].deleted \/ n \in ids)
  <2> PICK e : e = es[n]
    OBVIOUS
  <2>1. e \in EntryType
    OBVIOUS
  <2>2. CASE n \in ids
    <3> PICK f : f = [e EXCEPT !.deleted = TRUE]
      OBVIOUS
    <3>1. f \in EntryType /\ f.key = e.key /\ f.val = e.val /\ f.deleted = TRUE
      BY <2>1 DEF EntryType
    <3>2. E[n] = f
      BY <1>1, <2>2
    <3> QED BY <2>2, <3>1, <3>2
  <2>3. CASE n \notin ids
    <3>1. E[n] = e
      BY <1>1, <2>3
    <3> QED BY <2>1, <2>3, <3>1
  <2> QED BY <2>2, <2>3
<1>4. E \in [1 .. L -> EntryType]
  BY <1>1, <1>3
<1>5. E \in Seq(EntryType) /\ Len(E) = L
  BY <1>4
<1> QED BY <1>3, <1>5

\* What a put of a key leaves, and each entry of it.
PutIn(es, key, v) ==
    Append(DeletedIn(es, {x \in DOMAIN es : es[x].key = key}),
           [key |-> key, val |-> v, deleted |-> FALSE])

PutsEach(es, key, v, new) ==
    /\ new \in Seq(EntryType) /\ Len(new) = Len(es) + 1
    /\ \A n \in 1 .. Len(es) :
          /\ new[n].key = es[n].key /\ new[n].val = es[n].val
          /\ new[n].deleted <=> (es[n].deleted \/ es[n].key = key)
    /\ new[Len(es) + 1] = [key |-> key, val |-> v, deleted |-> FALSE]

\* A put deletes the entries of its key and appends one.
LEMMA PutIs ==
    ASSUME NEW es \in Seq(EntryType), NEW key \in Seq(Char), NEW v \in Seq(Byte)
    PROVE  PutsEach(es, key, v, PutIn(es, key, v))
<1> PICK new : new = PutIn(es, key, v)
  OBVIOUS
<1> PICK K : K = {x \in DOMAIN es : es[x].key = key}
  OBVIOUS
<1> PICK old : old = DeletedIn(es, K)
  OBVIOUS
<1> PICK add : add = [key |-> key, val |-> v, deleted |-> FALSE]
  OBVIOUS
<1>1. /\ old \in Seq(EntryType) /\ Len(old) = Len(es)
      /\ \A n \in 1 .. Len(es) :
            /\ old[n].key = es[n].key /\ old[n].val = es[n].val
            /\ old[n].deleted <=> (es[n].deleted \/ n \in K)
  BY DeletedAre
<1>2. add \in EntryType
  BY DEF EntryType
<1>3. new = Append(old, add)
  BY DEF PutIn
<1>4. /\ new \in Seq(EntryType) /\ Len(new) = Len(old) + 1 /\ new[Len(old) + 1] = add
      /\ \A n \in 1 .. Len(old) : new[n] = old[n]
  BY <1>1, <1>2, <1>3, AppendProperties
<1>5. \A n \in 1 .. Len(es) : n \in K <=> es[n].key = key
  OBVIOUS
<1>6. PutsEach(es, key, v, new)
  BY ZenonT(60), <1>1, <1>4, <1>5 DEF PutsEach
<1> QED BY <1>6

\* A put of the next row keeps what holds of the rows before.
LEMMA PutKeeps ==
    ASSUME NEW text \in Seq(Seq(Char)), NEW pk, NEW cols, NEW k \in Nat, NEW keys, NEW es,
           RowsIn(text, pk, cols, k, keys, es), LastOfKeyLives(es), Len(es) < DB_ENTRY_CAP,
           k + 1 \in Takes(text, pk, cols),
           NEW key \in Seq(Char), key = KeyOf(text, pk, cols, k + 1),
           NEW v \in Seq(Byte), v = BlobOf(text, cols, k + 1),
           NEW new, new = PutIn(es, key, v)
    PROVE  RowsIn(text, pk, cols, k + 1, Append(keys, key), new) /\ LastOfKeyLives(new)
<1> PICK T : T = Takes(text, pk, cols)
  OBVIOUS
<1> PICK L : L = Len(es)
  OBVIOUS
<1>1. /\ keys = [n \in 1 .. k |-> KeyOf(text, pk, cols, n)]
      /\ es \in Seq(EntryType)
      /\ L = IF CountIn(T, k) <= DB_ENTRY_CAP THEN CountIn(T, k) ELSE DB_ENTRY_CAP
      /\ \A x \in 1 .. L : \E n \in 1 .. k : RowAt(text, pk, cols, es, x, n)
  BY DEF RowsIn, AsMany
<1>2. L \in Nat /\ CountIn(T, k) = L /\ CountIn(T, k + 1) = L + 1 /\ L + 1 <= DB_ENTRY_CAP
  <2>1. T \subseteq Nat /\ CountIn(T, k) \in Nat /\ L \in Nat
    <3>1. T \subseteq Nat /\ \A n \in Nat : CountIn(T, n) \in Nat
      BY TakesFacts
    <3>2. DB_ENTRY_CAP \in Nat
      BY TableAssumption
    <3> QED BY <1>1, <3>1, <3>2
  <2>2. DB_ENTRY_CAP \in Nat /\ L < DB_ENTRY_CAP
    BY TableAssumption
  <2>3. CountIn(T, k + 1) = CountIn(T, k) + 1
    BY <2>1, CountStep
  <2> QED BY <1>1, <2>1, <2>2, <2>3
<1>3. /\ new \in Seq(EntryType) /\ Len(new) = L + 1
      /\ \A n \in 1 .. L :
            /\ new[n].key = es[n].key /\ new[n].val = es[n].val
            /\ new[n].deleted <=> (es[n].deleted \/ es[n].key = key)
      /\ new[L + 1] = [key |-> key, val |-> v, deleted |-> FALSE]
  <2>1. PutsEach(es, key, v, new)
    BY <1>1, PutIs
  <2> QED BY <2>1 DEF PutsEach
<1>4. new[L + 1].key = key /\ new[L + 1].val = v /\ ~new[L + 1].deleted
  BY <1>3
<1>5. \A n \in 1 .. L + 1 : n = L + 1 \/ n \in 1 .. L
  BY <1>2
<1>6. RowsIn(text, pk, cols, k + 1, Append(keys, key), new)
  <2>1. Append(keys, key) = [n \in 1 .. k + 1 |-> KeyOf(text, pk, cols, n)]
    BY <1>1
  <2>2. AsMany(CountIn(T, k + 1), new)
    BY <1>2, <1>3 DEF AsMany
  <2>3. ASSUME NEW x \in 1 .. L + 1
        PROVE  \E n \in 1 .. k + 1 : RowAt(text, pk, cols, new, x, n)
    <3>1. CASE x \in 1 .. L
      <4>1. PICK n \in 1 .. k : RowAt(text, pk, cols, es, x, n)
        BY <1>1, <3>1
      <4>2. RowAt(text, pk, cols, new, x, n)
        BY <1>3, <3>1, <4>1 DEF RowAt
      <4>3. n \in 1 .. k + 1
        OBVIOUS
      <4> QED BY <4>2, <4>3
    <3>2. CASE x = L + 1
      <4>1. RowAt(text, pk, cols, new, L + 1, k + 1)
        BY <1>2, <1>4 DEF RowAt
      <4>2. k + 1 \in 1 .. k + 1
        OBVIOUS
      <4> QED BY <3>2, <4>1, <4>2
    <3> QED BY <1>5, <3>1, <3>2
  <2> QED BY <1>3, <2>1, <2>2, <2>3 DEF RowsIn
<1>7. LastOfKeyLives(new)
  <2> SUFFICES ASSUME NEW n \in 1 .. L + 1
               PROVE  new[n].deleted <=> Later(new, n)
    BY <1>3 DEF LastOfKeyLives
  <2>1. Later(new, n) <=> \E m \in 1 .. L + 1 : m > n /\ new[m].key = new[n].key
    BY <1>3 DEF Later
  <2>2. CASE n = L + 1
    <3>1. ~Later(new, n)
      <4>1. \A m \in 1 .. L + 1 : ~(m > L + 1)
        BY <1>2
      <4> QED BY <2>1, <2>2, <4>1
    <3> QED BY <1>4, <2>2, <3>1
  <2>3. CASE n \in 1 .. L
    <3>1. es[n].deleted <=> \E m \in 1 .. L : m > n /\ es[m].key = es[n].key
      BY <2>3 DEF LastOfKeyLives, Later
    <3>2. Later(new, n) <=> (key = es[n].key \/ \E m \in 1 .. L : m > n /\ es[m].key = es[n].key)
      <4>1. new[n].key = es[n].key /\ L + 1 > n /\ L + 1 \in 1 .. L + 1
        BY <1>2, <1>3, <2>3
      <4>2. \A m \in 1 .. L : m \in 1 .. L + 1 /\ new[m].key = es[m].key
        BY <1>2, <1>3
      <4> QED BY <1>4, <1>5, <2>1, <4>1, <4>2, ZenonT(60)
    <3>3. new[n].deleted <=> (es[n].deleted \/ es[n].key = key)
      BY <1>3, <2>3
    <3> QED BY <3>1, <3>2, <3>3
  <2> QED BY <1>5, <2>2, <2>3
<1> QED BY <1>6, <1>7

\* A put that is refused, for the capacity or for the key, changes no entry.
LEMMA RefusedKeeps ==
    ASSUME NEW text \in Seq(Seq(Char)), NEW pk, NEW cols, NEW k \in Nat, NEW keys, NEW es,
           RowsIn(text, pk, cols, k, keys, es),
           Len(es) >= DB_ENTRY_CAP \/ k + 1 \notin Takes(text, pk, cols),
           NEW key, key = KeyOf(text, pk, cols, k + 1)
    PROVE  RowsIn(text, pk, cols, k + 1, Append(keys, key), es)
<1> PICK T : T = Takes(text, pk, cols)
  OBVIOUS
<1>1. /\ keys = [n \in 1 .. k |-> KeyOf(text, pk, cols, n)]
      /\ es \in Seq(EntryType)
      /\ Len(es) = IF CountIn(T, k) <= DB_ENTRY_CAP THEN CountIn(T, k) ELSE DB_ENTRY_CAP
      /\ \A x \in 1 .. Len(es) : \E n \in 1 .. k : RowAt(text, pk, cols, es, x, n)
  BY DEF RowsIn, AsMany
<1>2. Append(keys, key) = [n \in 1 .. k + 1 |-> KeyOf(text, pk, cols, n)]
  BY <1>1
<1>3. AsMany(CountIn(T, k + 1), es)
  <2>1. T \subseteq Nat /\ CountIn(T, k) \in Nat /\ DB_ENTRY_CAP \in Nat
    BY TakesFacts, TableAssumption
  <2>2. CountIn(T, k + 1) = CountIn(T, k) + (IF k + 1 \in T THEN 1 ELSE 0)
    BY <2>1, CountStep
  <2> QED BY <1>1, <2>1, <2>2 DEF AsMany
<1>4. \A n \in 1 .. k : n \in 1 .. k + 1
  OBVIOUS
<1>5. \A x \in 1 .. Len(es) : \E n \in 1 .. k + 1 : RowAt(text, pk, cols, es, x, n)
  BY <1>1, <1>4
<1> QED BY <1>1, <1>2, <1>3, <1>5 DEF RowsIn

\* A row imported: its key is listed, and its record is put.
LEMMA RowImported == ASSUME ImportInv, ImportRow PROVE ImportInv'
<1> PICK key : key = Key
  OBVIOUS
<1>1. /\ pc = "rows" /\ i < row_cnt /\ Line # <<>>
      /\ keys_txt' = Append(keys_txt, key) /\ KVDB_DBObject_put(key, Blob)
      /\ i' = i + 1 /\ drift' = drift + Leading(Piece)
      /\ csv' = csv /\ pk_col_idx' = pk_col_idx /\ row_cnt' = row_cnt
      /\ col_cnt' = col_cnt /\ pc' = pc
  BY DEF ImportRow, InRow
<1>2. /\ Counted(csv, pk_col_idx, col_cnt, row_cnt, i)
      /\ drift = MovedUpTo(csv)[i]
      /\ RowsIn(csv, pk_col_idx, col_cnt, i, keys_txt, entries)
      /\ LastOfKeyLives(entries) /\ csv \in Texts /\ pk_col_idx \in Int
  BY <1>1 DEF ImportInv
<1>3. /\ i + 1 \in 1 .. Len(csv) /\ csv[i + 1] \in Seq(Char) /\ csv \in Seq(Seq(Char))
      /\ Line = Stripped(csv[i + 1])
      /\ key = KeyOf(csv, pk_col_idx, col_cnt, i + 1)
      /\ Blob = BlobOf(csv, col_cnt, i + 1)
  BY <1>1, AtRow
<1>4. /\ col_cnt \in Nat /\ pk_col_idx + 1 \in 1 .. col_cnt
      /\ row_cnt \in 0 .. Len(csv) /\ i \in 0 .. row_cnt /\ i \in Nat /\ row_cnt \in Nat
  BY <1>2 DEF Counted
<1>5. key \in Seq(Char) /\ Blob \in Seq(Byte)
  BY <1>3, <1>4, KeyAndBlob
<1>6. Counted(csv, pk_col_idx, col_cnt, row_cnt, i + 1)
  <2>1. i + 1 \in 0 .. row_cnt
    BY <1>1, <1>4
  <2>2. \A n \in 1 .. i + 1 : Stripped(csv[n]) # <<>>
    <3>1. \A n \in 1 .. i + 1 : n = i + 1 \/ n \in 1 .. i
      BY <1>4
    <3>2. \A n \in 1 .. i : Stripped(csv[n]) # <<>>
      BY <1>2 DEF Counted
    <3> QED BY <1>1, <1>3, <3>1, <3>2
  <2> QED BY <1>2, <2>1, <2>2 DEF Counted
<1>7. drift + Leading(Piece) = MovedUpTo(csv)[i + 1]
  <2> PICK r : r = i + 1
    OBVIOUS
  <2>1. r \in 1 .. Len(csv) /\ r - 1 = i
    BY <1>3, <1>4
  <2>2. MovedUpTo(csv)[r] = MovedUpTo(csv)[r - 1] + Leading(csv[r])
    BY <1>3, <2>1, MovedFacts
  <2> QED BY <1>2, <2>1, <2>2 DEF Piece
<1>8. /\ RowsIn(csv, pk_col_idx, col_cnt, i + 1, Append(keys_txt, key), entries')
      /\ LastOfKeyLives(entries')
  <2> DEFINE full == Len(entries) >= DB_ENTRY_CAP \/ Len(key) > MAX_KEY_SIZE
  <2>1. Len(entries) \in Nat /\ DB_ENTRY_CAP \in Nat /\ Len(key) \in Nat /\ MAX_KEY_SIZE \in Nat
    BY <1>2, <1>5, TableAssumption DEF RowsIn
  <2>2. i + 1 \in Takes(csv, pk_col_idx, col_cnt) <=> Len(key) <= MAX_KEY_SIZE
    BY <1>3 DEF Takes
  <2>3. CASE full
    <3>1. entries' = entries
      BY <1>1, <2>3 DEF KVDB_DBObject_put
    <3>2. Len(entries) >= DB_ENTRY_CAP \/ i + 1 \notin Takes(csv, pk_col_idx, col_cnt)
      BY <2>1, <2>2, <2>3
    <3>3. RowsIn(csv, pk_col_idx, col_cnt, i + 1, Append(keys_txt, key), entries)
      BY <1>2, <1>3, <1>4, <3>2, RefusedKeeps
    <3> QED BY <1>2, <3>1, <3>3
  <2>4. CASE ~full
    <3>1. entries' = PutIn(entries, key, Blob)
      BY <1>1, <2>4 DEF KVDB_DBObject_put, WithDeleted, DeletedIn, PutIn
    <3>2. Len(entries) < DB_ENTRY_CAP /\ i + 1 \in Takes(csv, pk_col_idx, col_cnt)
      BY <2>1, <2>2, <2>4
    <3> PICK new : new = entries'
      OBVIOUS
    <3> PICK v : v = Blob
      OBVIOUS
    <3>3. new = PutIn(entries, key, v)
      BY <3>1
    <3>4. v \in Seq(Byte) /\ v = BlobOf(csv, col_cnt, i + 1)
      BY <1>3, <1>5
    <3>5. RowsIn(csv, pk_col_idx, col_cnt, i + 1, Append(keys_txt, key), new) /\ LastOfKeyLives(new)
      <4>1. key = KeyOf(csv, pk_col_idx, col_cnt, i + 1) /\ key \in Seq(Char) /\ i \in Nat
        BY <1>3, <1>4, <1>5
      <4>2. RowsIn(csv, pk_col_idx, col_cnt, i, keys_txt, entries) /\ LastOfKeyLives(entries)
        BY <1>2
      <4>3. csv \in Seq(Seq(Char))
        BY <1>3
      <4> QED BY <3>2, <3>3, <3>4, <4>1, <4>2, <4>3, PutKeeps
    <3> QED BY <3>5
  <2> QED BY <2>3, <2>4
<1>9. /\ csv' \in Texts /\ pk_col_idx' \in Int /\ pc' = "rows"
      /\ Counted(csv, pk_col_idx, col_cnt, row_cnt, i)'
      /\ (drift = MovedUpTo(csv)[i])'
      /\ RowsIn(csv, pk_col_idx, col_cnt, i, keys_txt, entries)'
      /\ LastOfKeyLives(entries)'
  BY <1>1, <1>2, <1>6, <1>7, <1>8
<1> QED BY <1>9 DEF ImportInv

\* A fault changes nothing but the control.
LEMMA RowFaults == ASSUME ImportInv, ImportFaults PROVE ImportInv'
<1>1. /\ pc = "rows" /\ i < row_cnt /\ (Overruns \/ (Line # <<>> /\ MeetsTombstone(Key)))
      /\ pc' = "dead"
      /\ csv' = csv /\ pk_col_idx' = pk_col_idx /\ row_cnt' = row_cnt /\ col_cnt' = col_cnt
      /\ i' = i /\ drift' = drift /\ entries' = entries /\ keys_txt' = keys_txt
  BY DEF ImportFaults, InRow
<1>2. /\ Counted(csv, pk_col_idx, col_cnt, row_cnt, i)
      /\ drift = MovedUpTo(csv)[i]
      /\ RowsIn(csv, pk_col_idx, col_cnt, i, keys_txt, entries)
      /\ LastOfKeyLives(entries) /\ csv \in Texts /\ pk_col_idx \in Int
  BY <1>1 DEF ImportInv
<1>3. Line' = Line /\ Overruns' = Overruns /\ MeetsTombstone(Key)' = MeetsTombstone(Key)
  BY <1>1 DEF Line, Piece, Overruns, BlobBytes, Toks, Key, MeetsTombstone, LiveIDs
<1>4. /\ csv' \in Texts /\ pk_col_idx' \in Int
      /\ Counted(csv, pk_col_idx, col_cnt, row_cnt, i)'
      /\ (drift = MovedUpTo(csv)[i])'
      /\ RowsIn(csv, pk_col_idx, col_cnt, i, keys_txt, entries)'
      /\ LastOfKeyLives(entries)'
      /\ (i < row_cnt)' /\ (Overruns \/ (Line # <<>> /\ MeetsTombstone(Key)))'
  BY <1>1, <1>2, <1>3
<1> QED BY <1>1, <1>4 DEF ImportInv

\* The end of the import: the entries asked for are deleted.
LEMMA ImportEnds == ASSUME ImportInv, ImportDone PROVE ImportInv'
<1> DEFINE ids == {id + 1 : id \in DeletedIDs}
<1>1. /\ pc = "rows" /\ (i < row_cnt => Line = <<>>)
      /\ entries' = DeletedIn(entries, ids)
      /\ pc' = "done"
      /\ csv' = csv /\ pk_col_idx' = pk_col_idx /\ row_cnt' = row_cnt /\ col_cnt' = col_cnt
      /\ i' = i /\ drift' = drift /\ keys_txt' = keys_txt
  BY DEF ImportDone, WithDeleted, DeletedIn
<1>2. /\ Counted(csv, pk_col_idx, col_cnt, row_cnt, i)
      /\ drift = MovedUpTo(csv)[i]
      /\ RowsIn(csv, pk_col_idx, col_cnt, i, keys_txt, entries)
      /\ LastOfKeyLives(entries) /\ csv \in Texts /\ pk_col_idx \in Int
  BY <1>1 DEF ImportInv
<1> PICK new : new = entries'
  OBVIOUS
<1>3. /\ entries \in Seq(EntryType)
      /\ keys_txt = [n \in 1 .. i |-> KeyOf(csv, pk_col_idx, col_cnt, n)]
      /\ AsMany(CountIn(Takes(csv, pk_col_idx, col_cnt), i), entries)
      /\ \A x \in 1 .. Len(entries) :
            \E n \in 1 .. i : RowAt(csv, pk_col_idx, col_cnt, entries, x, n)
  BY <1>2 DEF RowsIn
<1>4. /\ new \in Seq(EntryType) /\ Len(new) = Len(entries)
      /\ \A n \in 1 .. Len(entries) :
            /\ new[n].key = entries[n].key /\ new[n].val = entries[n].val
            /\ new[n].deleted <=> (entries[n].deleted \/ n \in ids)
  <2> HIDE DEF ids
  <2> QED BY <1>1, <1>3, DeletedAre
<1>5. RowsIn(csv, pk_col_idx, col_cnt, i, keys_txt, new)
  <2>1. AsMany(CountIn(Takes(csv, pk_col_idx, col_cnt), i), new)
    BY <1>3, <1>4 DEF AsMany
  <2>2. ASSUME NEW x \in 1 .. Len(entries)
        PROVE  \E n \in 1 .. i : RowAt(csv, pk_col_idx, col_cnt, new, x, n)
    <3>1. PICK n \in 1 .. i : RowAt(csv, pk_col_idx, col_cnt, entries, x, n)
      BY <1>3
    <3>2. RowAt(csv, pk_col_idx, col_cnt, new, x, n)
      BY <1>4, <3>1 DEF RowAt
    <3> QED BY <3>2
  <2> QED BY <1>3, <1>4, <2>1, <2>2 DEF RowsIn
<1>6. \A n \in 1 .. Len(new) : new[n].deleted <=> (Later(new, n) \/ n - 1 \in DeletedIDs)
  <2> SUFFICES ASSUME NEW n \in 1 .. Len(entries)
               PROVE  new[n].deleted <=> (Later(new, n) \/ n - 1 \in DeletedIDs)
    BY <1>4
  <2>1. Len(entries) \in Nat
    BY <1>3
  <2>2. n \in ids <=> n - 1 \in DeletedIDs
    <3>1. n - 1 \in DeletedIDs => (n - 1) + 1 \in ids
      OBVIOUS
    <3>2. (n - 1) + 1 = n
      BY <2>1
    <3>3. ASSUME NEW id \in DeletedIDs, n = id + 1 PROVE n - 1 = id
      BY <3>3, TableAssumption
    <3>4. n \in ids => \E id \in DeletedIDs : n = id + 1
      OBVIOUS
    <3> QED BY <3>1, <3>2, <3>3, <3>4
  <2>3. Later(new, n) <=> Later(entries, n)
    BY <1>4 DEF Later
  <2>4. entries[n].deleted <=> Later(entries, n)
    BY <1>2 DEF LastOfKeyLives
  <2> QED BY <1>4, <2>2, <2>3, <2>4
<1>7. Line' = Line
  BY <1>1 DEF Line, Piece
<1>8. /\ csv' \in Texts /\ pk_col_idx' \in Int
      /\ Counted(csv, pk_col_idx, col_cnt, row_cnt, i)'
      /\ (drift = MovedUpTo(csv)[i])'
      /\ RowsIn(csv, pk_col_idx, col_cnt, i, keys_txt, entries)'
      /\ (i < row_cnt => Line = <<>>)'
      /\ (\A n \in 1 .. Len(entries) :
             entries[n].deleted <=> (Later(entries, n) \/ n - 1 \in DeletedIDs))'
  BY <1>1, <1>2, <1>5, <1>6, <1>7
<1> QED BY <1>1, <1>8 DEF ImportInv

\* A stuttering step changes nothing.
LEMMA ImportStays == ImportInv /\ UNCHANGED vars => ImportInv'
<1> SUFFICES ASSUME ImportInv, UNCHANGED vars PROVE ImportInv'
  OBVIOUS
<1>1. /\ csv' = csv /\ pk_col_idx' = pk_col_idx /\ row_cnt' = row_cnt /\ col_cnt' = col_cnt
      /\ i' = i /\ drift' = drift /\ entries' = entries /\ keys_txt' = keys_txt /\ pc' = pc
  BY DEF vars
<1>2. Line' = Line /\ Overruns' = Overruns /\ MeetsTombstone(Key)' = MeetsTombstone(Key)
  BY <1>1 DEF Line, Piece, Overruns, BlobBytes, Toks, Key, MeetsTombstone, LiveIDs
<1> QED BY <1>1, <1>2 DEF ImportInv

\* Every step keeps the invariant.
LEMMA ImportNext == ImportInv /\ [Next]_vars => ImportInv'
  BY ImportStarts, RowImported, RowFaults, ImportEnds, ImportStays DEF Next

(* What mktbldb holds between two rows: the rows passed are listed, and those *)
(* with a key that the engine takes are in the database up to its capacity,  *)
(* in their order, each under its key and with the record of its fields; an  *)
(* entry is deleted exactly if a later one has its key; and the line buffer  *)
(* has lost the leading whitespace of every row.                             *)
THEOREM ImportInvariant == Spec => []ImportInv
  BY ImportInit, ImportNext, PTL DEF Spec

(* What an import leaves in the database is the rows of the file that the    *)
(* engine does not refuse for their key (kvdb.c 271-279), as many as it has  *)
(* room for and in their order, and a record decodes to the fields of its    *)
(* row (mktbldb.c 101-158, gettbldbrec.c 71-80).                             *)
THEOREM RowsAreImported == Spec => []RecordsAreRows
  BY ImportInvariant, RecordsFollow, PTL

(* mktbldb leaves its buffers or meets a tombstone only for one of the four  *)
(* causes listed (mktbldb.c 99-135, txt_tok.c 23-29, kvdb.c 22-29).          *)
THEOREM ImportFaultsHaveACause == Spec => []ImportFaultsOnlyOn
  BY ImportInvariant, FaultsFollow, PTL

-----------------------------------------------------------------------------
(* The chained table: the entries of one key in a sequence. *)

\* m[n] are the entries of a key among the first n.
Mine(s, key, m) ==
    /\ m[0] = <<>>
    /\ \A n \in 0 .. Len(s) : m[n] \in Seq(HashTableEntry)
    /\ \A n \in 1 .. Len(s) : s[n].key = key => m[n] = Append(m[n - 1], s[n])
    /\ \A n \in 1 .. Len(s) : s[n].key # key => m[n] = m[n - 1]

LEMMA OfFacts ==
    ASSUME NEW s \in Seq(HashTableEntry), NEW key
    PROVE  Mine(s, key, OfUpTo(s, key)) /\ Of(s, key) = OfUpTo(s, key)[Len(s)]
           /\ Of(s, key) \in Seq(HashTableEntry)
<1> PICK L \in Nat : L = Len(s)
  OBVIOUS
<1> DEFINE step == [n \in 1 .. L |-> [x \in Seq(HashTableEntry) |->
                        IF s[n].key = key THEN Append(x, s[n]) ELSE x]]
           Passed(f) == [n \in 0 .. L |-> IF n = 0 THEN <<>>
                                        ELSE IF s[n].key = key THEN Append(f[n - 1], s[n])
                                        ELSE f[n - 1]]
<1>1. \A n \in 1 .. L : s[n] \in HashTableEntry
  OBVIOUS
<1>2. Turns(step, L, Seq(HashTableEntry)) /\ <<>> \in Seq(HashTableEntry)
  BY <1>1 DEF Turns
<1>3. ASSUME NEW f, Loop(f, L, <<>>, step)
      PROVE  f = Passed(f)
  <2>1. /\ \A n \in 0 .. L : f[n] \in Seq(HashTableEntry)
        /\ f[0] = <<>>
        /\ \A n \in 1 .. L : f[n] = step[n][f[n - 1]]
    <3> HIDE DEF step
    <3>1. \A n \in 0 .. L : f[n] \in Seq(HashTableEntry)
      BY <1>2, <1>3, LoopStays
    <3> QED BY <1>3, <3>1, LoopTurns
  <2>2. ASSUME NEW n \in 0 .. L
        PROVE  f[n] = IF n = 0 THEN <<>>
                      ELSE IF s[n].key = key THEN Append(f[n - 1], s[n])
                      ELSE f[n - 1]
    <3>1. CASE n = 0
      BY <2>1, <3>1
    <3>2. CASE n # 0
      <4>1. n \in 1 .. L /\ n - 1 \in 0 .. L
        BY <3>2
      <4>2. f[n] = step[n][f[n - 1]] /\ f[n - 1] \in Seq(HashTableEntry)
        BY <2>1, <4>1
      <4> QED BY <3>2, <4>1, <4>2
    <3> QED BY <3>1, <3>2
  <2>3. f = [n \in 0 .. L |-> f[n]]
    BY <1>3 DEF Loop
  <2> QED BY <2>2, <2>3
<1>4. \E s1 : s1 = Passed(s1)
  <2>1. \E f : Loop(f, L, <<>>, step)
    <3> HIDE DEF step
    <3> QED BY <1>2, LoopComputes
  <2> HIDE DEF Passed
  <2> QED BY <1>3, <2>1
<1> PICK m : m = OfUpTo(s, key)
  OBVIOUS
<1>5. m = Passed(m)
  <2>1. m = CHOOSE f : f = Passed(f)
    BY DEF OfUpTo
  <2> HIDE DEF Passed
  <2> QED BY <1>4, <2>1
<1>6. m[0] = <<>> /\ \A n \in 1 .. L : m[n] = IF s[n].key = key THEN Append(m[n - 1], s[n]) ELSE m[n - 1]
  <2>1. \A n \in 0 .. L : m[n] = IF n = 0 THEN <<>>
                                 ELSE IF s[n].key = key THEN Append(m[n - 1], s[n])
                                 ELSE m[n - 1]
    BY <1>5
  <2>2. 0 \in 0 .. L /\ \A n \in 1 .. L : n \in 0 .. L /\ n # 0
    OBVIOUS
  <2> QED BY <2>1, <2>2
<1>7. \A n \in 0 .. L : m[n] \in Seq(HashTableEntry)
  <2> DEFINE B == {n \in 0 .. L : m[n] \in Seq(HashTableEntry)}
  <2>1. 0 \in B
    <3>1. <<>> \in Seq(HashTableEntry) /\ 0 \in 0 .. L
      OBVIOUS
    <3> QED BY <1>6, <3>1
  <2>2. ASSUME NEW n \in 1 .. L, n - 1 \in B PROVE n \in B
    <3>1. m[n] = m[n - 1] \/ m[n] = Append(m[n - 1], s[n])
      BY <1>6
    <3>2. m[n - 1] \in Seq(HashTableEntry) /\ s[n] \in HashTableEntry
      BY <1>1, <2>2
    <3>3. Append(m[n - 1], s[n]) \in Seq(HashTableEntry)
      BY <3>2, AppendProperties
    <3>4. m[n] \in Seq(HashTableEntry)
      BY <3>1, <3>2, <3>3
    <3> QED BY <3>4
  <2>3. 0 .. L \subseteq B
    <3> HIDE DEF B
    <3> QED BY <2>1, <2>2, Reaches
  <2> QED BY <2>3
<1>8. Of(s, key) = m[L]
  BY DEF Of
<1>9. L \in 0 .. L
  OBVIOUS
<1>10. Mine(s, key, m)
  BY <1>6, <1>7 DEF Mine
<1> QED BY <1>7, <1>8, <1>9, <1>10

\* An entry appended to a concatenation is appended to its second part.
Moves(s, t, e) == Append(s \o t, e) = s \o Append(t, e)

LEMMA AppendMoves ==
    ASSUME NEW S, NEW s \in Seq(S), NEW t \in Seq(S), NEW e \in S
    PROVE  Moves(s, t, e)
<1>1. ASSUME NEW u \in Seq(S), NEW a, NEW b, a = (s \o t) \o u, b = t \o u
      PROVE  a = s \o b
  BY SMTT(60), <1>1, ConcatAssociative
<1>2. s \o t \in Seq(S) /\ <<e>> \in Seq(S)
  BY ConcatProperties
<1>3. Append(s \o t, e) = (s \o t) \o <<e>> /\ Append(t, e) = t \o <<e>>
  BY <1>2, AppendIsConcat
<1> QED BY <1>1, <1>2, <1>3 DEF Moves

\* Those of a concatenation are those of its parts.
LEMMA OfConcat ==
    ASSUME NEW s \in Seq(HashTableEntry), NEW t \in Seq(HashTableEntry), NEW key
    PROVE  Of(s \o t, key) = Of(s, key) \o Of(t, key)
<1> PICK c : c = s \o t
  OBVIOUS
<1> PICK L \in Nat : L = Len(s)
  OBVIOUS
<1> PICK M \in Nat : M = Len(t)
  OBVIOUS
<1>1. c \in Seq(HashTableEntry) /\ Len(c) = L + M
  BY ConcatProperties
<1>2. /\ \A n \in 1 .. L : c[n] = s[n]
      /\ \A n \in 1 .. M : c[L + n] = t[n]
  <2>1. \A n \in 1 .. L + M : c[n] = IF n <= L THEN s[n] ELSE t[n - L]
    BY ConcatProperties
  <2>2. \A n \in 1 .. L : n \in 1 .. L + M /\ n <= L
    OBVIOUS
  <2>3. \A n \in 1 .. M : L + n \in 1 .. L + M /\ ~(L + n <= L) /\ (L + n) - L = n
    OBVIOUS
  <2> QED BY <2>1, <2>2, <2>3
<1> PICK oc : oc = OfUpTo(c, key)
  OBVIOUS
<1> PICK os : os = OfUpTo(s, key)
  OBVIOUS
<1> PICK ot : ot = OfUpTo(t, key)
  OBVIOUS
<1>0. /\ Mine(c, key, oc) /\ Of(c, key) = oc[Len(c)]
      /\ Mine(s, key, os) /\ Of(s, key) = os[Len(s)]
      /\ Mine(t, key, ot) /\ Of(t, key) = ot[Len(t)]
  BY <1>1, OfFacts
<1>3. /\ oc[0] = <<>> /\ Of(c, key) = oc[L + M]
      /\ \A n \in 1 .. L + M : c[n].key = key => oc[n] = Append(oc[n - 1], c[n])
      /\ \A n \in 1 .. L + M : c[n].key # key => oc[n] = oc[n - 1]
  BY <1>0, <1>1, SMTT(60) DEF Mine
<1>4. /\ os[0] = <<>> /\ Of(s, key) = os[L]
      /\ \A n \in 0 .. L : os[n] \in Seq(HashTableEntry)
      /\ \A n \in 1 .. L : s[n].key = key => os[n] = Append(os[n - 1], s[n])
      /\ \A n \in 1 .. L : s[n].key # key => os[n] = os[n - 1]
  BY <1>0 DEF Mine
<1>5. /\ ot[0] = <<>> /\ Of(t, key) = ot[M]
      /\ \A n \in 0 .. M : ot[n] \in Seq(HashTableEntry)
      /\ \A n \in 1 .. M : t[n].key = key => ot[n] = Append(ot[n - 1], t[n])
      /\ \A n \in 1 .. M : t[n].key # key => ot[n] = ot[n - 1]
  BY <1>0 DEF Mine
<1>8. os[L] \in Seq(HashTableEntry)
  <2>1. L \in 0 .. L
    OBVIOUS
  <2> QED BY <1>4, <2>1
<1>6. oc[L] = os[L]
  <2> DEFINE B == {n \in 0 .. L : oc[n] = os[n]}
  <2>1. 0 \in B
    BY <1>3, <1>4
  <2>2. ASSUME NEW n \in 1 .. L, n - 1 \in B PROVE n \in B
    <3>1. n \in 1 .. L + M /\ n \in 0 .. L
      OBVIOUS
    <3>2. oc[n] = IF c[n].key = key THEN Append(oc[n - 1], c[n]) ELSE oc[n - 1]
      BY <1>3, <3>1
    <3>3. os[n] = IF s[n].key = key THEN Append(os[n - 1], s[n]) ELSE os[n - 1]
      BY <1>4, <3>1
    <3>4. c[n] = s[n] /\ oc[n - 1] = os[n - 1]
      BY <1>2, <2>2
    <3> QED BY <3>1, <3>2, <3>3, <3>4
  <2>3. 0 .. L \subseteq B
    <3> HIDE DEF B
    <3> QED BY <2>1, <2>2, Reaches
  <2> QED BY <2>3
<1>7. oc[L + M] = os[L] \o ot[M]
  <2> DEFINE B == {n \in 0 .. M : oc[L + n] = os[L] \o ot[n]}
  <2>1. 0 \in B
    <3>1. os[L] \o <<>> = os[L]
      BY <1>8, ConcatEmptySeq
    <3>2. L + 0 = L /\ 0 \in 0 .. M
      OBVIOUS
    <3> QED BY <1>5, <1>6, <3>1, <3>2
  <2>2. ASSUME NEW n \in 1 .. M, n - 1 \in B PROVE n \in B
    <3> PICK x : x = t[n]
      OBVIOUS
    <3> PICK o : o = ot[n - 1]
      OBVIOUS
    <3>1. /\ L + n \in 1 .. L + M /\ n \in 0 .. M /\ n - 1 \in 0 .. M
          /\ (L + n) - 1 = L + (n - 1)
      OBVIOUS
    <3>2. oc[L + n] = IF x.key = key THEN Append(oc[(L + n) - 1], x) ELSE oc[(L + n) - 1]
      <4>1. c[L + n] = x
        BY <1>2
      <4>2. /\ c[L + n].key = key => oc[L + n] = Append(oc[(L + n) - 1], c[L + n])
            /\ c[L + n].key # key => oc[L + n] = oc[(L + n) - 1]
        BY <1>3, <3>1
      <4> QED BY <4>1, <4>2
    <3>3. ot[n] = IF x.key = key THEN Append(o, x) ELSE o
      BY <1>5
    <3>4. oc[(L + n) - 1] = os[L] \o o
      BY <2>2, <3>1
    <3>5. x \in HashTableEntry /\ o \in Seq(HashTableEntry)
      BY <1>5, <3>1
    <3>6. Append(os[L] \o o, x) = os[L] \o Append(o, x)
      <4>1. Moves(os[L], o, x)
        BY SMTT(60), <1>8, <3>5, AppendMoves
      <4> QED BY <4>1 DEF Moves
    <3>7. oc[L + n] = os[L] \o ot[n]
      BY <3>2, <3>3, <3>4, <3>6
    <3> QED BY <3>1, <3>7
  <2>3. 0 .. M \subseteq B
    <3> HIDE DEF B
    <3> QED BY <2>1, <2>2, Reaches
  <2>4. M \in 0 .. M
    OBVIOUS
  <2> QED BY <2>3, <2>4
<1> QED BY <1>3, <1>4, <1>5, <1>7

\* Those of a sequence of one entry, and of one without the key.
LEMMA OfOne ==
    ASSUME NEW e \in HashTableEntry, NEW key
    PROVE  Of(<<e>>, key) = IF e.key = key THEN <<e>> ELSE <<>>
<1> PICK s : s = <<e>>
  OBVIOUS
<1>1. s \in Seq(HashTableEntry) /\ Len(s) = 1 /\ s[1] = e /\ 1 \in 1 .. 1
  OBVIOUS
<1> PICK m : m = OfUpTo(s, key)
  OBVIOUS
<1>2. Mine(s, key, m) /\ Of(s, key) = m[1]
  BY <1>1, OfFacts
<1>3. /\ m[0] = <<>>
      /\ s[1].key = key => m[1] = Append(m[1 - 1], s[1])
      /\ s[1].key # key => m[1] = m[1 - 1]
  BY <1>1, <1>2 DEF Mine
<1>4. Append(<<>>, e) = <<e>> /\ 1 - 1 = 0
  OBVIOUS
<1> QED BY <1>1, <1>2, <1>3, <1>4

LEMMA OfNone ==
    ASSUME NEW s \in Seq(HashTableEntry), NEW key, \A n \in 1 .. Len(s) : s[n].key # key
    PROVE  Of(s, key) = <<>>
<1> PICK L \in Nat : L = Len(s)
  OBVIOUS
<1> PICK m : m = OfUpTo(s, key)
  OBVIOUS
<1>0. Mine(s, key, m) /\ Of(s, key) = m[L]
  BY OfFacts
<1>1. m[0] = <<>> /\ Of(s, key) = m[L]
  BY <1>0 DEF Mine
<1>2. \A n \in 1 .. L : m[n] = m[n - 1]
  BY <1>0 DEF Mine
<1> DEFINE B == {n \in 0 .. L : m[n] = <<>>}
<1>3. 0 \in B /\ \A n \in 1 .. L : n - 1 \in B => n \in B
  BY <1>1, <1>2
<1>4. 0 .. L \subseteq B
  <2> HIDE DEF B
  <2> QED BY <1>3, Reaches
<1> QED BY <1>1, <1>4

\* An entry appended is one more of its key.
LEMMA OfAppend ==
    ASSUME NEW s \in Seq(HashTableEntry), NEW e \in HashTableEntry, NEW key
    PROVE  Of(Append(s, e), key) = IF e.key = key THEN Append(Of(s, key), e) ELSE Of(s, key)
<1>1. Append(s, e) = s \o <<e>> /\ <<e>> \in Seq(HashTableEntry)
  <2>1. <<e>> \in Seq(HashTableEntry)
    OBVIOUS
  <2> QED BY <2>1, AppendIsConcat
<1>2. Of(Append(s, e), key) = Of(s, key) \o Of(<<e>>, key)
  <2>1. ASSUME NEW u \in Seq(HashTableEntry), NEW a, a = s \o u
        PROVE  Of(a, key) = Of(s, key) \o Of(u, key)
    BY <2>1, OfConcat
  <2> QED BY <1>1, <2>1
<1>3. Of(s, key) \in Seq(HashTableEntry)
  BY OfFacts
<1>4. Of(s, key) \o <<e>> = Append(Of(s, key), e) /\ Of(s, key) \o <<>> = Of(s, key)
  BY <1>3, AppendIsConcat, ConcatEmptySeq
<1> QED BY <1>2, <1>4, OfOne

\* Where the first entry of a key is, and what SelectInSeq finds.
IsFirst(s, key, p) ==
    p \in 1 .. Len(s) /\ s[p].key = key /\ \A n \in 1 .. p - 1 : s[n].key # key

FirstOrNone(s, key, p) ==
    (p = 0 /\ \A n \in 1 .. Len(s) : s[n].key # key) \/ IsFirst(s, key, p)

FirstOf(s, key) == SelectInSeq(s, LAMBDA e : e.key = key)

LEMMA FirstIs ==
    ASSUME NEW s \in Seq(HashTableEntry), NEW key
    PROVE  FirstOrNone(s, key, FirstOf(s, key))
<1> PICK S : S = {n \in 1 .. Len(s) : s[n].key = key}
  OBVIOUS
<1> PICK p : p = FirstOf(s, key)
  OBVIOUS
<1>1. p = IF S # {} THEN Min(S) ELSE 0
  BY DEF FirstOf, SelectInSeq
<1>2. CASE S = {}
  BY <1>1, <1>2 DEF FirstOrNone
<1>3. CASE S # {}
  <2>1. S \subseteq Nat
    OBVIOUS
  <2>2. p \in S /\ \A n \in S : p <= n
    BY <1>1, <1>3, <2>1, MinIsLeast
  <2>3. p \in 1 .. Len(s) /\ s[p].key = key
    BY <2>2
  <2>4. ASSUME NEW n \in 1 .. p - 1, s[n].key = key PROVE FALSE
    <3>1. n \in 1 .. Len(s) /\ ~(p <= n)
      BY <2>3
    <3>2. n \in S
      BY <2>4, <3>1
    <3> QED BY <2>2, <3>1, <3>2
  <2> QED BY <2>3, <2>4 DEF FirstOrNone, IsFirst
<1> QED BY <1>2, <1>3

\* A sequence without one of its entries, in parts.
Parts(s, p, a, u, b) ==
    /\ a \in Seq(HashTableEntry) /\ u \in Seq(HashTableEntry) /\ b \in Seq(HashTableEntry)
    /\ s = a \o (u \o b) /\ u = <<s[p]>> /\ RemoveAt(s, p) = a \o b
    /\ Len(a) = p - 1 /\ Len(b) = Len(s) - p
    /\ \A n \in 1 .. p - 1 : a[n] = s[n]
    /\ \A n \in 1 .. Len(s) - p : b[n] = s[p + n]

LEMMA PartsOf ==
    ASSUME NEW s \in Seq(HashTableEntry), NEW p \in 1 .. Len(s)
    PROVE  Parts(s, p, SubSeq(s, 1, p - 1), <<s[p]>>, SubSeq(s, p + 1, Len(s)))
<1> PICK L \in Nat : L = Len(s)
  OBVIOUS
<1> PICK a : a = SubSeq(s, 1, p - 1)
  OBVIOUS
<1> PICK b : b = SubSeq(s, p + 1, L)
  OBVIOUS
<1>0. p \in Nat /\ p >= 1 /\ p <= L
  OBVIOUS
<1>1. a \in Seq(HashTableEntry) /\ Len(a) = p - 1 /\ \A n \in 1 .. p - 1 : a[n] = s[n]
  <2>1. \A n \in 1 .. p - 1 : s[n] \in HashTableEntry
    BY <1>0
  <2>2. /\ a \in Seq(HashTableEntry) /\ Len(a) = IF 1 <= p - 1 THEN (p - 1) - 1 + 1 ELSE 0
        /\ \A n \in 1 .. (p - 1) - 1 + 1 : a[n] = s[1 + n - 1]
    BY <1>0, <2>1, SubSeqProperties
  <2>3. \A n \in 1 .. p - 1 : n \in 1 .. (p - 1) - 1 + 1 /\ 1 + n - 1 = n
    BY <1>0
  <2> QED BY <1>0, <2>2, <2>3
<1>2. b \in Seq(HashTableEntry) /\ Len(b) = L - p /\ \A n \in 1 .. L - p : b[n] = s[p + n]
  <2>1. \A n \in p + 1 .. L : s[n] \in HashTableEntry
    BY <1>0
  <2>2. /\ b \in Seq(HashTableEntry) /\ Len(b) = IF p + 1 <= L THEN L - (p + 1) + 1 ELSE 0
        /\ \A n \in 1 .. L - (p + 1) + 1 : b[n] = s[(p + 1) + n - 1]
    BY <1>0, <2>1, SubSeqProperties
  <2>3. \A n \in 1 .. L - p : n \in 1 .. L - (p + 1) + 1 /\ (p + 1) + n - 1 = p + n
    BY <1>0
  <2> QED BY <1>0, <2>2, <2>3
<1>3. <<s[p]>> \in Seq(HashTableEntry)
  <2>1. s[p] \in HashTableEntry
    OBVIOUS
  <2> QED BY <2>1
<1>4. s = a \o (<<s[p]>> \o b)
  <2>1. SubSeq(s, p, L) = <<s[p]>> \o b
    BY <1>0, SubSeqRecursiveFirst
  <2>2. a \o SubSeq(s, p, L) = SubSeq(s, 1, L)
    <3>1. /\ 1 \in 1 .. L + 1 /\ p - 1 \in 1 - 1 .. L /\ L \in p - 1 .. L
          /\ (p - 1) + 1 = p
      BY <1>0
    <3>2. SubSeq(s, 1, p - 1) \o SubSeq(s, (p - 1) + 1, L) = SubSeq(s, 1, L)
      BY <3>1, ConcatAdjacentSubSeq
    <3> QED BY <3>1, <3>2
  <2>3. SubSeq(s, 1, L) = s
    BY SubSeqFull
  <2> QED BY <2>1, <2>2, <2>3
<1>5. RemoveAt(s, p) = a \o b
  BY DEF RemoveAt
<1> QED BY <1>1, <1>2, <1>3, <1>4, <1>5 DEF Parts

\* A list of entries begins with e and goes on with r.
Begins(m, e, r) == m # <<>> /\ m[1] = e /\ r = Tail(m)

LEMMA BeginsWith ==
    ASSUME NEW e \in HashTableEntry, NEW r \in Seq(HashTableEntry), NEW u, u = <<e>>
    PROVE  Begins(u \o r, e, r)
<1>1. u \in Seq(HashTableEntry) /\ Len(u) = 1 /\ u[1] = e
  OBVIOUS
<1> PICK m : m = u \o r
  OBVIOUS
<1>2. /\ m \in Seq(HashTableEntry) /\ Len(m) = 1 + Len(r)
      /\ \A n \in 1 .. 1 + Len(r) : m[n] = IF n <= 1 THEN u[n] ELSE r[n - 1]
  BY <1>1, ConcatProperties
<1>3. Len(r) \in Nat
  OBVIOUS
<1>4. m # <<>> /\ m[1] = e
  BY <1>1, <1>2, <1>3
<1>5. /\ Tail(m) \in Seq(HashTableEntry) /\ Len(Tail(m)) = Len(r)
      /\ \A n \in 1 .. Len(r) : Tail(m)[n] = m[n + 1]
  BY <1>2, <1>3, <1>4, HeadTailProperties
<1>6. \A n \in 1 .. Len(r) : m[n + 1] = r[n]
  <2>1. \A n \in 1 .. Len(r) : n + 1 \in 1 .. 1 + Len(r) /\ ~(n + 1 <= 1) /\ (n + 1) - 1 = n
    BY <1>3
  <2> QED BY <1>2, <2>1
<1>7. Tail(m) = r
  BY <1>5, <1>6, SeqEqual
<1> QED BY <1>4, <1>7 DEF Begins

\* What is left when the first entry of a key is taken out.
TakenOut(s, key, p, r) ==
    /\ r \in Seq(HashTableEntry) /\ Len(r) = Len(s) - 1
    /\ Begins(Of(s, key), s[p], Of(r, key))
    /\ \A k : k # key => Of(r, k) = Of(s, k)
    /\ \A n \in 1 .. Len(r) : \E x \in 1 .. Len(s) : r[n] = s[x]

\* The entries of a key with e between a and b, and without it.
HasMoreOfKey(a, e, b, k) ==
    /\ Of(a \o (<<e>> \o b), k) = Of(a, k) \o (Of(<<e>>, k) \o Of(b, k))
    /\ Of(a \o b, k) = Of(a, k) \o Of(b, k)

Joined(a, b, k) == Of(a \o b, k) = Of(a, k) \o Of(b, k)

LEMMA OfJoined ==
    ASSUME NEW a \in Seq(HashTableEntry), NEW b \in Seq(HashTableEntry), NEW k
    PROVE  Joined(a, b, k)
BY OfConcat DEF Joined

LEMMA MoreOfKey ==
    ASSUME NEW a \in Seq(HashTableEntry), NEW b \in Seq(HashTableEntry), NEW e \in HashTableEntry, NEW k
    PROVE  HasMoreOfKey(a, e, b, k)
<1>1. ASSUME NEW u \in Seq(HashTableEntry)
      PROVE  Of(a \o (u \o b), k) = Of(a, k) \o (Of(u, k) \o Of(b, k))
  <2>1. u \o b \in Seq(HashTableEntry)
    BY ConcatProperties
  <2>2. Joined(a, u \o b, k) /\ Joined(u, b, k)
    BY Zenon, <2>1, OfJoined
  <2> QED BY Zenon, <2>2 DEF Joined
<1>2. <<e>> \in Seq(HashTableEntry)
  OBVIOUS
<1>3. Of(a \o (<<e>> \o b), k) = Of(a, k) \o (Of(<<e>>, k) \o Of(b, k))
  BY Zenon, <1>1, <1>2
<1>4. Of(a \o b, k) = Of(a, k) \o Of(b, k)
  BY OfConcat
<1> QED BY Zenon, <1>3, <1>4 DEF HasMoreOfKey

LEMMA PartsAre ==
    ASSUME NEW s, NEW p, NEW a, NEW u, NEW b, Parts(s, p, a, u, b)
    PROVE  /\ a \in Seq(HashTableEntry) /\ b \in Seq(HashTableEntry)
           /\ Len(a) = p - 1 /\ Len(b) = Len(s) - p
           /\ \A n \in 1 .. p - 1 : a[n] = s[n]
           /\ \A n \in 1 .. Len(s) - p : b[n] = s[p + n]
BY Zenon DEF Parts

LEMMA TakeOut ==
    ASSUME NEW s \in Seq(HashTableEntry), NEW key, NEW p, IsFirst(s, key, p)
    PROVE  TakenOut(s, key, p, RemoveAt(s, p))
<1>1. p \in 1 .. Len(s) /\ s[p].key = key /\ \A n \in 1 .. p - 1 : s[n].key # key
  BY DEF IsFirst
<1> PICK e : e = s[p]
  OBVIOUS
<1> PICK L : L = Len(s)
  OBVIOUS
<1>2. PICK a, u, b : Parts(s, p, a, u, b)
  BY <1>1, PartsOf
<1> PICK r : r = RemoveAt(s, p)
  OBVIOUS
<1>3. /\ a \in Seq(HashTableEntry) /\ b \in Seq(HashTableEntry)
      /\ Len(a) = p - 1 /\ Len(b) = L - p
      /\ \A n \in 1 .. p - 1 : a[n] = s[n]
      /\ \A n \in 1 .. L - p : b[n] = s[p + n]
  BY <1>2, PartsAre
<1>4. e \in HashTableEntry /\ L \in Nat /\ p \in Nat
  BY <1>1
<1>5. s = a \o (<<e>> \o b) /\ r = a \o b
  BY Zenon, <1>2 DEF Parts
<1>6. ASSUME NEW c, c = a \o b
      PROVE  /\ c \in Seq(HashTableEntry) /\ Len(c) = Len(a) + Len(b)
             /\ \A x \in 1 .. Len(a) + Len(b) : c[x] = IF x <= Len(a) THEN a[x] ELSE b[x - Len(a)]
  BY <1>3, <1>6, ConcatProperties
<1>7. /\ r \in Seq(HashTableEntry) /\ Len(r) = Len(a) + Len(b)
      /\ \A x \in 1 .. Len(a) + Len(b) : r[x] = IF x <= Len(a) THEN a[x] ELSE b[x - Len(a)]
  BY Zenon, <1>5, <1>6
<1>8. Len(r) = L - 1
  BY <1>3, <1>4, <1>7
<1>9. ASSUME NEW k
      PROVE  /\ Of(s, k) = Of(a, k) \o (Of(<<e>>, k) \o Of(b, k))
             /\ Of(r, k) = Of(a, k) \o Of(b, k)
             /\ Of(a, k) \in Seq(HashTableEntry) /\ Of(b, k) \in Seq(HashTableEntry)
             /\ k = key => Of(<<e>>, k) = <<e>>
             /\ k # key => Of(<<e>>, k) = <<>>
  <2>1. Of(s, k) = Of(a, k) \o (Of(<<e>>, k) \o Of(b, k)) /\ Of(r, k) = Of(a, k) \o Of(b, k)
    <3>1. a \in Seq(HashTableEntry) /\ b \in Seq(HashTableEntry) /\ e \in HashTableEntry
      BY <1>3, <1>4
    <3>2. HasMoreOfKey(a, e, b, k)
      BY Zenon, <3>1, MoreOfKey
    <3> QED BY Zenon, <1>5, <3>2 DEF HasMoreOfKey
  <2>2. Of(<<e>>, k) = IF e.key = k THEN <<e>> ELSE <<>>
    BY <1>4, OfOne
  <2>3. Of(a, k) \in Seq(HashTableEntry) /\ Of(b, k) \in Seq(HashTableEntry)
    BY <1>3, OfFacts
  <2>4. e.key = key
    BY <1>1
  <2>5. (k = key => Of(<<e>>, k) = <<e>>) /\ (k # key => Of(<<e>>, k) = <<>>)
    BY Zenon, <2>2, <2>4
  <2> QED BY Zenon, <2>1, <2>3, <2>5
<1>10. Begins(Of(s, key), e, Of(r, key))
  <2> PICK ob : ob = Of(b, key)
    OBVIOUS
  <2>1. Of(a, key) = <<>>
    <3>1. \A n \in 1 .. Len(a) : a[n].key # key
      BY <1>1, <1>3
    <3> QED BY <1>3, <3>1, OfNone
  <2>2. Of(<<e>>, key) = <<e>>
    BY Zenon, <1>9
  <2>3. Of(s, key) = <<>> \o (<<e>> \o ob) /\ Of(r, key) = <<>> \o ob
    <3>1. /\ Of(s, key) = Of(a, key) \o (Of(<<e>>, key) \o Of(b, key))
          /\ Of(r, key) = Of(a, key) \o Of(b, key)
      BY Zenon, <1>9
    <3> QED BY Zenon, <2>1, <2>2, <3>1
  <2>4. ob \in Seq(HashTableEntry)
    BY Zenon, <1>9
  <2>5. ASSUME NEW w, w = <<e>>
        PROVE  Begins(<<>> \o (w \o ob), e, <<>> \o ob)
    <3>1. Begins(w \o ob, e, ob)
      BY <1>4, <2>4, <2>5, BeginsWith
    <3>2. w \in Seq(HashTableEntry)
      BY <1>4, <2>5
    <3>3. w \o ob \in Seq(HashTableEntry)
      BY <2>4, <3>2, ConcatProperties
    <3>4. <<>> \o ob = ob /\ <<>> \o (w \o ob) = w \o ob
      BY <2>4, <3>3, ConcatEmptySeq
    <3> QED BY Zenon, <3>1, <3>4
  <2>6. Begins(<<>> \o (<<e>> \o ob), e, <<>> \o ob)
    BY Zenon, <2>5
  <2> QED BY Zenon, <2>3, <2>6
<1>11. ASSUME NEW k, k # key PROVE Of(r, k) = Of(s, k)
  <2>1. /\ Of(s, k) = Of(a, k) \o (Of(<<e>>, k) \o Of(b, k))
        /\ Of(r, k) = Of(a, k) \o Of(b, k)
    BY Zenon, <1>9
  <2>2. Of(<<e>>, k) = <<>>
    BY Zenon, <1>9, <1>11
  <2>3. <<>> \o Of(b, k) = Of(b, k)
    <3>1. Of(b, k) \in Seq(HashTableEntry)
      BY Zenon, <1>9
    <3> QED BY <3>1, ConcatEmptySeq
  <2> QED BY Zenon, <2>1, <2>2, <2>3
<1>12. ASSUME NEW n \in 1 .. Len(r) PROVE \E x \in 1 .. L : r[n] = s[x]
  <2>1. /\ n \in 1 .. Len(a) + Len(b)
        /\ r[n] = IF n <= Len(a) THEN a[n] ELSE b[n - Len(a)]
    BY Zenon, <1>7
  <2>2. CASE n <= Len(a)
    <3>1. n \in 1 .. p - 1 /\ n \in 1 .. L
      BY <1>3, <1>4, <1>1, <2>1, <2>2
    <3>2. r[n] = a[n] /\ a[n] = s[n]
      BY Zenon, <1>3, <2>1, <2>2, <3>1
    <3> QED BY <3>1, <3>2
  <2>3. CASE ~(n <= Len(a))
    <3> PICK d : d = n - Len(a)
      OBVIOUS
    <3>1. d \in 1 .. L - p /\ p + d \in 1 .. L
      BY <1>1, <1>3, <1>4, <2>1, <2>3
    <3>2. r[n] = b[d] /\ b[d] = s[p + d]
      BY Zenon, <1>3, <2>1, <2>3, <3>1
    <3> QED BY <3>1, <3>2
  <2> QED BY <2>2, <2>3
<1> QED BY Zenon, <1>7, <1>8, <1>10, <1>11, <1>12 DEF TakenOut
-----------------------------------------------------------------------------
(* The entries of the chained table, slot by slot. *)

In(t, h) == t.ht[h].bucket

HasSlots(t, cap) ==
    t.ht_cap = cap /\ \A h \in 0 .. cap - 1 : In(t, h) \in Seq(HashTableEntry)

\* list[n] are the entries of the first n slots.
Listed(t, cap, list) ==
    /\ list[0] = <<>>
    /\ \A n \in 1 .. cap : list[n] = list[n - 1] \o In(t, n - 1)
    /\ \A n \in 0 .. cap : list[n] \in Seq(HashTableEntry)

LEMMA EntriesAre ==
    ASSUME NEW cap \in Nat, NEW t, HasSlots(t, cap)
    PROVE  Listed(t, cap, EntriesUpTo(t)) /\ EntriesOf(t) = EntriesUpTo(t)[cap]
<1>1. t.ht_cap = cap /\ \A h \in 0 .. cap - 1 : In(t, h) \in Seq(HashTableEntry)
  BY DEF HasSlots
<1> DEFINE step == [n \in 1 .. cap |-> [x \in Seq(HashTableEntry) |-> x \o In(t, n - 1)]]
           Passed(f) == [n \in 0 .. cap |-> IF n = 0 THEN <<>> ELSE f[n - 1] \o t.ht[n - 1].bucket]
<1>2. Turns(step, cap, Seq(HashTableEntry)) /\ <<>> \in Seq(HashTableEntry)
  <2>1. ASSUME NEW n \in 1 .. cap, NEW x \in Seq(HashTableEntry)
        PROVE  step[n][x] \in Seq(HashTableEntry)
    <3>1. n - 1 \in 0 .. cap - 1
      OBVIOUS
    <3>2. x \o In(t, n - 1) \in Seq(HashTableEntry)
      BY <1>1, <3>1, ConcatProperties
    <3> QED BY <3>2
  <2> QED BY <2>1 DEF Turns
<1>3. ASSUME NEW f, Loop(f, cap, <<>>, step)
      PROVE  f = Passed(f)
  <2>1. /\ \A n \in 0 .. cap : f[n] \in Seq(HashTableEntry)
        /\ f[0] = <<>>
        /\ \A n \in 1 .. cap : f[n] = step[n][f[n - 1]]
    <3> HIDE DEF step
    <3>1. \A n \in 0 .. cap : f[n] \in Seq(HashTableEntry)
      BY <1>2, <1>3, LoopStays
    <3> QED BY <1>3, <3>1, LoopTurns
  <2>2. ASSUME NEW n \in 0 .. cap
        PROVE  f[n] = IF n = 0 THEN <<>> ELSE f[n - 1] \o t.ht[n - 1].bucket
    <3>1. CASE n = 0
      BY <2>1, <3>1
    <3>2. CASE n # 0
      <4>1. n \in 1 .. cap /\ n - 1 \in 0 .. cap
        BY <3>2
      <4>2. f[n] = step[n][f[n - 1]] /\ f[n - 1] \in Seq(HashTableEntry)
        BY <2>1, <4>1
      <4> QED BY <3>2, <4>1, <4>2 DEF In
    <3> QED BY <3>1, <3>2
  <2>3. f = [n \in 0 .. cap |-> f[n]]
    BY <1>3 DEF Loop
  <2> QED BY <2>2, <2>3
<1>4. \E s1 : s1 = Passed(s1)
  <2>1. \E f : Loop(f, cap, <<>>, step)
    <3> HIDE DEF step
    <3> QED BY <1>2, LoopComputes
  <2> HIDE DEF Passed
  <2> QED BY <1>3, <2>1
<1> PICK m : m = EntriesUpTo(t)
  OBVIOUS
<1>5. m = Passed(m)
  <2>1. m = CHOOSE f : f = Passed(f)
    BY <1>1 DEF EntriesUpTo
  <2> HIDE DEF Passed
  <2> QED BY <1>4, <2>1
<1>6. m[0] = <<>> /\ \A n \in 1 .. cap : m[n] = m[n - 1] \o In(t, n - 1)
  <2>1. \A n \in 0 .. cap : m[n] = IF n = 0 THEN <<>> ELSE m[n - 1] \o In(t, n - 1)
    BY <1>5 DEF In
  <2>2. 0 \in 0 .. cap /\ \A n \in 1 .. cap : n \in 0 .. cap /\ n # 0
    OBVIOUS
  <2> QED BY <2>1, <2>2
<1>7. \A n \in 0 .. cap : m[n] \in Seq(HashTableEntry)
  <2> DEFINE B == {n \in 0 .. cap : m[n] \in Seq(HashTableEntry)}
  <2>1. 0 \in B
    <3>1. m[0] \in Seq(HashTableEntry)
      BY Zenon, <1>2, <1>6
    <3> QED BY <3>1
  <2>2. ASSUME NEW n \in 1 .. cap, n - 1 \in B PROVE n \in B
    <3>1. n - 1 \in 0 .. cap - 1
      OBVIOUS
    <3>2. m[n - 1] \o In(t, n - 1) \in Seq(HashTableEntry)
      BY <1>1, <2>2, <3>1, ConcatProperties
    <3>3. m[n] \in Seq(HashTableEntry)
      BY <1>6, <3>2
    <3> QED BY <3>3
  <2>3. 0 .. cap \subseteq B
    <3> HIDE DEF B
    <3> QED BY <2>1, <2>2, Reaches
  <2> QED BY <2>3
<1>8. EntriesOf(t) = m[cap]
  BY <1>1 DEF EntriesOf
<1> QED BY <1>6, <1>7, <1>8 DEF Listed

\* The numbers of entries before slot n, and in slot n, when slot h has d more.
Before(n, h, d, x, x2) == x2 = IF n <= h THEN x ELSE x + d

Within(n, h, d, y, y2) == y2 = IF n = h THEN y + d ELSE y

LEMMA CountsShift ==
    ASSUME NEW n \in Nat \ {0}, NEW h \in Nat, NEW d \in Int,
           NEW x \in Nat, NEW y \in Nat, NEW x2 \in Nat, NEW y2 \in Nat,
           Within(n - 1, h, d, y, y2), Before(n - 1, h, d, x, x2)
    PROVE  Before(n, h, d, x + y, x2 + y2)
BY DEF Before, Within

\* A slot that gains or loses entries changes their number by as many.
LEMMA SlotChanges ==
    ASSUME NEW cap \in Nat, NEW t, HasSlots(t, cap), NEW t2, HasSlots(t2, cap),
           NEW h \in 0 .. cap - 1, NEW d \in Int, Len(In(t2, h)) = Len(In(t, h)) + d,
           \A g \in 0 .. cap - 1 : g # h => In(t2, g) = In(t, g)
    PROVE  Len(EntriesOf(t2)) = Len(EntriesOf(t)) + d
<1> PICK m : m = EntriesUpTo(t)
  OBVIOUS
<1> PICK m2 : m2 = EntriesUpTo(t2)
  OBVIOUS
<1>1. Listed(t, cap, m) /\ Listed(t2, cap, m2) /\ EntriesOf(t) = m[cap] /\ EntriesOf(t2) = m2[cap]
  BY EntriesAre
<1>2. ASSUME NEW x, HasSlots(x, cap), NEW l, Listed(x, cap, l), NEW n \in 1 .. cap
      PROVE  /\ Len(l[n]) = Len(l[n - 1]) + Len(In(x, n - 1))
             /\ Len(l[n - 1]) \in Nat /\ Len(In(x, n - 1)) \in Nat
  <2>1. n - 1 \in 0 .. cap /\ n - 1 \in 0 .. cap - 1
    OBVIOUS
  <2>2. l[n - 1] \in Seq(HashTableEntry) /\ In(x, n - 1) \in Seq(HashTableEntry)
    BY <1>2, <2>1 DEF Listed, HasSlots
  <2>3. l[n] = l[n - 1] \o In(x, n - 1)
    BY <1>2 DEF Listed
  <2> QED BY <2>2, <2>3, ConcatProperties
<1> DEFINE A == {n \in 0 .. cap : Before(n, h, d, Len(m[n]), Len(m2[n]))}
<1>3. 0 \in A
  <2>1. m[0] = <<>> /\ m2[0] = <<>>
    BY <1>1 DEF Listed
  <2> QED BY <2>1 DEF Before
<1>4. ASSUME NEW n \in 1 .. cap, n - 1 \in A PROVE n \in A
  <2> PICK x : x = Len(m[n - 1])
    OBVIOUS
  <2> PICK y : y = Len(In(t, n - 1))
    OBVIOUS
  <2> PICK x2 : x2 = Len(m2[n - 1])
    OBVIOUS
  <2> PICK y2 : y2 = Len(In(t2, n - 1))
    OBVIOUS
  <2>1. Len(m[n]) = x + y /\ x \in Nat /\ y \in Nat
    BY <1>1, <1>2
  <2>2. Len(m2[n]) = x2 + y2 /\ x2 \in Nat /\ y2 \in Nat
    BY <1>1, <1>2
  <2>3. Within(n - 1, h, d, y, y2)
    <3>1. n - 1 \in 0 .. cap - 1
      OBVIOUS
    <3> QED BY <3>1 DEF Within
  <2>4. Before(n - 1, h, d, x, x2)
    BY <1>4
  <2>5. Before(n, h, d, x + y, x2 + y2)
    <3>1. n \in Nat \ {0} /\ h \in Nat
      OBVIOUS
    <3> QED BY Zenon, <2>1, <2>2, <2>3, <2>4, <3>1, CountsShift
  <2>6. n \in 0 .. cap
    OBVIOUS
  <2>7. Before(n, h, d, Len(m[n]), Len(m2[n]))
    BY Zenon, <2>1, <2>2, <2>5
  <2> QED BY <2>6, <2>7
<1>5. 0 .. cap \subseteq A
  <2> HIDE DEF A
  <2> QED BY <1>3, <1>4, Reaches
<1>6. cap \in 0 .. cap /\ ~(cap <= h)
  OBVIOUS
<1>7. Before(cap, h, d, Len(m[cap]), Len(m2[cap]))
  BY <1>5, <1>6
<1> QED BY <1>1, <1>6, <1>7 DEF Before

\* Every entry is in the slot of its hash.
SlotFor(key, cap) == ChainHash[key] % cap

InPlace(t, cap) ==
    \A h \in 0 .. cap - 1 : \A n \in 1 .. Len(In(t, h)) : SlotFor(In(t, h)[n].key, cap) = h

\* A table is one whose entries are in place and counted.
IsTable(t, cap) ==
    t \in HTObject(cap) /\ InPlace(t, cap) /\ t.ht_size = Len(EntriesOf(t))

\* The entries of a key in its bucket.
InBucket(t, key) == Of(Bucket(t, key), key)

LEMMA SlotIsOne ==
    ASSUME NEW cap \in Nat \ {0}, NEW key \in ChainKeys
    PROVE  SlotFor(key, cap) \in 0 .. cap - 1
<1>1. ChainHash[key] \in Nat
  BY ChainAssumption
<1> QED BY <1>1 DEF SlotFor

LEMMA TableHasSlots ==
    ASSUME NEW cap \in Nat \ {0}, NEW t \in HTObject(cap)
    PROVE  /\ HasSlots(t, cap)
           /\ \A key \in ChainKeys : Bucket(t, key) = In(t, SlotFor(key, cap))
BY DEF HTObject, HashTableSlot, HasSlots, In, Bucket, SlotFor

\* All entries of a key are those in its bucket.
LEMMA EntriesOfKey ==
    ASSUME NEW cap \in Nat \ {0}, NEW t, IsTable(t, cap), NEW key \in ChainKeys
    PROVE  Of(EntriesOf(t), key) = InBucket(t, key)
<1> PICK h : h = SlotFor(key, cap)
  OBVIOUS
<1> PICK m : m = EntriesUpTo(t)
  OBVIOUS
<1>0. h \in 0 .. cap - 1
  BY SlotIsOne
<1>1. HasSlots(t, cap) /\ Bucket(t, key) = In(t, h)
  BY TableHasSlots DEF IsTable
<1>2. Listed(t, cap, m) /\ EntriesOf(t) = m[cap]
  BY <1>1, EntriesAre
<1>3. ASSUME NEW n \in 1 .. cap
      PROVE  /\ n - 1 \in 0 .. cap - 1 /\ n - 1 \in 0 .. cap
             /\ m[n] = m[n - 1] \o In(t, n - 1)
             /\ m[n - 1] \in Seq(HashTableEntry) /\ In(t, n - 1) \in Seq(HashTableEntry)
  <2>1. n - 1 \in 0 .. cap - 1 /\ n - 1 \in 0 .. cap
    OBVIOUS
  <2> QED BY <1>1, <1>2, <2>1 DEF Listed, HasSlots
<1> DEFINE Found(n) == IF n <= h THEN <<>> ELSE Of(In(t, h), key)
           A == {n \in 0 .. cap : Of(m[n], key) = Found(n)}
<1>4. 0 \in A
  <2>1. m[0] = <<>> /\ <<>> \in Seq(HashTableEntry)
    BY <1>2 DEF Listed
  <2>2. Of(<<>>, key) = <<>>
    <3>1. \A z \in 1 .. Len(<<>>) : FALSE
      OBVIOUS
    <3>2. ASSUME NEW e \in Seq(HashTableEntry), \A z \in 1 .. Len(e) : FALSE
          PROVE  Of(e, key) = <<>>
      BY <3>2, OfNone
    <3> QED BY <2>1, <3>1, <3>2
  <2>3. 0 \in 0 .. cap /\ 0 <= h
    BY <1>0
  <2> QED BY <2>1, <2>2, <2>3
<1>5. ASSUME NEW n \in 1 .. cap, n - 1 \in A PROVE n \in A
  <2> PICK x : x = Of(m[n - 1], key)
    OBVIOUS
  <2> PICK y : y = Of(In(t, n - 1), key)
    OBVIOUS
  <2>1. Of(m[n], key) = x \o y
    <3>1. Of(m[n - 1] \o In(t, n - 1), key) = x \o y
      BY ZenonT(60), <1>3, OfConcat
    <3> QED BY Zenon, <1>3, <3>1
  <2>2. x = Found(n - 1)
    BY <1>5
  <2>3. n - 1 # h => y = <<>>
    <3>1. ASSUME n - 1 # h, NEW z \in 1 .. Len(In(t, n - 1)), In(t, n - 1)[z].key = key
          PROVE  FALSE
      BY <1>3, <3>1 DEF IsTable, InPlace
    <3>2. ASSUME n - 1 # h PROVE Of(In(t, n - 1), key) = <<>>
      BY <1>3, <3>1, <3>2, OfNone
    <3> QED BY <3>2
  <2>4. x \in Seq(HashTableEntry) /\ y \in Seq(HashTableEntry)
    BY <1>3, OfFacts
  <2>5. x \o <<>> = x /\ <<>> \o y = y /\ <<>> \o <<>> = <<>>
    BY <2>4, ConcatEmptySeq
  <2>6. Of(m[n], key) = Found(n)
    <3>1. CASE n - 1 < h
      <4>1. n <= h /\ n - 1 <= h /\ n - 1 # h
        BY <1>0, <3>1
      <4>2. x = <<>> /\ y = <<>> /\ Found(n) = <<>>
        BY Zenon, <2>2, <2>3, <4>1
      <4> QED BY Zenon, <2>1, <2>5, <4>2
    <3>2. CASE n - 1 = h
      <4>1. n - 1 <= h /\ ~(n <= h)
        BY <1>0, <3>2
      <4>2. x = <<>> /\ Found(n) = y
        BY Zenon, <2>2, <3>2, <4>1
      <4> QED BY Zenon, <2>1, <2>5, <4>2
    <3>3. CASE n - 1 > h
      <4>1. ~(n - 1 <= h) /\ ~(n <= h) /\ n - 1 # h
        BY <1>0, <3>3
      <4>2. y = <<>> /\ Found(n) = x
        BY Zenon, <2>2, <2>3, <4>1
      <4> QED BY Zenon, <2>1, <2>5, <4>2
    <3> QED BY <1>0, <3>1, <3>2, <3>3
  <2> HIDE DEF Found
  <2>7. n \in 0 .. cap
    OBVIOUS
  <2> QED BY <2>6, <2>7
<1>6. 0 .. cap \subseteq A
  <2> HIDE DEF A
  <2> QED BY <1>4, <1>5, Reaches
<1>7. Of(m[cap], key) = Of(In(t, h), key)
  <2>1. cap \in 0 .. cap /\ ~(cap <= h)
    BY <1>0
  <2>2. Of(m[cap], key) = Found(cap)
    <3> HIDE DEF Found
    <3> QED BY <1>6, <2>1
  <2> QED BY Zenon, <2>1, <2>2
<1> QED BY Zenon, <1>1, <1>2, <1>7 DEF InBucket
-----------------------------------------------------------------------------
(* What the operations on the chained table make of the entries of each key. *)

LEMMA NewIsTable ==
    ASSUME NEW cap \in Nat \ {0}
    PROVE  IsTable(NewTable(cap), cap) /\ NewTable(cap).ht_size = 0
           /\ \A key \in ChainKeys : InBucket(NewTable(cap), key) = <<>>
<1> PICK t : t = NewTable(cap)
  OBVIOUS
<1>1. <<>> \in Seq(HashTableEntry) /\ INIT_BUCKET_CAP \in Nat
  BY ChainAssumption
<1>2. /\ t \in HTObject(cap) /\ t.ht_size = 0
      /\ \A h \in 0 .. cap - 1 : In(t, h) = <<>>
  BY <1>1 DEF NewTable, NewSlot, HTObject, HashTableSlot, In
<1>3. InPlace(t, cap)
  <2>1. \A n \in 1 .. Len(<<>>) : FALSE
    OBVIOUS
  <2> QED BY <1>2, <2>1 DEF InPlace
<1>4. HasSlots(t, cap) /\ \A key \in ChainKeys : Bucket(t, key) = In(t, SlotFor(key, cap))
  BY <1>2, TableHasSlots
<1>5. ASSUME NEW key \in ChainKeys PROVE InBucket(t, key) = <<>>
  <2>1. Bucket(t, key) = <<>>
    BY <1>2, <1>4, SlotIsOne
  <2>2. ASSUME NEW e \in Seq(HashTableEntry), \A n \in 1 .. Len(e) : FALSE
        PROVE  Of(e, key) = <<>>
    BY <2>2, OfNone
  <2>3. Of(<<>>, key) = <<>>
    <3>1. \A n \in 1 .. Len(<<>>) : FALSE
      OBVIOUS
    <3> QED BY <1>1, <2>2, <3>1
  <2> QED BY Zenon, <2>1, <2>3 DEF InBucket
<1>6. EntriesOf(t) = <<>>
  <2> PICK m : m = EntriesUpTo(t)
    OBVIOUS
  <2>1. Listed(t, cap, m) /\ EntriesOf(t) = m[cap]
    BY <1>4, EntriesAre
  <2> DEFINE A == {n \in 0 .. cap : m[n] = <<>>}
  <2>2. 0 \in A
    BY <2>1 DEF Listed
  <2>3. ASSUME NEW n \in 1 .. cap, n - 1 \in A PROVE n \in A
    <3>1. n - 1 \in 0 .. cap - 1 /\ n \in 0 .. cap
      OBVIOUS
    <3>2. In(t, n - 1) = <<>>
      BY <1>2, <3>1
    <3>3. m[n] = m[n - 1] \o In(t, n - 1)
      BY <2>1 DEF Listed
    <3>4. m[n - 1] = <<>>
      BY <2>3
    <3>5. <<>> \o <<>> = <<>>
      BY <1>1, ConcatEmptySeq
    <3>6. m[n] = <<>>
      BY Zenon, <3>2, <3>3, <3>4, <3>5
    <3> QED BY <3>1, <3>6
  <2>4. 0 .. cap \subseteq A
    <3> HIDE DEF A
    <3> QED BY <2>2, <2>3, Reaches
  <2> QED BY <2>1, <2>4
<1> QED BY <1>2, <1>3, <1>5, <1>6 DEF IsTable

\* A table whose slot h now holds the entries of the sequence b.
Changed(t, t2, cap, h, b) ==
    /\ t2 \in HTObject(cap)
    /\ In(t2, h) = b /\ \A g \in 0 .. cap - 1 : g # h => In(t2, g) = In(t, g)

\* A table with slot h replaced.
WithSlot(t, h, slot) == [t EXCEPT !.ht[h] = slot]

LEMMA SlotReplaced ==
    ASSUME NEW cap \in Nat \ {0}, NEW t \in HTObject(cap), NEW h \in 0 .. cap - 1,
           NEW slot \in HashTableSlot
    PROVE  /\ Changed(t, WithSlot(t, h, slot), cap, h, slot.bucket)
           /\ WithSlot(t, h, slot).ht_size = t.ht_size
<1> PICK t2 : t2 = WithSlot(t, h, slot)
  OBVIOUS
<1> PICK ht : ht = t.ht
  OBVIOUS
<1>1. ht \in [0 .. cap - 1 -> HashTableSlot] /\ t.ht_cap = cap /\ t.ht_size \in Nat
  BY DEF HTObject
<1>2. t2 = [ht_cap |-> t.ht_cap, ht_size |-> t.ht_size, ht |-> [ht EXCEPT ![h] = slot]]
  BY DEF WithSlot, HTObject
<1>3. [ht EXCEPT ![h] = slot] \in [0 .. cap - 1 -> HashTableSlot]
  BY <1>1
<1>4. /\ t2.ht_cap = cap /\ t2.ht_size = t.ht_size
      /\ t2.ht = [ht EXCEPT ![h] = slot] /\ t2 \in HTObject(cap)
  BY <1>1, <1>2, <1>3 DEF HTObject
<1>5. t2.ht[h] = slot /\ \A g \in 0 .. cap - 1 : g # h => t2.ht[g] = ht[g]
  BY <1>1, <1>4
<1>6. In(t2, h) = slot.bucket /\ \A g \in 0 .. cap - 1 : g # h => In(t2, g) = In(t, g)
  BY <1>5 DEF In
<1> QED BY <1>4, <1>6 DEF Changed

Sized(t, n) == [t EXCEPT !.ht_size = n]

ChangedTo(t, t2, cap, h, b, n) == Changed(t, t2, cap, h, b) /\ t2.ht_size = n

LEMMA SizeReplaced ==
    ASSUME NEW cap \in Nat \ {0}, NEW t, NEW t1, NEW h, NEW b, Changed(t, t1, cap, h, b),
           NEW n \in Nat
    PROVE  ChangedTo(t, Sized(t1, n), cap, h, b, n)
<1>1. t1 \in HTObject(cap)
  BY DEF Changed
<1>2. Sized(t1, n) \in HTObject(cap) /\ Sized(t1, n).ht = t1.ht /\ Sized(t1, n).ht_size = n
  BY <1>1 DEF HTObject, Sized
<1> QED BY <1>2 DEF Changed, ChangedTo, In

OnlySlot(t, t2, cap, h, b) ==
    \A key \in ChainKeys :
      InBucket(t2, key) = IF SlotFor(key, cap) = h THEN Of(b, key) ELSE InBucket(t, key)

\* The entries of b are those of slot h.
LEMMA ChangedIsTable ==
    ASSUME NEW cap \in Nat \ {0}, NEW t, IsTable(t, cap), NEW h \in 0 .. cap - 1,
           NEW b \in Seq(HashTableEntry), \A n \in 1 .. Len(b) : SlotFor(b[n].key, cap) = h,
           NEW d \in Int, Len(b) = Len(In(t, h)) + d,
           NEW t2, Changed(t, t2, cap, h, b), t2.ht_size = t.ht_size + d
    PROVE  IsTable(t2, cap) /\ OnlySlot(t, t2, cap, h, b)
<1>1. /\ t2 \in HTObject(cap) /\ In(t2, h) = b
      /\ \A g \in 0 .. cap - 1 : g # h => In(t2, g) = In(t, g)
  BY DEF Changed
<1>2. t \in HTObject(cap) /\ InPlace(t, cap) /\ t.ht_size = Len(EntriesOf(t))
  BY DEF IsTable
<1>3. /\ HasSlots(t, cap) /\ \A key \in ChainKeys : Bucket(t, key) = In(t, SlotFor(key, cap))
      /\ HasSlots(t2, cap) /\ \A key \in ChainKeys : Bucket(t2, key) = In(t2, SlotFor(key, cap))
  BY <1>1, <1>2, TableHasSlots
<1>4. Len(EntriesOf(t2)) = Len(EntriesOf(t)) + d
  BY <1>1, <1>3, SlotChanges
<1>5. InPlace(t2, cap)
  <2>1. ASSUME NEW g \in 0 .. cap - 1, NEW n \in 1 .. Len(In(t2, g))
        PROVE  SlotFor(In(t2, g)[n].key, cap) = g
    <3>1. CASE g = h
      BY <1>1, <2>1, <3>1
    <3>2. CASE g # h
      <4>1. In(t2, g) = In(t, g)
        BY <1>1, <3>2
      <4>2. \A x \in 1 .. Len(In(t, g)) : SlotFor(In(t, g)[x].key, cap) = g
        BY <1>2 DEF InPlace
      <4> QED BY <4>1, <4>2
    <3> QED BY <3>1, <3>2
  <2> QED BY <2>1 DEF InPlace
<1>6. IsTable(t2, cap)
  BY <1>1, <1>2, <1>4, <1>5 DEF IsTable
<1>7. ASSUME NEW key \in ChainKeys
      PROVE  InBucket(t2, key) = IF SlotFor(key, cap) = h THEN Of(b, key) ELSE InBucket(t, key)
  <2>1. SlotFor(key, cap) \in 0 .. cap - 1
    BY SlotIsOne
  <2>2. CASE SlotFor(key, cap) = h
    <3>1. Bucket(t2, key) = b
      BY Zenon, <1>1, <1>3, <2>2
    <3> QED BY Zenon, <2>2, <3>1 DEF InBucket
  <2>3. CASE SlotFor(key, cap) # h
    <3>1. Bucket(t2, key) = Bucket(t, key)
      BY Zenon, <1>1, <1>3, <2>1, <2>3
    <3> QED BY Zenon, <2>3, <3>1 DEF InBucket
  <2> QED BY <2>2, <2>3
<1> QED BY <1>6, <1>7 DEF OnlySlot

\* A table after an insertion: the entry is refused, or the last of its key.
Refused(t, t2) ==
    t2.ht_size = t.ht_size /\ \A key \in ChainKeys : InBucket(t2, key) = InBucket(t, key)

Taken(t, t2, e) ==
    /\ t2.ht_size = t.ht_size + 1
    /\ \A key \in ChainKeys :
         InBucket(t2, key) = IF e.key = key THEN Append(InBucket(t, key), e) ELSE InBucket(t, key)

LEMMA BucketStays ==
    ASSUME NEW cap \in Nat \ {0}, NEW t, IsTable(t, cap), NEW t2 \in HTObject(cap),
           \A g \in 0 .. cap - 1 : In(t2, g) = In(t, g), t2.ht_size = t.ht_size
    PROVE  IsTable(t2, cap) /\ Refused(t, t2)
<1> PICK b : b = In(t, 0)
  OBVIOUS
<1>1. 0 \in 0 .. cap - 1 /\ 0 \in Int /\ t.ht_size \in Nat
  BY DEF IsTable, HTObject
<1>2. HasSlots(t, cap) /\ InPlace(t, cap)
  BY TableHasSlots DEF IsTable
<1>3. b \in Seq(HashTableEntry) /\ \A n \in 1 .. Len(b) : SlotFor(b[n].key, cap) = 0
  BY <1>1, <1>2 DEF HasSlots, InPlace
<1>4. Changed(t, t2, cap, 0, b)
  BY <1>1 DEF Changed
<1>5. Len(b) = Len(In(t, 0)) + 0 /\ t2.ht_size = t.ht_size + 0
  BY <1>1, <1>3
<1>6. IsTable(t2, cap)
  BY <1>1, <1>3, <1>4, <1>5, ChangedIsTable
<1>7. ASSUME NEW key \in ChainKeys PROVE InBucket(t2, key) = InBucket(t, key)
  <2>1. SlotFor(key, cap) \in 0 .. cap - 1
    BY SlotIsOne
  <2>2. In(t2, SlotFor(key, cap)) = In(t, SlotFor(key, cap))
    BY <2>1
  <2>3. t \in HTObject(cap)
    BY DEF IsTable
  <2>4. Bucket(t, key) = In(t, SlotFor(key, cap)) /\ Bucket(t2, key) = In(t2, SlotFor(key, cap))
    BY Zenon, <2>3, TableHasSlots
  <2>5. Bucket(t2, key) = Bucket(t, key)
    BY Zenon, <2>2, <2>4
  <2> QED BY Zenon, <2>5 DEF InBucket
<1> QED BY <1>6, <1>7 DEF Refused

\* The slot of an insertion: grown, with the pointers of the entry written, with the entry.
Written(slot) == [slot EXCEPT !.initialized = MaxOf(@, Len(slot.bucket) + 1)]

Filled(slot, e) == [Written(slot) EXCEPT !.bucket = Append(@, e)]

\* A slot with these entries.
SlotWith(slot, b) == slot \in HashTableSlot /\ slot.bucket = b

LEMMA GrownIsSlot ==
    ASSUME NEW s \in HashTableSlot
    PROVE  SlotWith(Grown(s), s.bucket)
<1> PICK b : b = s.bucket
  OBVIOUS
<1>1. SlotWith(Grown(s), b)
  BY DEF HashTableSlot, Grown, SlotWith
<1> QED BY <1>1

LEMMA SlotsAre ==
    ASSUME NEW b, NEW e \in HashTableEntry, NEW slot, SlotWith(slot, b)
    PROVE  SlotWith(Written(slot), b) /\ SlotWith(Filled(slot, e), Append(b, e))
<1>1. slot \in HashTableSlot /\ slot.bucket = b
  BY DEF SlotWith
<1>2. Len(slot.bucket) + 1 \in Nat
  BY <1>1 DEF HashTableSlot
<1> PICK w : w = Written(slot)
  OBVIOUS
<1>3. w \in HashTableSlot /\ w.bucket = b
  BY <1>1, <1>2 DEF HashTableSlot, MaxOf, Written
<1>4. w.bucket \in Seq(HashTableEntry)
  BY <1>3 DEF HashTableSlot
<1>5. Append(w.bucket, e) \in Seq(HashTableEntry)
  BY <1>4, AppendProperties
<1>6. Filled(slot, e) = [w EXCEPT !.bucket = Append(@, e)]
  BY Zenon DEF Filled
<1>7. Filled(slot, e) \in HashTableSlot /\ Filled(slot, e).bucket = Append(w.bucket, e)
  BY <1>3, <1>5, <1>6 DEF HashTableSlot
<1> QED BY Zenon, <1>3, <1>7 DEF SlotWith

\* The table after an insertion: as it was, with its slot grown or written, or with the entry.
OneOf(t2, t, h, e, slot) ==
    \/ t2 = t
    \/ t2 = WithSlot(t, h, slot)
    \/ t2 = WithSlot(t, h, Written(slot))
    \/ t2 = Sized(WithSlot(t, h, Filled(slot, e)), t.ht_size + 1)

LEMMA InsertIsOneOf ==
    ASSUME NEW cap \in Nat \ {0}, NEW t \in HTObject(cap), NEW e, NEW outcome,
           NEW h, h = SlotFor(e.key, cap)
    PROVE  OneOf(InsertHashTableEntry(t, e, outcome), t, h, e, Grown(t.ht[h]))
<1>1. t.ht_size \in Nat /\ t.ht_cap = cap
  BY DEF HTObject
<1>2. ChainHash[e.key] % t.ht_cap = h
  BY Zenon, <1>1 DEF SlotFor
<1>3. \A x : [t EXCEPT !.ht[h] = x, !.ht_size = @ + 1]
               = Sized(WithSlot(t, h, x), t.ht_size + 1)
  BY DEF Sized, WithSlot
<1> DEFINE slot == Grown(t.ht[h])
<1>4. \/ InsertHashTableEntry(t, e, outcome) = t
      \/ InsertHashTableEntry(t, e, outcome) = [t EXCEPT !.ht[h] = slot]
      \/ InsertHashTableEntry(t, e, outcome) = [t EXCEPT !.ht[h] = Written(slot)]
      \/ InsertHashTableEntry(t, e, outcome)
           = [t EXCEPT !.ht[h] = Filled(slot, e), !.ht_size = @ + 1]
  <2>1. t.ht_size >= t.ht_cap \/ t.ht_size < t.ht_cap
    BY <1>1
  <2>2. ~(t.ht_size >= t.ht_cap /\ t.ht_size < t.ht_cap)
    BY <1>1
  <2>3. CASE t.ht_size >= t.ht_cap
    BY Zenon, <1>2, <2>2, <2>3 DEF InsertHashTableEntry
  <2>4. CASE t.ht_size < t.ht_cap /\ outcome = "realloc"
    BY Zenon, <1>2, <2>2, <2>4 DEF InsertHashTableEntry
  <2>5. CASE t.ht_size < t.ht_cap /\ outcome = "key_data"
    BY Zenon, <1>2, <2>2, <2>5 DEF InsertHashTableEntry
  <2>6. CASE t.ht_size < t.ht_cap /\ outcome = "val_data"
    BY Zenon, <1>2, <2>2, <2>6 DEF InsertHashTableEntry, Written
  <2>7. CASE t.ht_size < t.ht_cap /\ outcome \notin {"realloc", "key_data", "val_data"}
    BY Zenon, <1>2, <2>2, <2>7 DEF InsertHashTableEntry, Filled, Written
  <2> HIDE DEF slot
  <2> QED BY Zenon, <2>1, <2>3, <2>4, <2>5, <2>6, <2>7
<1> QED BY Zenon, <1>3, <1>4 DEF WithSlot, OneOf

\* OfAppend, as one fact.
OfGrows(q, e, key) ==
    Of(Append(q, e), key) = IF e.key = key THEN Append(Of(q, key), e) ELSE Of(q, key)

LEMMA OfAppended ==
    ASSUME NEW q \in Seq(HashTableEntry), NEW e \in HashTableEntry, NEW key
    PROVE  OfGrows(q, e, key)
BY OfAppend DEF OfGrows

\* The entry at the end of its slot is the last of its key.
LEMMA AppendIsTaken ==
    ASSUME NEW cap \in Nat \ {0}, NEW t, IsTable(t, cap), NEW e \in HashTableEntry,
           NEW h \in 0 .. cap - 1, SlotFor(e.key, cap) = h, NEW q, q = In(t, h),
           NEW t2, Changed(t, t2, cap, h, Append(q, e)), t2.ht_size = t.ht_size + 1
    PROVE  IsTable(t2, cap) /\ Taken(t, t2, e)
<1>1. q \in Seq(HashTableEntry) /\ \A n \in 1 .. Len(q) : SlotFor(q[n].key, cap) = h
  <2>1. HasSlots(t, cap) /\ InPlace(t, cap)
    BY TableHasSlots DEF IsTable
  <2> QED BY <2>1 DEF HasSlots, InPlace
<1> PICK b : b = Append(q, e)
  OBVIOUS
<1>2. q \in Seq(HashTableEntry)
  BY Zenon, <1>1
<1>3. /\ b \in Seq(HashTableEntry) /\ Len(b) = Len(q) + 1
      /\ b[Len(q) + 1] = e /\ \A n \in 1 .. Len(q) : b[n] = q[n]
  BY <1>2, AppendProperties
<1>4. ASSUME NEW n \in 1 .. Len(b) PROVE SlotFor(b[n].key, cap) = h
  <2>1. n \in 1 .. Len(q) \/ n = Len(q) + 1
    BY <1>2, <1>3
  <2>2. CASE n \in 1 .. Len(q)
    <3>1. b[n] = q[n] /\ SlotFor(q[n].key, cap) = h
      BY Zenon, <1>1, <1>3, <2>2
    <3> QED BY Zenon, <3>1
  <2>3. CASE n = Len(q) + 1
    <3>1. b[n] = e
      BY Zenon, <1>3, <2>3
    <3> QED BY Zenon, <3>1
  <2> QED BY Zenon, <2>1, <2>2, <2>3
<1>5. IsTable(t2, cap) /\ OnlySlot(t, t2, cap, h, b)
  <2>1. 1 \in Int
    OBVIOUS
  <2>2. Changed(t, t2, cap, h, b) /\ Len(b) = Len(In(t, h)) + 1 /\ b \in Seq(HashTableEntry)
    BY Zenon, <1>3
  <2> QED BY Zenon, <1>4, <2>1, <2>2, ChangedIsTable
<1>6. ASSUME NEW key \in ChainKeys
      PROVE  InBucket(t2, key) = IF e.key = key THEN Append(InBucket(t, key), e) ELSE InBucket(t, key)
  <2>1. CASE SlotFor(key, cap) = h
    <3>1. InBucket(t, key) = Of(q, key)
      <4>1. t \in HTObject(cap)
        BY DEF IsTable
      <4>2. Bucket(t, key) = In(t, SlotFor(key, cap))
        BY Zenon, <4>1, TableHasSlots
      <4> QED BY Zenon, <2>1, <4>2 DEF InBucket
    <3>2. Of(Append(q, e), key) = IF e.key = key THEN Append(Of(q, key), e) ELSE Of(q, key)
      <4>1. OfGrows(q, e, key)
        BY Zenon, <1>2, OfAppended
      <4> QED BY Zenon, <4>1 DEF OfGrows
    <3>3. InBucket(t2, key) = Of(b, key)
      BY Zenon, <1>5, <2>1 DEF OnlySlot
    <3> QED BY Zenon, <3>1, <3>2, <3>3
  <2>2. CASE SlotFor(key, cap) # h
    BY Zenon, <1>5, <2>2 DEF OnlySlot
  <2> QED BY <2>1, <2>2
<1> QED BY Zenon, <1>5, <1>6 DEF Taken

LEMMA InsertKeepsTable ==
    ASSUME NEW cap \in Nat \ {0}, NEW t, IsTable(t, cap), NEW e \in HashTableEntry, NEW outcome
    PROVE  /\ IsTable(InsertHashTableEntry(t, e, outcome), cap)
           /\ \/ Refused(t, InsertHashTableEntry(t, e, outcome))
              \/ Taken(t, InsertHashTableEntry(t, e, outcome), e)
<1> PICK t2 : t2 = InsertHashTableEntry(t, e, outcome)
  OBVIOUS
<1> PICK h : h = SlotFor(e.key, cap)
  OBVIOUS
<1> PICK slot : slot = Grown(t.ht[h])
  OBVIOUS
<1>1. h \in 0 .. cap - 1 /\ t \in HTObject(cap)
  BY SlotIsOne DEF HashTableEntry, IsTable
<1>2. t.ht_size + 1 \in Nat /\ t.ht[h] \in HashTableSlot /\ t.ht[h].bucket = In(t, h)
  BY <1>1 DEF HTObject, In
<1>3. OneOf(t2, t, h, e, slot)
  BY Zenon, <1>1, InsertIsOneOf
<1>4. /\ SlotWith(slot, In(t, h)) /\ SlotWith(Written(slot), In(t, h))
      /\ SlotWith(Filled(slot, e), Append(In(t, h), e))
  <2>1. SlotWith(slot, In(t, h))
    BY Zenon, <1>2, GrownIsSlot
  <2> QED BY Zenon, <2>1, SlotsAre
<1>5. ASSUME NEW s \in HashTableSlot
      PROVE  /\ Changed(t, WithSlot(t, h, s), cap, h, s.bucket)
             /\ WithSlot(t, h, s).ht_size = t.ht_size
  BY Zenon, <1>1, SlotReplaced
<1>6. CASE t2 = t
  <2>1. Refused(t, t2)
    BY Zenon, <1>6 DEF Refused
  <2> QED BY Zenon, <1>6, <2>1
<1>7. ASSUME NEW s, SlotWith(s, In(t, h)), t2 = WithSlot(t, h, s)
      PROVE  IsTable(t2, cap) /\ Refused(t, t2)
  <2>1. Changed(t, t2, cap, h, In(t, h)) /\ t2.ht_size = t.ht_size
    BY Zenon, <1>5, <1>7 DEF SlotWith
  <2>2. t2 \in HTObject(cap) /\ \A g \in 0 .. cap - 1 : In(t2, g) = In(t, g)
    BY Zenon, <2>1 DEF Changed
  <2> QED BY Zenon, <2>1, <2>2, BucketStays
<1>8. CASE t2 = Sized(WithSlot(t, h, Filled(slot, e)), t.ht_size + 1)
  <2>1. Changed(t, WithSlot(t, h, Filled(slot, e)), cap, h, Append(In(t, h), e))
    BY Zenon, <1>4, <1>5 DEF SlotWith
  <2>2. Changed(t, t2, cap, h, Append(In(t, h), e)) /\ t2.ht_size = t.ht_size + 1
    <3>1. ChangedTo(t, t2, cap, h, Append(In(t, h), e), t.ht_size + 1)
      BY Zenon, <1>2, <1>8, <2>1, SizeReplaced
    <3> QED BY Zenon, <3>1 DEF ChangedTo
  <2> QED BY Zenon, <1>1, <2>2, AppendIsTaken
<1> QED BY Zenon, <1>3, <1>4, <1>6, <1>7, <1>8 DEF OneOf

\* The tables of a resize, one for each entry passed.
Copied(old, cap, table) ==
    /\ table[0] = NewTable(cap)
    /\ \A n \in 0 .. Len(old) : IsTable(table[n], cap)
    /\ \A n \in 1 .. Len(old) : Refused(table[n - 1], table[n]) \/ Taken(table[n - 1], table[n], old[n])

LEMMA CopiesAre ==
    ASSUME NEW cap \in Nat \ {0}, NEW old \in Seq(HashTableEntry), NEW outcomes
    PROVE  Copied(old, cap, CopyUpTo(old, cap, outcomes))
<1> PICK L \in Nat : L = Len(old)
  OBVIOUS
<1> PICK S : S = {t \in HTObject(cap) : IsTable(t, cap)}
  OBVIOUS
<1> DEFINE step == [n \in 1 .. L |-> [x \in S |-> Reinserted(x, old[n], outcomes[n])]]
           Passed(f) == [n \in 0 .. L |-> IF n = 0 THEN NewTable(cap)
                                        ELSE Reinserted(f[n - 1], old[n], outcomes[n])]
<1>1. \A n \in 1 .. L : old[n] \in HashTableEntry
  OBVIOUS
<1>2. \A t : t \in S <=> IsTable(t, cap)
  BY Zenon DEF IsTable
<1>3. ASSUME NEW x \in S, NEW n \in 1 .. L
      PROVE  /\ IsTable(Reinserted(x, old[n], outcomes[n]), cap)
             /\ \/ Refused(x, Reinserted(x, old[n], outcomes[n]))
                \/ Taken(x, Reinserted(x, old[n], outcomes[n]), old[n])
  <2>1. IsTable(x, cap) /\ old[n] \in HashTableEntry
    BY Zenon, <1>1, <1>2
  <2> PICK o : o = IF May(x, old[n], outcomes[n]) THEN outcomes[n] ELSE "ok"
    OBVIOUS
  <2>2. /\ IsTable(InsertHashTableEntry(x, old[n], o), cap)
        /\ \/ Refused(x, InsertHashTableEntry(x, old[n], o))
           \/ Taken(x, InsertHashTableEntry(x, old[n], o), old[n])
    BY Zenon, <2>1, InsertKeepsTable
  <2> QED BY Zenon, <2>2 DEF Reinserted
<1>4. Turns(step, L, S) /\ NewTable(cap) \in S
  <2>1. NewTable(cap) \in S
    BY <1>2, NewIsTable
  <2>2. ASSUME NEW n \in 1 .. L, NEW x \in S PROVE step[n][x] \in S
    <3>1. Reinserted(x, old[n], outcomes[n]) \in S
      BY Zenon, <1>2, <1>3
    <3> QED BY Zenon, <3>1
  <2> QED BY <2>1, <2>2 DEF Turns
<1>5. ASSUME NEW f, Loop(f, L, NewTable(cap), step)
      PROVE  f = Passed(f)
  <2>1. /\ \A n \in 0 .. L : f[n] \in S
        /\ f[0] = NewTable(cap)
        /\ \A n \in 1 .. L : f[n] = step[n][f[n - 1]]
    <3> HIDE DEF step
    <3>1. \A n \in 0 .. L : f[n] \in S
      BY <1>4, <1>5, LoopStays
    <3> QED BY <1>5, <3>1, LoopTurns
  <2>2. ASSUME NEW n \in 0 .. L
        PROVE  f[n] = IF n = 0 THEN NewTable(cap) ELSE Reinserted(f[n - 1], old[n], outcomes[n])
    <3>1. CASE n = 0
      BY Zenon, <2>1, <3>1
    <3>2. CASE n # 0
      <4>1. n \in 1 .. L /\ n - 1 \in 0 .. L
        BY <3>2
      <4>2. f[n] = step[n][f[n - 1]] /\ f[n - 1] \in S
        BY <2>1, <4>1
      <4>3. step[n][f[n - 1]] = Reinserted(f[n - 1], old[n], outcomes[n])
        BY Zenon, <4>1, <4>2
      <4> HIDE DEF step
      <4> QED BY Zenon, <3>2, <4>2, <4>3
    <3> QED BY <3>1, <3>2
  <2>3. f = [n \in 0 .. L |-> f[n]]
    BY <1>5 DEF Loop
  <2> QED BY <2>2, <2>3
<1>6. \E s1 : s1 = Passed(s1)
  <2>1. \E f : Loop(f, L, NewTable(cap), step)
    <3> HIDE DEF step
    <3> QED BY <1>4, LoopComputes
  <2> HIDE DEF Passed
  <2> QED BY <1>5, <2>1
<1> PICK m : m = CopyUpTo(old, cap, outcomes)
  OBVIOUS
<1>7. m = Passed(m)
  <2>1. m = CHOOSE f : f = Passed(f)
    BY DEF CopyUpTo
  <2> HIDE DEF Passed
  <2> QED BY <1>6, <2>1
<1>8. /\ m[0] = NewTable(cap)
      /\ \A n \in 1 .. L : m[n] = Reinserted(m[n - 1], old[n], outcomes[n])
  <2>1. \A n \in 0 .. L : m[n] = IF n = 0 THEN NewTable(cap)
                                 ELSE Reinserted(m[n - 1], old[n], outcomes[n])
    BY Zenon, <1>7
  <2>2. 0 \in 0 .. L /\ \A n \in 1 .. L : n \in 0 .. L /\ n # 0
    OBVIOUS
  <2> QED BY Zenon, <2>1, <2>2
<1>9. \A n \in 0 .. L : m[n] \in S
  <2> DEFINE B == {n \in 0 .. L : m[n] \in S}
  <2>1. 0 \in B
    <3>1. m[0] \in S /\ 0 \in 0 .. L
      BY <1>4, <1>8
    <3> QED BY Zenon, <3>1
  <2>2. ASSUME NEW n \in 1 .. L, n - 1 \in B PROVE n \in B
    <3>1. m[n - 1] \in S /\ n \in 0 .. L
      BY <2>2
    <3>2. m[n] \in S
      BY Zenon, <1>2, <1>3, <1>8, <3>1
    <3> QED BY Zenon, <3>1, <3>2
  <2>3. 0 .. L \subseteq B
    <3> HIDE DEF B
    <3> QED BY <2>1, <2>2, Reaches
  <2> QED BY <2>3
<1>10. ASSUME NEW n \in 1 .. L
       PROVE  Refused(m[n - 1], m[n]) \/ Taken(m[n - 1], m[n], old[n])
  <2>1. n - 1 \in 0 .. L
    OBVIOUS
  <2>2. m[n - 1] \in S
    BY Zenon, <1>9, <2>1
  <2> QED BY Zenon, <1>3, <1>8, <2>2
<1>11. \A n \in 0 .. L : IsTable(m[n], cap)
  BY Zenon, <1>2, <1>9
<1> QED BY Zenon, <1>8, <1>10, <1>11 DEF Copied

\* A resize that loses no entry leaves those of every key in their order.
LEMMA CopyKeepsAll ==
    ASSUME NEW cap \in Nat \ {0}, NEW old \in Seq(HashTableEntry), NEW table,
           Copied(old, cap, table)
    PROVE  /\ IsTable(table[Len(old)], cap) /\ table[Len(old)].ht_size <= Len(old)
           /\ table[Len(old)].ht_size = Len(old) =>
                \A key \in ChainKeys : InBucket(table[Len(old)], key) = Of(old, key)
<1> PICK L \in Nat : L = Len(old)
  OBVIOUS
<1> DEFINE All(n) == \A key \in ChainKeys : InBucket(table[n], key) = OfUpTo(old, key)[n]
           B == {n \in 0 .. L : table[n].ht_size <= n /\ (table[n].ht_size = n => All(n))}
<1>1. ASSUME NEW n \in 0 .. L PROVE table[n].ht_size \in Nat /\ IsTable(table[n], cap)
  BY DEF Copied, IsTable, HTObject
<1>2. ASSUME NEW key \in ChainKeys
      PROVE  /\ OfUpTo(old, key)[0] = <<>> /\ Of(old, key) = OfUpTo(old, key)[L]
             /\ \A n \in 1 .. L :
                  /\ old[n].key = key => OfUpTo(old, key)[n] = Append(OfUpTo(old, key)[n - 1], old[n])
                  /\ old[n].key # key => OfUpTo(old, key)[n] = OfUpTo(old, key)[n - 1]
  BY OfFacts DEF Mine
<1>3. 0 \in B
  <2>1. table[0] = NewTable(cap)
    BY Zenon DEF Copied
  <2>2. table[0].ht_size = 0 /\ \A key \in ChainKeys : InBucket(table[0], key) = <<>>
    BY <2>1, NewIsTable
  <2>3. All(0)
    BY Zenon, <1>2, <2>2
  <2> HIDE DEF All
  <2> QED BY <2>2, <2>3
<1>4. ASSUME NEW n \in 1 .. L, n - 1 \in B PROVE n \in B
  <2>1. n - 1 \in 0 .. L /\ n \in 0 .. L
    OBVIOUS
  <2>2. table[n - 1].ht_size <= n - 1 /\ (table[n - 1].ht_size = n - 1 => All(n - 1))
    BY <1>4
  <2>3. table[n - 1].ht_size \in Nat /\ table[n].ht_size \in Nat
    BY <1>1, <2>1
  <2>4. CASE Refused(table[n - 1], table[n])
    <3>1. table[n].ht_size = table[n - 1].ht_size
      BY <2>4 DEF Refused
    <3>2. table[n].ht_size <= n /\ table[n].ht_size # n
      BY <2>1, <2>2, <2>3, <3>1
    <3> HIDE DEF All
    <3> QED BY <2>1, <3>2
  <2>5. CASE Taken(table[n - 1], table[n], old[n])
    <3>1. table[n].ht_size = table[n - 1].ht_size + 1
      BY <2>5 DEF Taken
    <3>2. ASSUME All(n - 1) PROVE All(n)
      <4>1. ASSUME NEW key \in ChainKeys PROVE InBucket(table[n], key) = OfUpTo(old, key)[n]
        <5>1. InBucket(table[n], key) = IF old[n].key = key THEN Append(InBucket(table[n - 1], key), old[n])
                                        ELSE InBucket(table[n - 1], key)
          BY Zenon, <2>5 DEF Taken
        <5>2. InBucket(table[n - 1], key) = OfUpTo(old, key)[n - 1]
          BY Zenon, <3>2
        <5>3. CASE old[n].key = key
          BY Zenon, <1>2, <5>1, <5>2, <5>3
        <5>4. CASE old[n].key # key
          BY Zenon, <1>2, <5>1, <5>2, <5>4
        <5> QED BY <5>3, <5>4
      <4> QED BY Zenon, <4>1
    <3> HIDE DEF All
    <3>3. table[n].ht_size <= n /\ (table[n].ht_size = n => table[n - 1].ht_size = n - 1)
      BY <2>2, <2>3, <3>1
    <3> QED BY <2>1, <2>2, <3>2, <3>3
  <2> QED BY <2>4, <2>5 DEF Copied
<1>5. 0 .. L \subseteq B
  <2> HIDE DEF B
  <2> QED BY <1>3, <1>4, Reaches
<1>6. L \in 0 .. L
  OBVIOUS
<1>7. table[L].ht_size <= L /\ (table[L].ht_size = L => All(L))
  <2> HIDE DEF All
  <2> QED BY <1>5, <1>6
<1>8. All(L) => \A key \in ChainKeys : InBucket(table[L], key) = Of(old, key)
  BY Zenon, <1>2
<1> HIDE DEF All
<1> QED BY <1>1, <1>6, <1>7, <1>8
\* One entry of a key is gone, the oldest.
Gone(t, t2, key) ==
    /\ t2.ht_size = t.ht_size - 1
    /\ \E e : Begins(InBucket(t, key), e, InBucket(t2, key))
    /\ \A k \in ChainKeys : k # key => InBucket(t2, k) = InBucket(t, k)

LEMMA OneIsCounted ==
    ASSUME NEW cap \in Nat \ {0}, NEW t, IsTable(t, cap), NEW h \in 0 .. cap - 1, NEW b,
           Len(b) = Len(In(t, h)) - 1, NEW t1, Changed(t, t1, cap, h, b)
    PROVE  t.ht_size - 1 \in Nat
<1> PICK d \in Int : d = -1
  OBVIOUS
<1>1. t \in HTObject(cap) /\ t.ht_size = Len(EntriesOf(t)) /\ t.ht_size \in Nat
  BY DEF IsTable, HTObject
<1>2. t1 \in HTObject(cap) /\ In(t1, h) = b /\ \A g \in 0 .. cap - 1 : g # h => In(t1, g) = In(t, g)
  BY Zenon DEF Changed
<1>3. HasSlots(t, cap) /\ HasSlots(t1, cap)
  BY <1>1, <1>2, TableHasSlots
<1>4. Len(In(t1, h)) = Len(In(t, h)) + d
  <2>1. In(t, h) \in Seq(HashTableEntry)
    BY <1>3 DEF HasSlots
  <2> QED BY <1>2, <2>1
<1>5. Len(EntriesOf(t1)) = Len(EntriesOf(t)) + d
  BY <1>2, <1>3, <1>4, SlotChanges
<1>6. Len(EntriesOf(t1)) \in Nat
  <2>1. Listed(t1, cap, EntriesUpTo(t1)) /\ EntriesOf(t1) = EntriesUpTo(t1)[cap]
    BY <1>3, EntriesAre
  <2>2. EntriesOf(t1) \in Seq(HashTableEntry)
    BY <2>1 DEF Listed
  <2> QED BY <2>2
<1> QED BY <1>1, <1>5, <1>6

LEMMA DeleteKeepsTable ==
    ASSUME NEW cap \in Nat \ {0}, NEW t, IsTable(t, cap), NEW key \in ChainKeys,
           NEW h, h = SlotFor(key, cap), NEW p, IsFirst(In(t, h), key, p),
           NEW t2, t2 = [t EXCEPT !.ht[h].bucket = Without(@, p), !.ht_size = @ - 1]
    PROVE  IsTable(t2, cap) /\ Gone(t, t2, key)
<1> PICK q : q = In(t, h)
  OBVIOUS
<1> PICK b : b = RemoveAt(q, p)
  OBVIOUS
<1>0. h \in 0 .. cap - 1 /\ t \in HTObject(cap) /\ t.ht_size = Len(EntriesOf(t))
  BY SlotIsOne DEF IsTable
<1>1. HasSlots(t, cap) /\ InPlace(t, cap) /\ t.ht[h] \in HashTableSlot /\ t.ht_size \in Nat
  BY <1>0, TableHasSlots DEF IsTable, HTObject
<1>2. q \in Seq(HashTableEntry) /\ \A n \in 1 .. Len(q) : SlotFor(q[n].key, cap) = h
  BY <1>0, <1>1 DEF HasSlots, InPlace
<1>3. TakenOut(q, key, p, b)
  BY <1>2, TakeOut
<1>4. /\ b \in Seq(HashTableEntry) /\ Len(b) = Len(q) - 1
      /\ \A n \in 1 .. Len(b) : SlotFor(b[n].key, cap) = h
  <2>1. /\ b \in Seq(HashTableEntry) /\ Len(b) = Len(q) - 1
        /\ \A n \in 1 .. Len(b) : \E x \in 1 .. Len(q) : b[n] = q[x]
    BY Zenon, <1>3 DEF TakenOut
  <2>2. ASSUME NEW n \in 1 .. Len(b) PROVE SlotFor(b[n].key, cap) = h
    <3>1. PICK x \in 1 .. Len(q) : b[n] = q[x]
      BY Zenon, <2>1
    <3> QED BY Zenon, <1>2, <3>1
  <2> QED BY Zenon, <2>1, <2>2
<1> PICK slot : slot = [t.ht[h] EXCEPT !.bucket = b]
  OBVIOUS
<1>5. slot \in HashTableSlot /\ slot.bucket = b
  BY <1>1, <1>4 DEF HashTableSlot
<1>6. Changed(t, WithSlot(t, h, slot), cap, h, b)
  <2>1. Changed(t, WithSlot(t, h, slot), cap, h, slot.bucket)
    BY <1>0, <1>5, SlotReplaced
  <2> QED BY Zenon, <1>5, <2>1
<1>7. -1 \in Int /\ Len(b) = Len(In(t, h)) + (-1) /\ t.ht_size + (-1) = t.ht_size - 1
  BY <1>1, <1>2, <1>4
<1>8. t.ht_size - 1 \in Nat
  BY Zenon, <1>0, <1>4, <1>6, OneIsCounted
<1>9. t2 = Sized(WithSlot(t, h, slot), t.ht_size - 1)
  <2>1. Without(t.ht[h].bucket, p) = b
    BY DEF Without, In
  <2>2. \A x, y : [[t EXCEPT !.ht[h] = x] EXCEPT !.ht_size = y] = [t EXCEPT !.ht[h] = x, !.ht_size = y]
    OBVIOUS
  <2>3. t2 = [t EXCEPT !.ht[h] = [t.ht[h] EXCEPT !.bucket = Without(t.ht[h].bucket, p)],
                       !.ht_size = t.ht_size - 1]
    OBVIOUS
  <2> QED BY Zenon, <2>1, <2>2, <2>3 DEF Sized, WithSlot
<1>10. ChangedTo(t, t2, cap, h, b, t.ht_size - 1)
  <2>1. ChangedTo(t, Sized(WithSlot(t, h, slot), t.ht_size - 1), cap, h, b, t.ht_size - 1)
    BY Zenon, <1>6, <1>8, SizeReplaced
  <2> QED BY Zenon, <1>9, <2>1
<1>11. Changed(t, t2, cap, h, b) /\ t2.ht_size = t.ht_size - 1
  BY Zenon, <1>10 DEF ChangedTo
<1>12. IsTable(t2, cap) /\ OnlySlot(t, t2, cap, h, b)
  <2>1. t2.ht_size = t.ht_size + (-1)
    BY Zenon, <1>7, <1>11
  <2> QED BY Zenon, <1>0, <1>4, <1>7, <1>11, <2>1, ChangedIsTable
<1>13. ASSUME NEW k \in ChainKeys
       PROVE  /\ SlotFor(k, cap) = h => InBucket(t2, k) = Of(b, k) /\ InBucket(t, k) = Of(q, k)
              /\ SlotFor(k, cap) # h => InBucket(t2, k) = InBucket(t, k)
  <2>1. Bucket(t, k) = In(t, SlotFor(k, cap))
    BY <1>0, TableHasSlots
  <2> QED BY Zenon, <1>12, <2>1 DEF OnlySlot, InBucket
<1>14. Begins(InBucket(t, key), q[p], InBucket(t2, key))
  BY Zenon, <1>3, <1>13 DEF TakenOut
<1>15. ASSUME NEW k \in ChainKeys, k # key PROVE InBucket(t2, k) = InBucket(t, k)
  <2>1. Of(b, k) = Of(q, k)
    BY Zenon, <1>3, <1>15 DEF TakenOut
  <2> QED BY Zenon, <1>13, <2>1
<1> QED BY Zenon, <1>11, <1>12, <1>14, <1>15 DEF Gone

\* The value of a key is that of its oldest entry.
LEMMA GetIsOldest ==
    ASSUME NEW cap \in Nat \ {0}, NEW t, IsTable(t, cap), NEW key \in ChainKeys
    PROVE  GetHashTableEntry(t, key)
             = IF InBucket(t, key) = <<>> THEN NIL ELSE InBucket(t, key)[1].val
<1> PICK b : b = Bucket(t, key)
  OBVIOUS
<1> PICK p : p = FirstOf(b, key)
  OBVIOUS
<1>1. b \in Seq(HashTableEntry)
  BY TableHasSlots, SlotIsOne DEF IsTable, HasSlots
<1>2. FirstOrNone(b, key, p)
  BY <1>1, FirstIs
<1>3. GetHashTableEntry(t, key) = IF p = 0 THEN NIL ELSE b[p].val
  BY Zenon DEF GetHashTableEntry, FirstOf
<1>4. CASE p = 0 /\ \A n \in 1 .. Len(b) : b[n].key # key
  <2>1. Of(b, key) = <<>>
    BY <1>1, <1>4, OfNone
  <2> QED BY Zenon, <1>3, <1>4, <2>1 DEF InBucket
<1>5. CASE IsFirst(b, key, p)
  <2>1. p # 0
    BY <1>5 DEF IsFirst
  <2>2. TakenOut(b, key, p, RemoveAt(b, p))
    BY <1>1, <1>5, TakeOut
  <2>3. Of(b, key) # <<>> /\ Of(b, key)[1] = b[p]
    BY Zenon, <2>2 DEF TakenOut, Begins
  <2> QED BY Zenon, <1>3, <2>1, <2>3 DEF InBucket
<1> QED BY Zenon, <1>2, <1>4, <1>5 DEF FirstOrNone

-----------------------------------------------------------------------------
(* The chained table. *)

\* The table holds, for each key, the entries inserted and not deleted, in their order.
Agrees(t, l) ==
    t.ht_size = Len(l) /\ \A key \in ChainKeys : InBucket(t, key) = Of(l, key)

ChainInv ==
    /\ (ht_obj = NIL /\ log = <<>>) \/ \E cap \in ChainCaps : IsTable(ht_obj, cap)
    /\ log \in Seq(HashTableEntry)
    /\ (ht_obj # NIL /\ ~lost) => Agrees(ht_obj, log)

LEMMA TableIsNotNil ==
    ASSUME NEW cap \in ChainCaps, NEW t, IsTable(t, cap)
    PROVE  t # NIL /\ cap \in Nat \ {0}
BY ChainAssumption, NilAssumption DEF IsTable

LEMMA ChainInitInv == ChainInit => ChainInv
<1>1. <<>> \in Seq(HashTableEntry)
  OBVIOUS
<1> QED BY <1>1 DEF ChainInit, ChainInv

\* A log without one entry, or as it was when the entry is not in it.
LEMMA LogShrinks ==
    ASSUME NEW l \in Seq(HashTableEntry), NEW key, NEW l2,
           l2 = RemoveAt(l, FirstOf(l, key))
    PROVE  /\ l2 \in Seq(HashTableEntry)
           /\ Of(l, key) # <<>> =>
                \E p : TakenOut(l, key, p, l2)
<1> PICK p : p = FirstOf(l, key)
  OBVIOUS
<1>1. FirstOrNone(l, key, p)
  BY FirstIs
<1>2. CASE p = 0 /\ \A n \in 1 .. Len(l) : l[n].key # key
  <2>1. Of(l, key) = <<>>
    BY <1>2, OfNone
  <2> PICK a : a = SubSeq(l, 1, p - 1)
    OBVIOUS
  <2> PICK b : b = SubSeq(l, p + 1, Len(l))
    OBVIOUS
  <2>2. a \in Seq(HashTableEntry) /\ b \in Seq(HashTableEntry)
    <3>1. \A n \in 1 .. p - 1 : l[n] \in HashTableEntry
      BY <1>2
    <3>2. \A n \in p + 1 .. Len(l) : l[n] \in HashTableEntry
      BY <1>2
    <3>3. p - 1 \in Int /\ p + 1 \in Int /\ Len(l) \in Int /\ 1 \in Int
      BY <1>2
    <3> QED BY <3>1, <3>2, <3>3, SubSeqProperties
  <2>3. a \o b \in Seq(HashTableEntry)
    BY <2>2, ConcatProperties
  <2>4. l2 = a \o b
    BY Zenon DEF RemoveAt
  <2> QED BY Zenon, <2>1, <2>3, <2>4
<1>3. CASE IsFirst(l, key, p)
  <2>1. TakenOut(l, key, p, l2)
    BY <1>3, TakeOut
  <2>2. l2 \in Seq(HashTableEntry)
    BY Zenon, <2>1 DEF TakenOut
  <2> QED BY Zenon, <2>1, <2>2
<1> QED BY Zenon, <1>1, <1>2, <1>3 DEF FirstOrNone

LEMMA ChainNextInv ==
    ASSUME ChainInv, [ChainNext]_chainVars
    PROVE  ChainInv'
<1>1. log \in Seq(HashTableEntry)
  BY DEF ChainInv
<1>2. ASSUME ht_obj # NIL
      PROVE  /\ \E cap \in ChainCaps : IsTable(ht_obj, cap)
             /\ ~lost => Agrees(ht_obj, log)
  BY Zenon, <1>2 DEF ChainInv
<1>3. ASSUME NEW cap \in ChainCaps, NewHashTableObject(cap) PROVE ChainInv'
  <2>1. /\ ht_obj = NIL /\ ht_obj' = NewTable(cap) /\ log' = log /\ cap \in Nat \ {0}
    BY <1>3, ChainAssumption DEF NewHashTableObject
  <2>2. /\ IsTable(ht_obj', cap) /\ ht_obj'.ht_size = 0
        /\ \A key \in ChainKeys : InBucket(ht_obj', key) = <<>>
    BY <2>1, NewIsTable
  <2>3. log = <<>>
    BY Zenon, <2>1, TableIsNotNil DEF ChainInv
  <2>4. Len(<<>>) = 0 /\ \A key : Of(<<>>, key) = <<>>
    <3>1. \A n \in 1 .. Len(log) : FALSE
      BY <2>3
    <3>2. \A key : Of(log, key) = <<>>
      BY <1>1, <3>1, OfNone
    <3>3. Len(<<>>) = 0
      OBVIOUS
    <3> QED BY Zenon, <2>3, <3>2, <3>3
  <2>5. Agrees(ht_obj', log')
    BY Zenon, <2>1, <2>2, <2>3, <2>4 DEF Agrees
  <2>6. log' \in Seq(HashTableEntry)
    BY Zenon, <1>1, <2>1
  <2> QED BY Zenon, <2>2, <2>5, <2>6 DEF ChainInv
<1>4. ASSUME NEW key \in ChainKeys, NEW val \in ChainVals, NEW outcome \in Outcomes,
             Insert(key, val, outcome)
      PROVE  ChainInv'
  <2> PICK e : e = Entry(key, val)
    OBVIOUS
  <2>1. /\ ht_obj # NIL /\ ht_obj' = InsertHashTableEntry(ht_obj, e, outcome) /\ lost' = lost
        /\ log' = IF ht_obj'.ht_size > ht_obj.ht_size THEN Append(log, e) ELSE log
    BY Zenon, <1>4 DEF Insert
  <2>2. PICK cap \in ChainCaps : IsTable(ht_obj, cap)
    BY Zenon, <1>2, <2>1
  <2>3. cap \in Nat \ {0} /\ e \in HashTableEntry
    BY <2>2, TableIsNotNil DEF Entry, HashTableEntry
  <2>4. IsTable(ht_obj', cap) /\ (Refused(ht_obj, ht_obj') \/ Taken(ht_obj, ht_obj', e))
    <3>1. /\ IsTable(InsertHashTableEntry(ht_obj, e, outcome), cap)
          /\ \/ Refused(ht_obj, InsertHashTableEntry(ht_obj, e, outcome))
             \/ Taken(ht_obj, InsertHashTableEntry(ht_obj, e, outcome), e)
      BY Zenon, <2>2, <2>3, InsertKeepsTable
    <3> QED BY Zenon, <2>1, <3>1
  <2>5. ht_obj.ht_size \in Nat
    BY <2>2 DEF IsTable, HTObject
  <2>6. CASE Refused(ht_obj, ht_obj')
    <3>1. log' = log
      <4>1. ~(ht_obj'.ht_size > ht_obj.ht_size)
        BY <2>5, <2>6 DEF Refused
      <4> QED BY Zenon, <2>1, <4>1
    <3>2. Agrees(ht_obj, log) => Agrees(ht_obj', log')
      BY Zenon, <2>6, <3>1 DEF Refused, Agrees
    <3>3. log' \in Seq(HashTableEntry)
      BY Zenon, <1>1, <3>1
    <3> QED BY Zenon, <1>2, <2>1, <2>4, <3>2, <3>3 DEF ChainInv
  <2>7. CASE Taken(ht_obj, ht_obj', e)
    <3>1. log' = Append(log, e)
      <4>1. ht_obj'.ht_size > ht_obj.ht_size
        BY <2>5, <2>7 DEF Taken
      <4> QED BY Zenon, <2>1, <4>1
    <3>2. Append(log, e) \in Seq(HashTableEntry) /\ Len(Append(log, e)) = Len(log) + 1
      BY <1>1, <2>3, AppendProperties
    <3>3. ASSUME Agrees(ht_obj, log) PROVE Agrees(ht_obj', log')
      <4>1. ASSUME NEW k \in ChainKeys PROVE InBucket(ht_obj', k) = Of(log', k)
        <5>1. Of(Append(log, e), k) = IF e.key = k THEN Append(Of(log, k), e) ELSE Of(log, k)
          BY <1>1, <2>3, OfAppend
        <5>2. InBucket(ht_obj', k) = IF e.key = k THEN Append(InBucket(ht_obj, k), e)
                                     ELSE InBucket(ht_obj, k)
          BY Zenon, <2>7 DEF Taken
        <5>3. InBucket(ht_obj, k) = Of(log, k)
          BY Zenon, <3>3 DEF Agrees
        <5> QED BY Zenon, <3>1, <5>1, <5>2, <5>3
      <4>2. ht_obj'.ht_size = Len(log')
        BY Zenon, <2>7, <3>1, <3>2, <3>3 DEF Taken, Agrees
      <4> QED BY Zenon, <4>1, <4>2 DEF Agrees
    <3>4. log' \in Seq(HashTableEntry)
      BY Zenon, <3>1, <3>2
    <3> QED BY Zenon, <1>2, <2>1, <2>4, <3>3, <3>4 DEF ChainInv
  <2> QED BY Zenon, <2>4, <2>6, <2>7
<1>5. ASSUME NEW key \in ChainKeys, DeleteHashTableEntry(key) PROVE ChainInv'
  <2>1. PICK cap \in ChainCaps : IsTable(ht_obj, cap)
    BY Zenon, <1>2, <1>5 DEF DeleteHashTableEntry
  <2> PICK h : h = SlotFor(key, cap)
    OBVIOUS
  <2> PICK p : p = FirstOf(In(ht_obj, h), key)
    OBVIOUS
  <2>2. cap \in Nat \ {0} /\ ht_obj.ht_cap = cap /\ h \in 0 .. cap - 1
    BY <2>1, TableIsNotNil, SlotIsOne DEF IsTable, HTObject
  <2>3. /\ p # 0 /\ lost' = lost
        /\ ht_obj' = [ht_obj EXCEPT !.ht[h].bucket = Without(@, p), !.ht_size = @ - 1]
        /\ log' = RemoveAt(log, FirstOf(log, key))
    BY Zenon, <1>5, <2>2 DEF DeleteHashTableEntry, SlotFor, In, FirstOf
  <2>4. In(ht_obj, h) \in Seq(HashTableEntry)
    BY <2>1, <2>2, TableHasSlots DEF IsTable, HasSlots
  <2>5. IsFirst(In(ht_obj, h), key, p)
    <3>1. FirstOrNone(In(ht_obj, h), key, p)
      BY <2>4, FirstIs
    <3> QED BY Zenon, <2>3, <3>1 DEF FirstOrNone
  <2>6. IsTable(ht_obj', cap) /\ Gone(ht_obj, ht_obj', key)
    BY <2>1, <2>2, <2>3, <2>5, DeleteKeepsTable
  <2>7. /\ log' \in Seq(HashTableEntry)
        /\ Of(log, key) # <<>> => \E x : TakenOut(log, key, x, log')
    BY <1>1, <2>3, LogShrinks
  <2>8. ASSUME Agrees(ht_obj, log) PROVE Agrees(ht_obj', log')
    <3>1. PICK e : Begins(InBucket(ht_obj, key), e, InBucket(ht_obj', key))
      BY Zenon, <2>6 DEF Gone
    <3>2. InBucket(ht_obj, key) = Of(log, key) /\ Of(log, key) # <<>>
      BY Zenon, <2>8, <3>1 DEF Agrees, Begins
    <3>3. PICK x : TakenOut(log, key, x, log')
      BY Zenon, <2>7, <3>2
    <3>4. InBucket(ht_obj', key) = Of(log', key)
      BY Zenon, <3>1, <3>2, <3>3 DEF TakenOut, Begins
    <3>5. ASSUME NEW k \in ChainKeys, k # key PROVE InBucket(ht_obj', k) = Of(log', k)
      BY Zenon, <2>6, <2>8, <3>3, <3>5 DEF Gone, Agrees, TakenOut
    <3>6. ht_obj'.ht_size = Len(log')
      BY Zenon, <2>6, <2>8, <3>3 DEF Gone, Agrees, TakenOut
    <3> QED BY Zenon, <3>4, <3>5, <3>6 DEF Agrees
  <2>9. ht_obj # NIL
    BY Zenon, <1>5 DEF DeleteHashTableEntry
  <2> QED BY Zenon, <1>2, <2>3, <2>6, <2>7, <2>8, <2>9 DEF ChainInv
<1>6. ASSUME DestroyTable PROVE ChainInv'
  <2>1. ht_obj' = NIL /\ log' = <<>>
    BY Zenon, <1>6 DEF DestroyTable, Destroyed
  <2>2. <<>> \in Seq(HashTableEntry)
    OBVIOUS
  <2> QED BY Zenon, <2>1, <2>2 DEF ChainInv
<1>7. ASSUME NEW new_cap \in ChainCaps, NEW outcomes, ResizeHashTable(new_cap, outcomes)
      PROVE  ChainInv'
  <2> PICK old : old = EntriesOf(ht_obj)
    OBVIOUS
  <2> PICK table : table = CopyUpTo(old, new_cap, outcomes)
    OBVIOUS
  <2>1. /\ ht_obj # NIL /\ ht_obj' = table[Len(old)] /\ log' = log
        /\ lost' = (lost \/ ht_obj'.ht_size < ht_obj.ht_size)
    BY Zenon, <1>7 DEF ResizeHashTable, Destroyed
  <2>2. PICK cap \in ChainCaps : IsTable(ht_obj, cap)
    BY Zenon, <1>2, <2>1
  <2>3. cap \in Nat \ {0} /\ new_cap \in Nat \ {0}
    BY ChainAssumption
  <2>4. /\ old \in Seq(HashTableEntry) /\ ht_obj.ht_size = Len(old)
        /\ \A key \in ChainKeys : Of(old, key) = InBucket(ht_obj, key)
    <3>1. HasSlots(ht_obj, cap)
      BY <2>2, <2>3, TableHasSlots DEF IsTable
    <3>2. Listed(ht_obj, cap, EntriesUpTo(ht_obj)) /\ old = EntriesUpTo(ht_obj)[cap]
      BY <2>3, <3>1, EntriesAre
    <3>3. old \in Seq(HashTableEntry)
      BY <2>3, <3>2 DEF Listed
    <3>4. ht_obj.ht_size = Len(old)
      BY Zenon, <2>2 DEF IsTable
    <3>5. \A key \in ChainKeys : Of(old, key) = InBucket(ht_obj, key)
      BY Zenon, <2>2, <2>3, EntriesOfKey
    <3> QED BY Zenon, <3>3, <3>4, <3>5
  <2>5. Copied(old, new_cap, table)
    BY <2>3, <2>4, CopiesAre
  <2>6. /\ IsTable(ht_obj', new_cap) /\ ht_obj'.ht_size <= Len(old)
        /\ ht_obj'.ht_size = Len(old) => \A key \in ChainKeys : InBucket(ht_obj', key) = Of(old, key)
    <3>1. /\ IsTable(table[Len(old)], new_cap) /\ table[Len(old)].ht_size <= Len(old)
          /\ table[Len(old)].ht_size = Len(old) =>
               \A key \in ChainKeys : InBucket(table[Len(old)], key) = Of(old, key)
      BY Zenon, <2>3, <2>4, <2>5, CopyKeepsAll
    <3> QED BY Zenon, <2>1, <3>1
  <2>7. ASSUME ~lost' PROVE Agrees(ht_obj', log')
    <3>1. ~lost /\ ~(ht_obj'.ht_size < ht_obj.ht_size)
      BY Zenon, <2>1, <2>7
    <3>2. ht_obj'.ht_size \in Nat /\ Len(old) \in Nat
      BY <2>4, <2>6 DEF IsTable, HTObject
    <3>3. ht_obj'.ht_size = Len(old)
      BY <2>4, <2>6, <3>1, <3>2
    <3>4. Agrees(ht_obj, log)
      BY Zenon, <1>2, <2>1, <3>1
    <3> QED BY Zenon, <2>1, <2>4, <2>6, <3>3, <3>4 DEF Agrees
  <2>8. log' \in Seq(HashTableEntry)
    BY Zenon, <1>1, <2>1
  <2> QED BY Zenon, <2>6, <2>7, <2>8 DEF ChainInv
<1>8. CASE UNCHANGED chainVars
  BY Zenon, <1>8 DEF chainVars, ChainInv
<1> QED BY Zenon, <1>3, <1>4, <1>5, <1>6, <1>7, <1>8 DEF ChainNext

\* The chained table (hash_table_lib.c 91-146, 185-218, 75-88): every entry is in the
\* slot of its hash and counted, and until a resize loses one, each key has in its
\* bucket what was inserted and not deleted, in that order.
THEOREM ChainInvariant == ChainSpec => []ChainInv
<1>1. ChainInit => ChainInv
  BY ChainInitInv
<1>2. ChainInv /\ [ChainNext]_chainVars => ChainInv'
  BY ChainNextInv
<1> QED BY <1>1, <1>2, PTL DEF ChainSpec

\* HASH_TABLE_LIB_GetHashTableEntry answers with the oldest value of a key that was not
\* deleted, after any deletions and after any resize that lost no entry, whatever the
\* hash, the capacities and the keys (hash_table_lib.c 149-175).
THEOREM OldestValueIsGot == ChainSpec => []GetsOldestValue
<1>1. ASSUME ChainInv PROVE GetsOldestValue
  <2>1. ASSUME ht_obj # NIL, ~lost
        PROVE  /\ ht_obj.ht_size = Len(log)
               /\ \A key \in ChainKeys :
                    /\ Of(EntriesOf(ht_obj), key) = Of(log, key)
                    /\ GetHashTableEntry(ht_obj, key)
                         = IF Of(log, key) = <<>> THEN NIL ELSE Of(log, key)[1].val
    <3>1. PICK cap \in ChainCaps : IsTable(ht_obj, cap)
      BY Zenon, <1>1, <2>1 DEF ChainInv
    <3>2. cap \in Nat \ {0}
      BY ChainAssumption
    <3>3. Agrees(ht_obj, log)
      BY Zenon, <1>1, <2>1 DEF ChainInv
    <3>4. ASSUME NEW key \in ChainKeys
          PROVE  /\ Of(EntriesOf(ht_obj), key) = Of(log, key)
                 /\ GetHashTableEntry(ht_obj, key)
                      = IF Of(log, key) = <<>> THEN NIL ELSE Of(log, key)[1].val
      <4>1. InBucket(ht_obj, key) = Of(log, key)
        BY Zenon, <3>3 DEF Agrees
      <4>2. Of(EntriesOf(ht_obj), key) = InBucket(ht_obj, key)
        BY Zenon, <3>1, <3>2, EntriesOfKey
      <4>3. GetHashTableEntry(ht_obj, key)
              = IF InBucket(ht_obj, key) = <<>> THEN NIL ELSE InBucket(ht_obj, key)[1].val
        BY Zenon, <3>1, <3>2, GetIsOldest
      <4> QED BY Zenon, <4>1, <4>2, <4>3
    <3> QED BY Zenon, <3>3, <3>4 DEF Agrees
  <2> QED BY Zenon, <2>1 DEF GetsOldestValue
<1> QED BY <1>1, ChainInvariant, PTL

-----------------------------------------------------------------------------
(* The arena. *)

USE ArenaAssumption, NullAssumption

-----------------------------------------------------------------------------
(* Rounding down to a multiple. *)

\* The multiple of a at or below x.
LEMMA RoundedDown ==
    ASSUME NEW x \in Nat, NEW a \in Nat \ {0}
    PROVE  /\ x - (x % a) \in Nat
           /\ x - (x % a) <= x
           /\ x < x - (x % a) + a
           /\ (x - (x % a)) % a = 0
<1>1. x % a \in 0 .. a - 1
  OBVIOUS
<1>2. x = a * (x \div a) + (x % a) /\ x \div a \in Nat
  OBVIOUS
<1>3. \A q \in Nat : (a * q) % a = 0
  OBVIOUS
<1> QED BY SMTT(60), <1>1, <1>2, <1>3

(* An allocation whose sums do not wrap begins at the bump pointer or behind it, *)
(* aligned, and ends where the bump pointer moves.                               *)
LEMMA NoWrap ==
    ASSUME arena \in Arena, arena.mem_align \in Aligns, NEW len \in ObjSizes, ~Wraps(len)
    PROVE  /\ OffAligned \in Nat
           /\ arena.mem_cur <= OffAligned
           /\ OffAligned % arena.mem_align = 0
           /\ (OffAligned + len) % WORD = OffAligned + len
<1> DEFINE a   == arena.mem_align
           cur == arena.mem_cur
           sum == cur + a - 1
<1>1. a \in Nat \ {0} /\ cur \in Nat /\ len \in Nat /\ WORD \in Nat \ {0}
  BY DEF Arena
<1>2. sum \in Nat /\ sum < WORD /\ ~(OffAligned + len >= WORD)
  BY <1>1 DEF Wraps
<1>3. sum % WORD = sum
  <2> HIDE DEF sum
  <2> QED BY <1>1, <1>2
<1>4. OffAligned = sum - (sum % a)
  BY <1>3 DEF OffAligned
<1>5. OffAligned \in Nat /\ sum < OffAligned + a /\ OffAligned % a = 0
  <2> HIDE DEF sum, a
  <2> QED BY <1>1, <1>2, <1>4, RoundedDown
<1>6. cur <= OffAligned
  BY <1>1, <1>5
<1>7. (OffAligned + len) % WORD = OffAligned + len
  <2> HIDE DEF sum, a
  <2> QED BY <1>1, <1>2, <1>5
<1> QED BY <1>5, <1>6, <1>7

-----------------------------------------------------------------------------
(* The steps. *)

\* The invariant holds at first.
LEMMA InitArena == ArenaInit => ArenaIInv
BY DEF ArenaInit, ArenaIInv, ArenaType

(* create: an empty arena. *)
LEMMA CreateArena ==
    ASSUME ArenaIInv, NEW size \in ArenaSizes, NEW align \in Aligns,
           mem_arena_create_aligned(size, align)
    PROVE  ArenaIInv'
BY DEF mem_arena_create_aligned, ArenaIInv, ArenaType, Arena, Cleared

(* An allocation: the new object begins behind the old ones. *)
LEMMA AllocArena ==
    ASSUME ArenaIInv, NEW id \in TLVIDs, NEW len \in ObjSizes,
           TLVDataObject_init_arena_alloc(id, len)
    PROVE  ArenaIInv'
<1> DEFINE off == OffAligned
           new == [id |-> id, off |-> off, len |-> len]
<1>1. /\ arena # NULL /\ arena \in Arena /\ arena.mem_align \in Aligns
      /\ arena.mem_cur < WORD /\ arena.mem_end < WORD
      /\ DOMAIN mem = 0 .. arena.mem_end - 1
      /\ Fits(len)
  BY DEF TLVDataObject_init_arena_alloc, ArenaIInv, ArenaType
<1>2. /\ arena' = [arena EXCEPT !.mem_cur = (off + len) % WORD, !.mem_alloc_cnt = @ + 1]
      /\ mem' = [b \in DOMAIN mem |-> IF b \in off .. off + len - 1 THEN id ELSE mem[b]]
      /\ tlvs' = tlvs \cup {new}
      /\ wrapped' = (wrapped \/ Wraps(len))
  BY DEF TLVDataObject_init_arena_alloc
<1>3. off \in Int /\ len \in Nat /\ (off + len) % WORD \in 0 .. WORD - 1
  <2>1. arena.mem_cur \in Nat /\ arena.mem_align \in Nat \ {0} /\ len \in Nat
    BY <1>1 DEF Arena
  <2>2. off \in Int
    BY <2>1 DEF OffAligned
  <2> HIDE DEF off
  <2> QED BY <2>1, <2>2
<1> HIDE DEF off
<1>4. /\ arena' \in Arena /\ arena'.mem_cur = (off + len) % WORD
      /\ arena'.mem_align = arena.mem_align /\ arena'.mem_end = arena.mem_end
  <2> DEFINE cur == (off + len) % WORD
  <2>1. cur \in Nat
    BY <1>3
  <2>2. arena' = [[arena EXCEPT !.mem_cur = cur] EXCEPT !.mem_alloc_cnt = arena.mem_alloc_cnt + 1]
    BY <1>2
  <2> HIDE DEF cur
  <2>3. /\ arena.mem_align \in Nat /\ arena.mem_end \in Nat /\ arena.mem_alloc_cnt \in Nat
        /\ arena = [mem_align |-> arena.mem_align, mem_cur |-> arena.mem_cur,
                    mem_end |-> arena.mem_end, mem_alloc_cnt |-> arena.mem_alloc_cnt]
    BY <1>1 DEF Arena
  <2>4. arena' = [mem_align |-> arena.mem_align, mem_cur |-> cur,
                  mem_end |-> arena.mem_end, mem_alloc_cnt |-> arena.mem_alloc_cnt + 1]
    BY <2>2, <2>3
  <2>5. arena.mem_alloc_cnt + 1 \in Nat
    BY <2>3
  <2>6. /\ arena' \in Arena /\ arena'.mem_cur = cur
        /\ arena'.mem_align = arena.mem_align /\ arena'.mem_end = arena.mem_end
    BY <2>1, <2>3, <2>4, <2>5 DEF Arena
  <2> QED BY <2>6 DEF cur
<1>5. ArenaType'
  BY <1>1, <1>2, <1>3, <1>4 DEF ArenaType
<1>6. arena' # NULL
  BY <1>4
<1>7. ASSUME ~wrapped', NEW o \in tlvs' PROVE Intact(o)'
  <2>1. ~wrapped /\ ~Wraps(len)
    BY <1>2, <1>7
  <2>2. /\ off \in Nat /\ arena.mem_cur <= off /\ off % arena.mem_align = 0
        /\ (off + len) % WORD = off + len
        /\ off + len <= arena.mem_end
    BY <1>1, <2>1, NoWrap DEF Fits, off
  <2>3. CASE o = new
    <3>1. ASSUME NEW b \in off .. off + len - 1 PROVE b \in DOMAIN mem' /\ mem'[b] = id
      <4>1. b \in 0 .. arena.mem_end - 1
        BY SMTT(60), <1>1, <1>3, <2>2 DEF Arena
      <4> QED BY <1>1, <1>2, <4>1
    <3>2. o.off = off /\ o.len = len /\ o.id = id
      BY <2>3
    <3>3. arena'.mem_cur = off + len /\ off % arena'.mem_align = 0
      BY <1>4, <2>2
    <3> QED BY <1>3, <2>2, <3>1, <3>2, <3>3 DEF Intact
  <2>4. CASE o \in tlvs
    <3>1. Intact(o)
      BY <2>1, <2>4 DEF ArenaIInv
    <3>2. ASSUME NEW b \in o.off .. o.off + o.len - 1
          PROVE  b \in DOMAIN mem' /\ mem'[b] = o.id
      <4>1. b \in DOMAIN mem /\ mem[b] = o.id
        BY <3>1 DEF Intact
      <4>2. b < off
        <5>1. o.off \in Nat /\ o.len \in Nat /\ o.off + o.len <= arena.mem_cur
          BY <3>1 DEF Intact
        <5>2. arena.mem_cur \in Nat /\ arena.mem_cur <= off
          BY <1>1, <2>2 DEF Arena
        <5> QED BY <1>3, <5>1, <5>2
      <4> QED BY <1>2, <1>3, <4>1, <4>2
    <3>3. o.off + o.len <= arena'.mem_cur
      <4>1. arena.mem_cur \in Nat /\ o.off \in Nat /\ o.len \in Nat
        BY <1>1, <3>1 DEF Intact, Arena
      <4>2. arena'.mem_cur = off + len
        BY <1>4, <2>2
      <4> QED BY <1>3, <2>2, <3>1, <4>1, <4>2 DEF Intact
    <3> QED BY <1>4, <3>1, <3>2, <3>3 DEF Intact
  <2> QED BY <1>2, <2>3, <2>4
<1> QED BY <1>5, <1>6, <1>7 DEF ArenaIInv

(* reset: nothing is given out. *)
LEMMA ResetArena ==
    ASSUME ArenaIInv, mem_arena_reset
    PROVE  ArenaIInv'
<1>1. /\ arena # NULL /\ arena \in Arena
      /\ arena' = [arena EXCEPT !.mem_cur = 0, !.mem_alloc_cnt = 0]
      /\ mem' = Cleared(arena.mem_end) /\ tlvs' = {}
  BY DEF mem_arena_reset, ArenaIInv, ArenaType
<1>2. /\ arena' \in Arena /\ arena'.mem_cur = 0
      /\ arena'.mem_align = arena.mem_align /\ arena'.mem_end = arena.mem_end
  BY <1>1 DEF Arena
<1>3. ArenaType'
  BY <1>1, <1>2 DEF ArenaType, ArenaIInv, Cleared
<1> QED BY <1>1, <1>2, <1>3 DEF ArenaIInv

(* Growing and shrinking: the objects that fit keep their bytes. *)
LEMMA ResizeArena ==
    ASSUME ArenaIInv, NEW size \in ArenaSizes, mem_arena_heap_resize(size)
    PROVE  ArenaIInv'
<1>1. /\ arena # NULL /\ arena \in Arena
      /\ arena' \in Arena /\ arena'.mem_end = size
      /\ arena'.mem_cur = arena.mem_cur /\ arena'.mem_align = arena.mem_align
  BY SMTT(60) DEF mem_arena_heap_resize, ArenaIInv, ArenaType, Arena
<1>2. /\ mem' = [b \in 0 .. size - 1 |-> IF b \in DOMAIN mem THEN mem[b] ELSE NULL]
      /\ tlvs' = {o \in tlvs : o.off + o.len <= size}
      /\ wrapped' = wrapped
  BY DEF mem_arena_heap_resize
<1>3. ArenaType'
  BY <1>1, <1>2 DEF ArenaType, ArenaIInv
<1>4. ASSUME ~wrapped', NEW o \in tlvs' PROVE Intact(o)'
  <2>1. Intact(o) /\ o.off + o.len <= size
    BY <1>2, <1>4 DEF ArenaIInv
  <2>2. \A b \in o.off .. o.off + o.len - 1 : b \in DOMAIN mem' /\ mem'[b] = o.id
    BY <1>2, <2>1 DEF Intact
  <2> QED BY <1>1, <2>1, <2>2 DEF Intact
<1> QED BY <1>1, <1>3, <1>4 DEF ArenaIInv

(* destroy: no arena and no objects. *)
LEMMA DestroyArena ==
    ASSUME mem_arena_destroy
    PROVE  ArenaIInv'
BY DEF mem_arena_destroy, ArenaIInv, ArenaType

\* Every operation keeps the invariant.
LEMMA ArenaStep == ArenaIInv /\ [ArenaNext]_arenaVars => ArenaIInv'
<1> SUFFICES ASSUME ArenaIInv, [ArenaNext]_arenaVars PROVE ArenaIInv'
  OBVIOUS
<1>1. CASE UNCHANGED arenaVars
  BY <1>1 DEF arenaVars, ArenaIInv, ArenaType, Intact
<1>2. CASE ArenaNext
  BY <1>2, CreateArena, AllocArena, ResetArena, ResizeArena, DestroyArena DEF ArenaNext
<1> QED BY <1>1, <1>2

-----------------------------------------------------------------------------
(* The inductive invariant itself: as long as no 32-bit sum has wrapped, every *)
(* object lies below mem_cur, where the next allocation begins, aligned and    *)
(* with the bytes it was given (mem_arena_aligned.c 19-28, 30-40, 58-68).      *)
THEOREM ArenaInvariant == ArenaSpec => []ArenaIInv
BY InitArena, ArenaStep, PTL DEF ArenaSpec

(* Whatever is allocated, resized and reset in whatever order, the objects of  *)
(* the arena keep their bytes and their alignment until a 32-bit sum wraps     *)
(* (mem_arena_aligned.c 19-28, 58-68, tlv.c 5-23).                             *)
THEOREM ObjectsStayIntact == ArenaSpec => []ObjectsIntact
<1>1. ArenaIInv => ObjectsIntact
  BY DEF ArenaIInv, ObjectsIntact, Intact
<1> QED BY <1>1, InitArena, ArenaStep, PTL DEF ArenaSpec
=============================================================================
