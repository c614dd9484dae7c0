---------------------------- MODULE TxtTokProofs ----------------------------
(***************************************************************************)
(* What the tokenizer and the two strips compute for every line: the       *)
(* tokens that the loop marks lie between the separators of the line, and  *)
(* stripping leaves it from its first character that is no whitespace to   *)
(* its last.  The lemmas about loops and counting that the proofs of the   *)
(* tools share come first.                                                 *)
(***************************************************************************)
EXTENDS TxtTok, Integers, FiniteSetTheorems, SequenceTheorems, TLAPS

-----------------------------------------------------------------------------
(* Loops: numbers up to L, and what a loop of L steps computes. *)

\* The least and the greatest number of a finite set of numbers.
LEMMA LeastNumber ==
    ASSUME NEW S, S \subseteq Nat, S # {}
    PROVE  \E m \in S : \A x \in S : m <= x
<1> DEFINE R == OpToRel(<, Nat)
<1>1. PICK m \in S : \A x \in S : ~(<<x, m>> \in R)
  <2> HIDE DEF R
  <2>1. IsWellFoundedOn(R, Nat)
    BY NatLessThanWellFounded DEF R
  <2> QED BY <2>1, WFMin
<1>2. ASSUME NEW x \in S PROVE m <= x
  <2>1. m \in Nat /\ x \in Nat
    OBVIOUS
  <2>2. ~(x < m)
    BY <1>1, <2>1 DEF OpToRel
  <2> QED BY <2>1, <2>2
<1> QED BY <1>2

\* The greatest number of a bounded set is what Max returns.
LEMMA MaxIsGreatest ==
    ASSUME NEW L \in Nat, NEW S, S \subseteq 0 .. L, S # {}
    PROVE  Max(S) \in S /\ \A x \in S : x <= Max(S)
<1> DEFINE D == {d \in 0 .. L : L - d \in S}
<1>0. \A x \in S : x \in 0 .. L /\ L - x \in 0 .. L /\ L - (L - x) = x
  OBVIOUS
<1>1. D \subseteq Nat /\ D # {}
  <2>1. PICK x \in S : TRUE
    OBVIOUS
  <2>2. L - x \in D
    BY <1>0
  <2>3. D \subseteq Nat
    OBVIOUS
  <2> HIDE DEF D
  <2> QED BY <2>2, <2>3
<1>2. PICK m \in D : \A x \in D : m <= x
  <2> HIDE DEF D
  <2> QED BY <1>1, LeastNumber
<1>3. PICK y \in S : m = L - y
  BY <1>0
<1>4. ASSUME NEW x \in S PROVE x <= y
  <2>1. L - x \in D /\ x \in 0 .. L /\ y \in 0 .. L
    BY <1>0
  <2>2. L - y <= L - x
    BY <1>2, <1>3, <2>1
  <2> QED BY <2>1, <2>2
<1> QED BY <1>4 DEF Max

\* A set of numbers that holds 0, and n whenever it holds n - 1.
LEMMA Reaches ==
    ASSUME NEW L \in Nat, NEW B, 0 \in B, \A n \in 1 .. L : n - 1 \in B => n \in B
    PROVE  0 .. L \subseteq B
<1> PICK C : C = (0 .. L) \ B
  OBVIOUS
<1>1. SUFFICES ASSUME C # {} PROVE FALSE
  OBVIOUS
<1>2. C \subseteq Nat
  OBVIOUS
<1>3. PICK m \in C : \A x \in C : m <= x
  BY <1>1, <1>2, LeastNumber
<1>4. m \in 1 .. L /\ m - 1 \in 0 .. L /\ ~(m <= m - 1)
  <2>1. m \in 0 .. L /\ m # 0
    OBVIOUS
  <2> QED BY <2>1
<1>5. m - 1 \in B
  BY <1>3, <1>4
<1> QED BY <1>4, <1>5

\* A loop of L turns from base: step[n] is what its n-th turn does to an element of S.
Turns(step, L, S) == \A n \in 1 .. L, x \in S : step[n][x] \in S

Loop(f, L, base, step) == f = [n \in 0 .. L |-> IF n = 0 THEN base ELSE step[n][f[n - 1]]]

\* There is one f that such a loop computes, and it stays in S.
LEMMA LoopComputes ==
    ASSUME NEW L \in Nat, NEW S, NEW base \in S, NEW step, Turns(step, L, S)
    PROVE  \E f : Loop(f, L, base, step)
<1> DEFINE B == {m \in 0 .. L : \E f : Loop(f, m, base, step)}
<1>1. 0 \in B
  <2>1. Loop([n \in 0 .. 0 |-> base], 0, base, step)
    BY DEF Loop
  <2> QED BY <2>1
<1>2. ASSUME NEW m \in 1 .. L, m - 1 \in B
      PROVE  m \in B
  <2>1. PICK f : Loop(f, m - 1, base, step)
    BY <1>2
  <2> PICK g : g = [n \in 0 .. m |-> IF n = m THEN step[m][f[m - 1]] ELSE f[n]]
    OBVIOUS
  <2>2. \A n \in 0 .. m - 1 : g[n] = f[n]
    OBVIOUS
  <2>3. ASSUME NEW n \in 0 .. m
        PROVE  g[n] = IF n = 0 THEN base ELSE step[n][g[n - 1]]
    <3>1. CASE n = m
      <4>1. m - 1 \in 0 .. m - 1
        OBVIOUS
      <4> QED BY <2>2, <3>1, <4>1
    <3>2. CASE n # m
      <4>1. n \in 0 .. m - 1 /\ (n # 0 => n - 1 \in 0 .. m - 1)
        BY <3>2
      <4>2. f[n] = IF n = 0 THEN base ELSE step[n][f[n - 1]]
        BY <2>1, <4>1 DEF Loop
      <4> QED BY <2>2, <4>1, <4>2
    <3> QED BY <3>1, <3>2
  <2>4. g = [n \in 0 .. m |-> g[n]]
    OBVIOUS
  <2>5. Loop(g, m, base, step)
    BY <2>3, <2>4 DEF Loop
  <2> QED BY <2>5
<1>3. 0 .. L \subseteq B
  <2> HIDE DEF B
  <2> QED BY <1>1, <1>2, Reaches
<1>4. L \in B
  <2> HIDE DEF B
  <2> QED BY <1>3
<1> QED BY <1>4

\* What the loop is, turn by turn.
LEMMA LoopTurns ==
    ASSUME NEW L \in Nat, NEW base, NEW step, NEW f, Loop(f, L, base, step)
    PROVE  f[0] = base /\ \A n \in 1 .. L : f[n] = step[n][f[n - 1]]
BY DEF Loop

\* A loop stays in the set its turns stay in.
LEMMA LoopStays ==
    ASSUME NEW L \in Nat, NEW S, NEW base \in S, NEW step, Turns(step, L, S),
           NEW f, Loop(f, L, base, step)
    PROVE  \A n \in 0 .. L : f[n] \in S
<1> DEFINE B == {n \in 0 .. L : f[n] \in S}
<1>1. f[0] = base
  BY LoopTurns
<1>2. ASSUME NEW n \in 1 .. L PROVE f[n] = step[n][f[n - 1]]
  BY LoopTurns
<1>3. 0 \in B /\ \A n \in 1 .. L : n - 1 \in B => n \in B
  BY <1>1, <1>2 DEF Turns
<1>4. 0 .. L \subseteq B
  <2> HIDE DEF B
  <2> QED BY <1>3, Reaches
<1> QED BY <1>4

\* The least number of a set is what Min returns.
LEMMA MinIsLeast ==
    ASSUME NEW S, S \subseteq Nat, S # {}
    PROVE  Min(S) \in S /\ \A x \in S : Min(S) <= x
<1>1. \E m \in S : \A x \in S : m <= x
  BY LeastNumber
<1> QED BY <1>1 DEF Min

\* A turn of a loop is the start or comes after another.
LEMMA OneOrMore ==
    ASSUME NEW L \in Nat, NEW n \in 0 .. L
    PROVE  n = 0 \/ (n \in 1 .. L /\ n - 1 \in 0 .. L)
OBVIOUS

\* A part of a sequence.
LEMMA PartOf ==
    ASSUME NEW S, NEW s \in Seq(S), NEW m \in Nat \ {0}, NEW n \in Nat, n <= Len(s)
    PROVE  /\ SubSeq(s, m, n) \in Seq(S)
           /\ Len(SubSeq(s, m, n)) = IF m <= n THEN n - m + 1 ELSE 0
           /\ \A x \in 1 .. n - m + 1 : SubSeq(s, m, n)[x] = s[m + x - 1]
<1>1. \A x \in m .. n : s[x] \in S
  OBVIOUS
<1> QED BY <1>1, SubSeqProperties

LEMMA Appending ==
    ASSUME NEW S, NEW s \in Seq(S), NEW e \in S, NEW r, r = Append(s, e)
    PROVE  /\ r \in Seq(S) /\ Len(s) \in Nat /\ Len(r) = Len(s) + 1
           /\ DOMAIN s = 1 .. Len(s) /\ DOMAIN r = 1 .. Len(s) + 1
           /\ Len(s) + 1 \in DOMAIN r /\ r[Len(s) + 1] = e
           /\ \A x \in DOMAIN s : x \in DOMAIN r /\ r[x] = s[x]
           /\ \A x \in DOMAIN r : x \in DOMAIN s \/ x = Len(s) + 1
OBVIOUS

\* How many of the first n numbers are in S.
CountIn(S, n) == Cardinality({m \in 1 .. n : m \in S})

\* Counting one number more.
LEMMA CountStep ==
    ASSUME NEW n \in Nat, NEW S, S \subseteq Nat
    PROVE  /\ CountIn(S, 0) = 0
           /\ CountIn(S, n) \in Nat
           /\ CountIn(S, n) <= n
           /\ CountIn(S, n + 1) =
                 CountIn(S, n) + (IF n + 1 \in S THEN 1 ELSE 0)
<1> PICK A : A = {m \in 1 .. n : m \in S}
  OBVIOUS
<1> PICK C : C = {m \in 1 .. n + 1 : m \in S}
  OBVIOUS
<1>0. CountIn(S, n) = Cardinality(A) /\ CountIn(S, n + 1) = Cardinality(C)
  BY DEF CountIn
<1>1. IsFiniteSet(1 .. n) /\ Cardinality(1 .. n) = n
  BY FS_Interval
<1>2. A \subseteq 1 .. n
  OBVIOUS
<1>3. IsFiniteSet(A) /\ Cardinality(A) \in Nat /\ Cardinality(A) <= n
  BY <1>1, <1>2, FS_Subset, FS_CardinalityType
<1>4. CountIn(S, 0) = 0
  <2>1. {m \in 1 .. 0 : m \in S} = {} /\ Cardinality({}) = 0
    BY FS_EmptySet
  <2> QED BY <2>1 DEF CountIn
<1>5. \A m \in 1 .. n + 1 : m \in 1 .. n \/ m = n + 1
  OBVIOUS
<1>6. CASE n + 1 \in S
  <2>1. n + 1 \notin A /\ C = A \cup {n + 1}
    BY <1>5, <1>6
  <2>2. Cardinality(C) = Cardinality(A) + 1
    BY <1>3, <2>1, FS_AddElement
  <2> QED BY <1>0, <1>3, <1>4, <1>6, <2>2
<1>7. CASE n + 1 \notin S
  <2>1. C = A
    BY <1>5, <1>7
  <2> QED BY <1>0, <1>3, <1>4, <1>7, <2>1
<1> QED BY <1>6, <1>7

\* The count does not fall, and grows where a number is in the set.
LEMMA CountGrows ==
    ASSUME NEW S, S \subseteq Nat, NEW m \in Nat, NEW n \in Nat, m < n
    PROVE  /\ CountIn(S, m) <= CountIn(S, n)
           /\ n \in S => CountIn(S, m) < CountIn(S, n)
<1> DEFINE B == {x \in 0 .. n : m <= x => CountIn(S, m) <= CountIn(S, x)}
<1>0. \A x \in Nat : /\ CountIn(S, x) \in Nat
                      /\ CountIn(S, x + 1) = CountIn(S, x) + (IF x + 1 \in S THEN 1 ELSE 0)
  BY CountStep
<1>1. 0 \in B
  <2>1. m <= 0 => m = 0
    OBVIOUS
  <2> QED BY <1>0, <2>1
<1>2. ASSUME NEW x \in 1 .. n, x - 1 \in B PROVE x \in B
  <2>1. x - 1 \in Nat /\ (x - 1) + 1 = x
    OBVIOUS
  <2>2. CountIn(S, x - 1) <= CountIn(S, x) /\ CountIn(S, x) \in Nat /\ CountIn(S, x - 1) \in Nat
    BY <1>0, <2>1
  <2>3. CASE m <= x - 1
    <3>1. CountIn(S, m) <= CountIn(S, x - 1) /\ CountIn(S, m) \in Nat
      BY <1>0, <1>2, <2>3
    <3> QED BY <2>2, <3>1
  <2>4. CASE ~(m <= x - 1)
    <3>1. m <= x => m = x
      BY <2>4
    <3> QED BY <2>2, <3>1
  <2> QED BY <2>3, <2>4
<1>3. 0 .. n \subseteq B
  <2> HIDE DEF B
  <2> QED BY <1>1, <1>2, Reaches
<1>4. n - 1 \in Nat /\ n - 1 \in 0 .. n /\ n \in 0 .. n /\ m <= n - 1 /\ (n - 1) + 1 = n
  OBVIOUS
<1>5. CountIn(S, m) <= CountIn(S, n) /\ CountIn(S, m) <= CountIn(S, n - 1)
  BY <1>3, <1>4
<1>6. n \in S => CountIn(S, n) = CountIn(S, n - 1) + 1
  BY <1>0, <1>4
<1>7. CountIn(S, m) \in Nat /\ CountIn(S, n - 1) \in Nat /\ CountIn(S, n) \in Nat
  BY <1>0, <1>4
<1> QED BY <1>5, <1>6, <1>7

-----------------------------------------------------------------------------
(* Whitespace around a line. *)

Ink(line) == {n \in DOMAIN line : line[n] \notin Space}

\* lstrip moves to the first character that is not whitespace.
LEMMA LeadingOf ==
    ASSUME NEW line \in Seq(Char)
    PROVE  Leading(line) = IF Ink(line) = {} THEN Len(line) ELSE Min(Ink(line)) - 1
<1>1. {n \in 1 .. Len(line) : line[n] \notin Space} = Ink(line)
  BY DEF Ink
<1>2. ASSUME Ink(line) # {} PROVE Min(Ink(line)) \in 1 .. Len(line)
  <2>1. Ink(line) \subseteq 1 .. Len(line)
    BY DEF Ink
  <2>2. Ink(line) \subseteq Nat
    BY <2>1
  <2> QED BY <1>2, <2>1, <2>2, MinIsLeast
<1>3. Leading(line) = LET first == IF Ink(line) # {} THEN Min(Ink(line)) ELSE 0
                      IN  IF first = 0 THEN Len(line) ELSE first - 1
  BY <1>1 DEF Leading, SelectInSeq
<1> QED BY <1>2, <1>3

\* rstrip ends the line at the last character that is not whitespace.
LEMMA TrailingOf ==
    ASSUME NEW line \in Seq(Char)
    PROVE  rstrip(line) = SubSeq(line, 1, IF Ink(line) = {} THEN 0 ELSE Max(Ink(line)))
<1>1. {n \in 1 .. Len(line) : line[n] \notin Space} = Ink(line)
  BY DEF Ink
<1> QED BY <1>1 DEF rstrip, SelectLastInSeq

\* Where a line without whitespace around it begins and ends.
LEMMA InkEnds ==
    ASSUME NEW piece \in Seq(Char), Ink(piece) # {}
    PROVE  /\ Min(Ink(piece)) \in 1 .. Len(piece) /\ Max(Ink(piece)) \in 1 .. Len(piece)
           /\ Min(Ink(piece)) <= Max(Ink(piece))
           /\ Min(Ink(piece)) \in Ink(piece) /\ Max(Ink(piece)) \in Ink(piece)
           /\ \A x \in Ink(piece) : Min(Ink(piece)) <= x /\ x <= Max(Ink(piece))
<1>1. Ink(piece) \subseteq 1 .. Len(piece) /\ Len(piece) \in Nat
  BY DEF Ink
<1>2. Ink(piece) \subseteq Nat /\ Ink(piece) \subseteq 0 .. Len(piece)
  BY <1>1
<1>3. Min(Ink(piece)) \in Ink(piece) /\ \A x \in Ink(piece) : Min(Ink(piece)) <= x
  BY <1>2, MinIsLeast
<1>4. Max(Ink(piece)) \in Ink(piece) /\ \A x \in Ink(piece) : x <= Max(Ink(piece))
  BY <1>1, <1>2, MaxIsGreatest
<1> QED BY <1>1, <1>3, <1>4

\* A number that is the greatest of a set is Max of it.
LEMMA MaxIs ==
    ASSUME NEW L \in Nat, NEW S, S \subseteq 0 .. L, NEW m \in S, \A x \in S : x <= m
    PROVE  Max(S) = m
<1>1. Max(S) \in S /\ \A x \in S : x <= Max(S)
  BY MaxIsGreatest
<1>2. ASSUME NEW y \in S, \A x \in S : x <= y PROVE y = m
  <2>1. y <= m /\ m <= y
    BY <1>2
  <2>2. y \in Nat /\ m \in Nat
    OBVIOUS
  <2> QED BY <2>1, <2>2
<1> QED BY <1>1, <1>2, Zenon

\* The rest of a line from its first place a with ink, b being the last.
RestOf(piece, a, b, rest) ==
    /\ rest \in Seq(Char) /\ Len(rest) = Len(piece) - a + 1
    /\ \A x \in 1 .. Len(rest) : rest[x] = piece[a + x - 1]
    /\ Ink(rest) # {} /\ Max(Ink(rest)) = b - a + 1

\* Behind the leading whitespace the same characters are left, further to the front.
LEMMA InkOfRest ==
    ASSUME NEW piece \in Seq(Char), Ink(piece) # {}, NEW a, a = Min(Ink(piece)),
           NEW b, b = Max(Ink(piece)), NEW rest, rest = SubSeq(piece, a, Len(piece))
    PROVE  RestOf(piece, a, b, rest)
<1>1. /\ a \in 1 .. Len(piece) /\ b \in 1 .. Len(piece) /\ a <= b
      /\ b \in Ink(piece) /\ \A x \in Ink(piece) : x <= b
      /\ Len(piece) \in Nat
  BY InkEnds
<1>2. /\ rest \in Seq(Char) /\ Len(rest) = Len(piece) - a + 1
      /\ \A x \in 1 .. Len(piece) - a + 1 : rest[x] = piece[a + x - 1]
  BY <1>1, PartOf
<1>3. \A x \in 1 .. Len(rest) : rest[x] = piece[a + x - 1]
  BY <1>2
<1>4. \A x : x \in Ink(rest) <=> x \in 1 .. Len(rest) /\ rest[x] \notin Space
  BY <1>2 DEF Ink
<1>5. \A x : x \in Ink(piece) <=> x \in 1 .. Len(piece) /\ piece[x] \notin Space
  BY DEF Ink
<1>6. b - a + 1 \in Ink(rest)
  <2>1. b - a + 1 \in 1 .. Len(rest) /\ a + (b - a + 1) - 1 = b
    BY <1>1, <1>2
  <2>2. rest[b - a + 1] = piece[b]
    BY <1>3, <2>1
  <2> QED BY <1>1, <1>4, <1>5, <2>1, <2>2
<1>7. ASSUME NEW x \in Ink(rest) PROVE x <= b - a + 1
  <2>1. x \in 1 .. Len(rest) /\ piece[a + x - 1] \notin Space
    BY <1>3, <1>4
  <2>2. a + x - 1 \in 1 .. Len(piece)
    BY SMTT(60), <1>1, <1>2, <2>1
  <2>3. a + x - 1 <= b
    BY <1>1, <1>5, <2>1, <2>2
  <2> QED BY <1>1, <2>1, <2>3
<1>8. Ink(rest) \subseteq 0 .. Len(rest) /\ Len(rest) \in Nat
  BY <1>2, <1>4
<1>9. Max(Ink(rest)) = b - a + 1
  BY <1>6, <1>7, <1>8, MaxIs
<1> QED BY <1>2, <1>3, <1>6, <1>9 DEF RestOf

\* A part of a part is a part.
LEMMA PartOfRest ==
    ASSUME NEW piece \in Seq(Char), NEW a \in 1 .. Len(piece), NEW b \in a .. Len(piece),
           NEW rest \in Seq(Char), Len(rest) = Len(piece) - a + 1,
           \A x \in 1 .. Len(rest) : rest[x] = piece[a + x - 1]
    PROVE  SubSeq(rest, 1, b - a + 1) = SubSeq(piece, a, b)
<1>1. b - a + 1 \in Nat /\ b - a + 1 <= Len(rest) /\ 1 <= b - a + 1 /\ Len(piece) \in Nat
  OBVIOUS
<1> PICK u : u = SubSeq(rest, 1, b - a + 1)
  OBVIOUS
<1> PICK v : v = SubSeq(piece, a, b)
  OBVIOUS
<1>2. u \in Seq(Char) /\ Len(u) = b - a + 1 /\ \A x \in 1 .. b - a + 1 : u[x] = rest[x]
  <2>1. /\ u \in Seq(Char) /\ Len(u) = (b - a + 1) - 1 + 1
        /\ \A x \in 1 .. (b - a + 1) - 1 + 1 : u[x] = rest[1 + x - 1]
    BY <1>1, PartOf
  <2> QED BY <2>1
<1>3. /\ v \in Seq(Char) /\ Len(v) = b - a + 1
      /\ \A x \in 1 .. b - a + 1 : v[x] = piece[a + x - 1]
  <2>1. a \in Nat \ {0} /\ b \in Nat /\ b <= Len(piece) /\ a <= b
    OBVIOUS
  <2> QED BY SMTT(60), <2>1, PartOf
<1>4. \A x \in 1 .. Len(u) : u[x] = v[x]
  BY <1>1, <1>2, <1>3
<1> QED BY <1>2, <1>3, <1>4, SeqEqual

\* lstrip and rstrip leave the line from its first character that is no whitespace to
\* its last.
LEMMA StripsBoth ==
    ASSUME NEW piece \in Seq(Char)
    PROVE  rstrip(lstrip(piece)) = Stripped(piece)
<1>1. lstrip(piece) = SubSeq(piece, Leading(piece) + 1, Len(piece))
  BY DEF lstrip
<1>2. Stripped(piece) = IF Ink(piece) = {} THEN <<>>
                        ELSE SubSeq(piece, Min(Ink(piece)), Max(Ink(piece)))
  BY DEF Stripped, Ink
<1>3. CASE Ink(piece) = {}
  <2>1. Leading(piece) = Len(piece) /\ Len(piece) \in Nat
    BY <1>3, LeadingOf
  <2>2. SubSeq(piece, Len(piece) + 1, Len(piece)) = <<>>
    BY <2>1, SubSeqEmpty
  <2>3. Ink(<<>>) = {} /\ <<>> \in Seq(Char)
    BY DEF Ink
  <2>4. rstrip(<<>>) = SubSeq(<<>>, 1, 0)
    BY <2>3, TrailingOf
  <2>5. SubSeq(<<>>, 1, 0) = <<>>
    BY SubSeqEmpty
  <2> QED BY <1>1, <1>2, <1>3, <2>1, <2>2, <2>4, <2>5
<1>4. CASE Ink(piece) # {}
  <2> PICK a : a = Min(Ink(piece))
    OBVIOUS
  <2> PICK b : b = Max(Ink(piece))
    OBVIOUS
  <2> PICK rest : rest = SubSeq(piece, a, Len(piece))
    OBVIOUS
  <2>1. a \in 1 .. Len(piece) /\ b \in a .. Len(piece) /\ Len(piece) \in Nat
    BY <1>4, InkEnds
  <2>2. lstrip(piece) = rest
    <3>1. Leading(piece) = Min(Ink(piece)) - 1
      BY <1>4, LeadingOf
    <3>2. Leading(piece) + 1 = a
      BY <2>1, <3>1
    <3> QED BY <1>1, <3>2
  <2>3. /\ rest \in Seq(Char) /\ Len(rest) = Len(piece) - a + 1
        /\ \A x \in 1 .. Len(rest) : rest[x] = piece[a + x - 1]
        /\ Ink(rest) # {} /\ Max(Ink(rest)) = b - a + 1
    <3>1. RestOf(piece, a, b, rest)
      BY <1>4, InkOfRest
    <3> QED BY <3>1 DEF RestOf
  <2>4. rstrip(rest) = SubSeq(rest, 1, b - a + 1)
    BY <2>3, TrailingOf
  <2>5. SubSeq(rest, 1, b - a + 1) = SubSeq(piece, a, b)
    BY <2>1, <2>3, PartOfRest
  <2> QED BY <1>2, <1>4, <2>2, <2>4, <2>5
<1> QED BY <1>3, <1>4

\* A stripped line is a text, and lstrip moves by a number of characters.
LEMMA StrippedLine ==
    ASSUME NEW piece \in Seq(Char)
    PROVE  Stripped(piece) \in Seq(Char) /\ Leading(piece) \in Nat
<1>1. CASE Ink(piece) = {}
  <2>1. Stripped(piece) = <<>>
    BY <1>1 DEF Stripped, Ink
  <2> QED BY <1>1, <2>1, LeadingOf
<1>2. CASE Ink(piece) # {}
  <2>1. /\ Min(Ink(piece)) \in 1 .. Len(piece) /\ Max(Ink(piece)) \in 1 .. Len(piece)
    BY <1>2, InkEnds
  <2>2. Stripped(piece) = SubSeq(piece, Min(Ink(piece)), Max(Ink(piece)))
    BY <1>2 DEF Stripped, Ink
  <2>3. Stripped(piece) \in Seq(Char)
    BY <2>1, <2>2, PartOf
  <2>4. Leading(piece) \in Nat
    BY <1>2, <2>1, LeadingOf
  <2> QED BY <2>3, <2>4
<1> QED BY <1>1, <1>2

-----------------------------------------------------------------------------
(* The separators of a line and the tokens between them. *)

DelimsTo(line, n) == {q \in 1 .. n : IsDelim(line, q)}

Delims(line, n) == Cardinality(DelimsTo(line, n))

\* There are finitely many separators.
LEMMA DelimsCount ==
    ASSUME NEW line, NEW n \in Nat
    PROVE  IsFiniteSet(DelimsTo(line, n)) /\ Delims(line, n) \in Nat
<1>1. IsFiniteSet(1 .. n) /\ DelimsTo(line, n) \in SUBSET (1 .. n)
  BY FS_Interval DEF DelimsTo
<1>2. IsFiniteSet(DelimsTo(line, n))
  BY <1>1, FS_Subset
<1> QED BY <1>2, FS_CardinalityType DEF Delims

\* Position by position, a separator counts one and anything else nothing.
LEMMA DelimsStep ==
    ASSUME NEW line, NEW n \in Nat
    PROVE  /\ Delims(line, 0) = 0
           /\ IsDelim(line, n + 1) => Delims(line, n + 1) = Delims(line, n) + 1
           /\ ~IsDelim(line, n + 1) => Delims(line, n + 1) = Delims(line, n)
<1>1. DelimsTo(line, 0) = {}
  BY DEF DelimsTo
<1>2. Delims(line, 0) = 0
  BY <1>1, FS_EmptySet DEF Delims
<1>3. 1 .. n + 1 = (1 .. n) \cup {n + 1} /\ n + 1 \notin 1 .. n
  OBVIOUS
<1>4. CASE IsDelim(line, n + 1)
  <2>1. DelimsTo(line, n + 1) = DelimsTo(line, n) \cup {n + 1}
    BY <1>3, <1>4 DEF DelimsTo
  <2>2. n + 1 \notin DelimsTo(line, n)
    BY <1>3 DEF DelimsTo
  <2>3. Cardinality(DelimsTo(line, n) \cup {n + 1}) = Cardinality(DelimsTo(line, n)) + 1
    BY <2>2, DelimsCount, FS_AddElement
  <2> QED BY <1>2, <1>4, <2>1, <2>3 DEF Delims
<1>5. CASE ~IsDelim(line, n + 1)
  <2>1. DelimsTo(line, n + 1) = DelimsTo(line, n)
    BY <1>3, <1>5 DEF DelimsTo
  <2> QED BY <1>2, <1>5, <2>1 DEF Delims
<1> QED BY <1>4, <1>5

\* There are more separators at a later separator.
LEMMA DelimsGrow ==
    ASSUME NEW line, NEW p \in Nat, NEW q \in Nat, p < q, IsDelim(line, q)
    PROVE  Delims(line, p) < Delims(line, q)
<1>1. DelimsTo(line, p) \in SUBSET DelimsTo(line, q) /\ q \notin DelimsTo(line, p)
      /\ q \in DelimsTo(line, q)
  BY DEF DelimsTo
<1>2. DelimsTo(line, p) # DelimsTo(line, q)
  BY <1>1
<1>3. IsFiniteSet(DelimsTo(line, q)) /\ Delims(line, q) \in Nat /\ Delims(line, p) \in Nat
  BY DelimsCount
<1>4. /\ Cardinality(DelimsTo(line, p)) <= Cardinality(DelimsTo(line, q))
      /\ Cardinality(DelimsTo(line, q)) = Cardinality(DelimsTo(line, p))
           => DelimsTo(line, q) = DelimsTo(line, p)
  BY <1>1, <1>3, FS_Subset
<1>5. Delims(line, p) <= Delims(line, q) /\ Delims(line, q) # Delims(line, p)
  BY <1>2, <1>4 DEF Delims
<1> QED BY <1>3, <1>5

\* Where the n-th separator is.
LEMMA DelimIs ==
    ASSUME NEW line \in Seq(Char), NEW p \in 1 .. Len(line) + 1, IsDelim(line, p)
    PROVE  DelimAt(line, Delims(line, p)) = p
<1>1. Delims(line, p) \in Nat /\ Delims(line, 0) = 0 /\ Delims(line, 0) < Delims(line, p)
  <2>1. p \in Nat /\ 0 < p /\ 0 \in Nat
    OBVIOUS
  <2>2. Delims(line, 0) < Delims(line, p)
    BY <2>1, DelimsGrow
  <2> QED BY <2>1, <2>2, DelimsCount, DelimsStep
<1>2. Delims(line, p) # 0
  BY <1>1
<1> DEFINE P(q) == IsDelim(line, q) /\ Delims(line, q) = Delims(line, p)
<1>3. DelimAt(line, Delims(line, p)) = CHOOSE q \in 1 .. Len(line) + 1 : P(q)
  BY <1>2 DEF DelimAt, Delims, DelimsTo
<1>4. ASSUME NEW q \in 1 .. Len(line) + 1, P(q) PROVE q = p
  <2>1. p \in Nat /\ q \in Nat /\ Delims(line, p) \in Nat
    BY DelimsCount
  <2>2. ~(p < q)
    BY <1>4, <2>1, DelimsGrow
  <2>3. ~(q < p)
    BY <1>4, <2>1, DelimsGrow
  <2> QED BY <2>1, <2>2, <2>3
<1>5. P(p)
  OBVIOUS
<1> HIDE DEF P
<1> QED BY <1>3, <1>4, <1>5

\* The end of the line is the last separator, and closes the last field.
LEMMA FieldsOf ==
    ASSUME NEW line \in Seq(Char)
    PROVE  /\ IsDelim(line, Len(line) + 1) /\ Len(line) + 1 \in 1 .. Len(line) + 1
           /\ FieldCnt(line) = Delims(line, Len(line) + 1) /\ FieldCnt(line) \in Nat \ {0}
<1>1. Len(line) \in Nat /\ DOMAIN line = 1 .. Len(line) /\ Len(line) + 1 \notin 1 .. Len(line)
  OBVIOUS
<1>2. IsDelim(line, Len(line) + 1)
  BY <1>1 DEF IsDelim
<1>3. {p \in DOMAIN line : line[p] = Delim} = DelimsTo(line, Len(line))
  BY <1>1 DEF DelimsTo, IsDelim
<1>4. Delims(line, Len(line) + 1) = Delims(line, Len(line)) + 1
  BY <1>1, <1>2, DelimsStep
<1>5. Delims(line, Len(line)) \in Nat
  BY <1>1, DelimsCount
<1>6. FieldCnt(line) = 1 + Delims(line, Len(line))
  BY <1>3 DEF FieldCnt, Delims
<1> QED BY <1>1, <1>2, <1>4, <1>5, <1>6

Tok == [tok_off : Int, tok_len : Nat]

Marked == [tok_len : Nat, toks : Seq(Tok)]

\* A step of the tokenizer leaves a token's length and a sequence of tokens.
LEMMA MarkStepStays ==
    ASSUME NEW line, NEW acc \in Marked, NEW pos \in Int
    PROVE  MarkStep(line, Delim, acc, pos) \in Marked
<1>1. acc.tok_len \in Nat /\ acc.toks \in Seq(Tok)
  BY DEF Marked
<1>2. CASE AtEnd(line, Delim, pos)
  <2>1. tokmeta(pos - acc.tok_len, acc.tok_len) \in Tok
    BY <1>1 DEF Tok, tokmeta
  <2>2. Append(acc.toks, tokmeta(pos - acc.tok_len, acc.tok_len)) \in Seq(Tok)
    BY <1>1, <2>1
  <2>3. MarkStep(line, Delim, acc, pos)
          = [tok_len |-> 0, toks |-> Append(acc.toks, tokmeta(pos - acc.tok_len, acc.tok_len))]
    BY <1>2 DEF MarkStep
  <2> QED BY <2>2, <2>3 DEF Marked
<1>3. CASE ~AtEnd(line, Delim, pos)
  <2>1. MarkStep(line, Delim, acc, pos) = [acc EXCEPT !.tok_len = @ + 1]
    BY <1>3 DEF MarkStep
  <2> QED BY <1>1, <2>1 DEF Marked
<1> QED BY <1>2, <1>3

\* The loop of MarkTokPosMeta, step by step.
LEMMA MarkedFacts ==
    ASSUME NEW line \in Seq(Char)
    PROVE  /\ MarkedIn(line, Delim)[0] = [tok_len |-> 0, toks |-> <<>>]
           /\ \A n \in 0 .. Len(line) + 1 : MarkedIn(line, Delim)[n] \in Marked
           /\ \A n \in 1 .. Len(line) + 1 :
                 MarkedIn(line, Delim)[n] = MarkStep(line, Delim, MarkedIn(line, Delim)[n - 1], n - 1)
<1> PICK L \in Nat : L = Len(line) + 1
  OBVIOUS
<1> DEFINE base == [tok_len |-> 0, toks |-> <<>>]
           step == [n \in 1 .. L |-> [x \in Marked |-> MarkStep(line, Delim, x, n - 1)]]
           Acc(f) == [n \in 0 .. L |-> IF n = 0 THEN base ELSE MarkStep(line, Delim, f[n - 1], n - 1)]
<1>1. base \in Marked
  BY DEF Marked
<1>2. ASSUME NEW n \in 1 .. L, NEW x \in Marked
      PROVE  step[n][x] = MarkStep(line, Delim, x, n - 1) /\ step[n][x] \in Marked
  <2>1. n - 1 \in Int
    OBVIOUS
  <2>2. MarkStep(line, Delim, x, n - 1) \in Marked
    BY <2>1, MarkStepStays
  <2> QED BY <2>2
<1>3. Turns(step, L, Marked)
  <2> HIDE DEF step
  <2> QED BY <1>2 DEF Turns
<1>4. ASSUME NEW f, Loop(f, L, base, step)
      PROVE  f = Acc(f)
  <2>1. /\ \A n \in 0 .. L : f[n] \in Marked
        /\ f[0] = base
        /\ \A n \in 1 .. L : f[n] = step[n][f[n - 1]]
    <3> HIDE DEF step, base
    <3>1. \A n \in 0 .. L : f[n] \in Marked
      BY <1>1, <1>3, <1>4, LoopStays
    <3> QED BY <1>4, <3>1, LoopTurns
  <2>2. ASSUME NEW n \in 0 .. L
        PROVE  f[n] = IF n = 0 THEN base ELSE MarkStep(line, Delim, f[n - 1], n - 1)
    <3> HIDE DEF step, base
    <3> QED BY <1>2, <2>1, OneOrMore
  <2>3. f = [n \in 0 .. L |-> f[n]]
    BY <1>4 DEF Loop
  <2> HIDE DEF step, base
  <2> QED BY <2>2, <2>3
<1>5. \E s : s = Acc(s)
  <2>1. \E f : Loop(f, L, base, step)
    <3> HIDE DEF step, base
    <3> QED BY <1>1, <1>3, LoopComputes
  <2> HIDE DEF Acc, step
  <2> QED BY <1>4, <2>1
<1> PICK s : s = MarkedIn(line, Delim)
  OBVIOUS
<1>6. s = Acc(s)
  <2>1. s = CHOOSE f : f = Acc(f)
    BY DEF MarkedIn
  <2> HIDE DEF Acc
  <2> QED BY <1>5, <2>1
<1>7. s[0] = base /\ \A n \in 1 .. L : s[n] = MarkStep(line, Delim, s[n - 1], n - 1)
  <2> HIDE DEF base
  <2> QED BY SMTT(60), <1>6
<1>8. \A n \in 0 .. L : s[n] \in Marked
  <2> DEFINE B == {n \in 0 .. L : s[n] \in Marked}
  <2>1. 0 \in B
    BY <1>1, <1>7
  <2>2. ASSUME NEW n \in 1 .. L, n - 1 \in B PROVE n \in B
    <3>1. n - 1 \in Int /\ s[n - 1] \in Marked
      BY <2>2
    <3>2. MarkStep(line, Delim, s[n - 1], n - 1) \in Marked
      BY <3>1, MarkStepStays
    <3> QED BY <1>7, <3>2
  <2>3. 0 .. L \subseteq B
    <3> HIDE DEF B
    <3> QED BY <2>1, <2>2, Reaches
  <2> QED BY <2>3
<1> QED BY <1>7, <1>8

\* Behind the k-th token, the separator included.
EndOf(toks, k) == IF k = 0 THEN 0 ELSE toks[k].tok_off + toks[k].tok_len + 1

\* toks are the tokens of the first n characters.
TokensTo(line, toks, n) ==
    /\ toks \in Seq(Tok)
    /\ Len(toks) = Delims(line, n)
    /\ \A k \in 1 .. Len(toks) :
          /\ EndOf(toks, k) \in 1 .. n
          /\ IsDelim(line, EndOf(toks, k))
          /\ Delims(line, EndOf(toks, k)) = k
          /\ toks[k].tok_off = EndOf(toks, k - 1)

\* The loop after n characters: the last token begun is as long as it is behind the
\* last one ended.
MarkedTo(line, acc, n) ==
    /\ TokensTo(line, acc.toks, n)
    /\ acc.tok_len = n - EndOf(acc.toks, Len(acc.toks))

\* A token appended leaves the ends of the others.
LEMMA EndAppended ==
    ASSUME NEW toks \in Seq(Tok), NEW tok \in Tok
    PROVE  /\ \A k \in 0 .. Len(toks) : EndOf(Append(toks, tok), k) = EndOf(toks, k)
           /\ EndOf(Append(toks, tok), Len(toks) + 1) = tok.tok_off + tok.tok_len + 1
<1>1. \A k \in 0 .. Len(toks) : k = 0 \/ (k \in 1 .. Len(toks) /\ k # 0)
  OBVIOUS
<1>2. \A k \in 1 .. Len(toks) : Append(toks, tok)[k] = toks[k]
  OBVIOUS
<1>3. Append(toks, tok)[Len(toks) + 1] = tok /\ Len(toks) + 1 # 0
  OBVIOUS
<1> QED BY <1>1, <1>2, <1>3 DEF EndOf

\* At a separator the tokenizer closes the token.
LEMMA MarkStepAtEnd ==
    ASSUME NEW line \in Seq(Char), NEW n \in 0 .. Len(line), IsDelim(line, n + 1),
           NEW acc \in Marked, MarkedTo(line, acc, n)
    PROVE  MarkedTo(line, MarkStep(line, Delim, acc, n), n + 1)
<1> DEFINE toks == acc.toks
           K    == Len(acc.toks)
           tok  == tokmeta(n - acc.tok_len, acc.tok_len)
           new  == Append(acc.toks, tok)
<1>1. AtEnd(line, Delim, n)
  <2>1. n + 1 \in DOMAIN line \/ n = Len(line)
    OBVIOUS
  <2> QED BY <2>1 DEF IsDelim, AtEnd
<1>2. /\ MarkStep(line, Delim, acc, n).toks = new
      /\ MarkStep(line, Delim, acc, n).tok_len = 0
  BY <1>1 DEF MarkStep
<1>3. acc.tok_len \in Nat /\ toks \in Seq(Tok) /\ K \in Nat /\ n \in Nat
  BY DEF Marked
<1>4. tok \in Tok /\ tok.tok_off = n - acc.tok_len /\ tok.tok_len = acc.tok_len
  BY <1>3 DEF Tok, tokmeta
<1>5. tok.tok_off = EndOf(toks, K)
  <2>1. acc.tok_len = n - EndOf(toks, K) /\ EndOf(toks, K) \in Int
    <3>1. acc.tok_len = n - EndOf(toks, K)
      BY DEF MarkedTo
    <3>2. K = 0 \/ (K \in 1 .. K /\ K # 0)
      BY <1>3
    <3>3. EndOf(toks, K) \in Int
      BY <1>3, <3>2 DEF EndOf, MarkedTo, TokensTo
    <3> QED BY <3>1, <3>3
  <2> QED BY <1>3, <1>4, <2>1
<1>6. tok.tok_off + tok.tok_len + 1 = n + 1
  BY <1>3, <1>4
<1> HIDE DEF tok, toks
<1>7. /\ new \in Seq(Tok) /\ Len(new) = K + 1
      /\ \A k \in 1 .. K : new[k] = toks[k]
      /\ new[K + 1] = tok
  BY <1>3, <1>4, AppendProperties DEF toks
<1>8. /\ \A k \in 0 .. K : EndOf(new, k) = EndOf(toks, k)
      /\ EndOf(new, K + 1) = n + 1
  BY <1>3, <1>4, <1>6, EndAppended DEF toks
<1> HIDE DEF new, K
<1>9. K = Delims(line, n) /\ Delims(line, n + 1) = K + 1
  <2>1. K = Delims(line, n)
    BY DEF MarkedTo, TokensTo, K
  <2> QED BY <1>3, <2>1, DelimsStep
<1>10. ASSUME NEW k \in 1 .. K + 1
       PROVE  /\ EndOf(new, k) \in 1 .. n + 1
              /\ IsDelim(line, EndOf(new, k))
              /\ Delims(line, EndOf(new, k)) = k
              /\ new[k].tok_off = EndOf(new, k - 1)
  <2>1. CASE k = K + 1
    <3>1. EndOf(new, k) = n + 1 /\ k - 1 = K /\ K \in 0 .. K
      BY <1>3, <1>8, <2>1
    <3>2. new[k].tok_off = EndOf(new, k - 1)
      BY <1>5, <1>7, <1>8, <2>1, <3>1
    <3>3. n + 1 \in 1 .. n + 1
      BY <1>3
    <3> QED BY <1>9, <2>1, <3>1, <3>2, <3>3
  <2>2. CASE k # K + 1
    <3>1. k \in 1 .. K /\ k \in 0 .. K /\ k - 1 \in 0 .. K
      BY <1>3, <2>2
    <3>2. EndOf(new, k) = EndOf(toks, k) /\ EndOf(new, k - 1) = EndOf(toks, k - 1)
      BY <1>8, <3>1
    <3>3. /\ EndOf(toks, k) \in 1 .. n
          /\ IsDelim(line, EndOf(toks, k))
          /\ Delims(line, EndOf(toks, k)) = k
          /\ toks[k].tok_off = EndOf(toks, k - 1)
      BY <3>1 DEF MarkedTo, TokensTo, toks, K
    <3>4. EndOf(toks, k) \in 1 .. n + 1
      BY <1>3, <3>3
    <3> QED BY <1>7, <3>1, <3>2, <3>3, <3>4
  <2> QED BY <2>1, <2>2
<1>11. TokensTo(line, new, n + 1)
  BY <1>7, <1>9, <1>10 DEF TokensTo
<1>12. 0 = (n + 1) - EndOf(new, Len(new))
  BY <1>3, <1>7, <1>8
<1> QED BY <1>2, <1>11, <1>12 DEF MarkedTo

\* Inside a field the tokenizer counts one character.
LEMMA MarkStepInside ==
    ASSUME NEW line \in Seq(Char), NEW n \in 0 .. Len(line), ~IsDelim(line, n + 1),
           NEW acc \in Marked, MarkedTo(line, acc, n)
    PROVE  MarkedTo(line, MarkStep(line, Delim, acc, n), n + 1)
<1>1. ~AtEnd(line, Delim, n)
  BY DEF IsDelim, AtEnd
<1>2. acc.tok_len \in Nat /\ acc.toks \in Seq(Tok) /\ n \in Nat
  BY DEF Marked
<1>3. /\ MarkStep(line, Delim, acc, n).toks = acc.toks
      /\ MarkStep(line, Delim, acc, n).tok_len = acc.tok_len + 1
  BY <1>1 DEF MarkStep, Marked
<1>4. Delims(line, n + 1) = Delims(line, n)
  BY <1>2, DelimsStep
<1>5. \A k \in 1 .. Len(acc.toks) : EndOf(acc.toks, k) \in 1 .. n + 1
  <2>1. \A k \in 1 .. Len(acc.toks) : EndOf(acc.toks, k) \in 1 .. n
    BY DEF MarkedTo, TokensTo
  <2> QED BY <1>2, <2>1
<1>6. TokensTo(line, acc.toks, n + 1)
  BY <1>4, <1>5 DEF MarkedTo, TokensTo
<1>7. acc.tok_len + 1 = (n + 1) - EndOf(acc.toks, Len(acc.toks))
  <2>1. acc.tok_len = n - EndOf(acc.toks, Len(acc.toks))
    BY DEF MarkedTo
  <2>2. EndOf(acc.toks, Len(acc.toks)) \in Int
    <3>1. Len(acc.toks) = 0 \/ (Len(acc.toks) \in 1 .. Len(acc.toks) /\ Len(acc.toks) # 0)
      BY <1>2
    <3>2. \A k \in 1 .. Len(acc.toks) : EndOf(acc.toks, k) \in 1 .. n
      BY DEF MarkedTo, TokensTo
    <3>3. EndOf(acc.toks, 0) = 0
      BY DEF EndOf
    <3> QED BY <3>1, <3>2, <3>3
  <2> QED BY <1>2, <2>1, <2>2
<1> QED BY <1>3, <1>6, <1>7 DEF MarkedTo

\* The tokens that MarkTokPosMeta marks lie between the separators of the line.
LEMMA MarksOf ==
    ASSUME NEW line \in Seq(Char)
    PROVE  /\ TokensTo(line, Marks(line, Delim), Len(line) + 1)
           /\ Len(Marks(line, Delim)) = FieldCnt(line)
           /\ \A k \in 0 .. FieldCnt(line) : EndOf(Marks(line, Delim), k) = DelimAt(line, k)
           /\ EndOf(Marks(line, Delim), FieldCnt(line)) = Len(line) + 1
<1> PICK L \in Nat : L = Len(line) + 1
  OBVIOUS
<1> PICK acc : acc = MarkedIn(line, Delim)
  OBVIOUS
<1>1. /\ acc[0] = [tok_len |-> 0, toks |-> <<>>]
      /\ \A n \in 0 .. L : acc[n] \in Marked
      /\ \A n \in 1 .. L : acc[n] = MarkStep(line, Delim, acc[n - 1], n - 1)
  BY MarkedFacts
<1>2. \A n \in 0 .. L : MarkedTo(line, acc[n], n)
  <2> DEFINE B == {n \in 0 .. L : MarkedTo(line, acc[n], n)}
  <2>1. 0 \in B
    <3>1. acc[0].toks = <<>> /\ acc[0].tok_len = 0
      BY <1>1
    <3>2. Delims(line, 0) = 0 /\ EndOf(<<>>, 0) = 0
      BY DelimsStep DEF EndOf
    <3>3. TokensTo(line, <<>>, 0)
      BY <3>2 DEF TokensTo
    <3> QED BY <3>1, <3>2, <3>3 DEF MarkedTo
  <2>2. ASSUME NEW n \in 1 .. L, n - 1 \in B PROVE n \in B
    <3>1. n - 1 \in 0 .. Len(line) /\ n - 1 \in 0 .. L /\ (n - 1) + 1 = n
      OBVIOUS
    <3>2. acc[n - 1] \in Marked /\ MarkedTo(line, acc[n - 1], n - 1)
      BY <1>1, <2>2, <3>1
    <3>3. MarkedTo(line, MarkStep(line, Delim, acc[n - 1], n - 1), (n - 1) + 1)
      BY <3>1, <3>2, MarkStepAtEnd, MarkStepInside
    <3>4. MarkedTo(line, acc[n], n)
      BY <1>1, <3>1, <3>3
    <3> QED BY <3>4
  <2>3. 0 .. L \subseteq B
    <3> HIDE DEF B
    <3> QED BY <2>1, <2>2, Reaches
  <2> QED BY <2>3
<1> PICK toks : toks = Marks(line, Delim)
  OBVIOUS
<1>3. TokensTo(line, toks, L)
  <2>1. toks = acc[L].toks /\ L \in 0 .. L
    BY DEF Marks
  <2>2. MarkedTo(line, acc[L], L)
    BY <1>2, <2>1
  <2> QED BY <2>1, <2>2 DEF MarkedTo
<1> PICK K : K = FieldCnt(line)
  OBVIOUS
<1>4. /\ IsDelim(line, L) /\ L \in 1 .. L
      /\ K = Delims(line, L) /\ K \in Nat \ {0}
  BY FieldsOf
<1>5. Len(toks) = K
  BY <1>3, <1>4 DEF TokensTo
<1>6. ASSUME NEW k \in 0 .. K PROVE EndOf(toks, k) = DelimAt(line, k)
  <2>1. CASE k = 0
    BY <2>1 DEF EndOf, DelimAt
  <2>2. CASE k # 0
    <3>1. k \in 1 .. Len(toks)
      BY <1>4, <1>5, <2>2
    <3>2. /\ EndOf(toks, k) \in 1 .. L
          /\ IsDelim(line, EndOf(toks, k))
          /\ Delims(line, EndOf(toks, k)) = k
      BY <1>3, <3>1 DEF TokensTo
    <3>3. DelimAt(line, Delims(line, EndOf(toks, k))) = EndOf(toks, k)
      BY <3>2, DelimIs
    <3> QED BY <3>2, <3>3
  <2> QED BY <2>1, <2>2
<1>7. DelimAt(line, K) = L
  BY <1>4, DelimIs
<1>8. EndOf(toks, K) = L
  BY <1>4, <1>6, <1>7
<1> QED BY <1>3, <1>5, <1>6, <1>8

\* A token is within the line, as long as it is from the separator before it.
LEMMA TokenOf ==
    ASSUME NEW line \in Seq(Char), NEW k \in 1 .. FieldCnt(line)
    PROVE  LET tok == Marks(line, Delim)[k]
           IN  /\ tok.tok_off \in Nat /\ tok.tok_len \in Nat
               /\ tok.tok_off + tok.tok_len <= Len(line)
               /\ tok.tok_len = EndOf(Marks(line, Delim), k) - EndOf(Marks(line, Delim), k - 1) - 1
               /\ TokOf(line, tok) = Field(line, k)
<1> PICK toks : toks = Marks(line, Delim)
  OBVIOUS
<1>1. /\ TokensTo(line, toks, Len(line) + 1) /\ Len(toks) = FieldCnt(line)
      /\ \A m \in 0 .. FieldCnt(line) : EndOf(toks, m) = DelimAt(line, m)
  BY MarksOf
<1>2. k \in 1 .. Len(toks) /\ k \in 0 .. FieldCnt(line) /\ k - 1 \in 0 .. FieldCnt(line) /\ k # 0
  BY <1>1, FieldsOf
<1>3. toks[k] \in Tok
  BY <1>1, <1>2 DEF TokensTo
<1>4. toks[k].tok_off \in Int /\ toks[k].tok_len \in Nat
  BY <1>3 DEF Tok
<1>5. /\ EndOf(toks, k) \in 1 .. Len(line) + 1
      /\ toks[k].tok_off = EndOf(toks, k - 1)
  BY <1>1, <1>2 DEF TokensTo
<1>6. EndOf(toks, k) = toks[k].tok_off + toks[k].tok_len + 1
  BY <1>2 DEF EndOf
<1>7. EndOf(toks, k - 1) \in Nat
  <2>1. CASE k = 1
    BY <2>1 DEF EndOf
  <2>2. CASE k # 1
    <3>1. k - 1 \in 1 .. Len(toks)
      BY <1>2, <2>2
    <3>2. EndOf(toks, k - 1) \in 1 .. Len(line) + 1
      BY <1>1, <3>1 DEF TokensTo
    <3> QED BY <3>2
  <2> QED BY <2>1, <2>2
<1>8. toks[k].tok_off + 1 = DelimAt(line, k - 1) + 1
  BY <1>1, <1>2, <1>5
<1>9. toks[k].tok_off + toks[k].tok_len = DelimAt(line, k) - 1
  BY <1>1, <1>2, <1>4, <1>6
<1>10. TokOf(line, toks[k]) = Field(line, k)
  BY <1>8, <1>9, Zenon DEF TokOf, Field
<1>11. /\ toks[k].tok_off + toks[k].tok_len <= Len(line)
       /\ toks[k].tok_len = EndOf(toks, k) - EndOf(toks, k - 1) - 1
       /\ toks[k].tok_off \in Nat
  BY SMTT(60), <1>4, <1>5, <1>6, <1>7
<1> QED BY <1>4, <1>10, <1>11

\* The array of tokens, those without a mark being empty.
LEMMA ArrayOf ==
    ASSUME NEW line \in Seq(Char), NEW cols \in Nat
    PROVE  LET toks == MarkTokPosMeta(line, cols, Delim)
           IN  /\ DOMAIN toks = 1 .. cols /\ Len(toks) = cols
               /\ \A n \in 1 .. cols :
                     /\ toks[n].tok_off \in Nat /\ toks[n].tok_len \in Nat
                     /\ toks[n].tok_off + toks[n].tok_len <= Len(line)
                     /\ n <= FieldCnt(line) => toks[n] = Marks(line, Delim)[n]
                     /\ n > FieldCnt(line) => toks[n].tok_len = 0
                     /\ TokOf(line, toks[n]) = IF n <= FieldCnt(line) THEN Field(line, n) ELSE <<>>
<1> PICK toks : toks = MarkTokPosMeta(line, cols, Delim)
  OBVIOUS
<1>1. FieldCnt(line) \in Nat \ {0} /\ Len(Marks(line, Delim)) = FieldCnt(line) /\ Len(line) \in Nat
  BY MarksOf, FieldsOf
<1>2. toks = [n \in 1 .. cols |-> IF n <= FieldCnt(line) THEN Marks(line, Delim)[n]
                                                         ELSE tokmeta(0, 0)]
  BY <1>1 DEF MarkTokPosMeta
<1>3. DOMAIN toks = 1 .. cols /\ Len(toks) = cols
  BY <1>2
<1>4. ASSUME NEW n \in 1 .. cols
      PROVE  /\ toks[n].tok_off \in Nat /\ toks[n].tok_len \in Nat
             /\ toks[n].tok_off + toks[n].tok_len <= Len(line)
             /\ n <= FieldCnt(line) => toks[n] = Marks(line, Delim)[n]
             /\ n > FieldCnt(line) => toks[n].tok_len = 0
             /\ TokOf(line, toks[n]) = IF n <= FieldCnt(line) THEN Field(line, n) ELSE <<>>
  <2>1. CASE n <= FieldCnt(line)
    <3>1. toks[n] = Marks(line, Delim)[n] /\ n \in 1 .. FieldCnt(line) /\ ~(n > FieldCnt(line))
      BY <1>1, <1>2, <2>1
    <3>2. /\ toks[n].tok_off \in Nat /\ toks[n].tok_len \in Nat
          /\ toks[n].tok_off + toks[n].tok_len <= Len(line)
          /\ TokOf(line, toks[n]) = Field(line, n)
      BY <3>1, TokenOf
    <3> QED BY <2>1, <3>1, <3>2
  <2>2. CASE ~(n <= FieldCnt(line))
    <3>1. toks[n].tok_off = 0 /\ toks[n].tok_len = 0
      BY <1>2, <2>2 DEF tokmeta
    <3>2. TokOf(line, toks[n]) = SubSeq(line, 1, 0)
      BY <3>1 DEF TokOf
    <3>3. TokOf(line, toks[n]) = <<>>
      BY <3>2, SubSeqEmpty
    <3> QED BY <1>1, <2>2, <3>1, <3>3
  <2> QED BY <2>1, <2>2
<1> QED BY <1>3, <1>4

\* The cells of a row.
LEMMA CellsOf ==
    ASSUME NEW piece \in Seq(Char), NEW cols \in Nat, NEW n \in 1 .. cols
    PROVE  LET line == Stripped(piece)
           IN  TokOf(line, MarkTokPosMeta(line, cols, Delim)[n]) = RowOf(piece, cols)[n]
<1>1. Stripped(piece) \in Seq(Char)
  BY StrippedLine
<1>2. TokOf(Stripped(piece), MarkTokPosMeta(Stripped(piece), cols, Delim)[n])
        = IF n <= FieldCnt(Stripped(piece)) THEN Field(Stripped(piece), n) ELSE <<>>
  BY <1>1, ArrayOf
<1>3. RowOf(piece, cols)[n]
        = IF n <= FieldCnt(Stripped(piece)) THEN Field(Stripped(piece), n) ELSE <<>>
  BY DEF RowOf
<1> QED BY <1>2, <1>3

\* How far whitespace moves the lines of a text.
LEMMA MovedFacts ==
    ASSUME NEW text \in Seq(Seq(Char))
    PROVE  /\ MovedUpTo(text)[0] = 0
           /\ \A n \in 0 .. Len(text) : MovedUpTo(text)[n] \in Nat
           /\ \A n \in 1 .. Len(text) :
                 MovedUpTo(text)[n] = MovedUpTo(text)[n - 1] + Leading(text[n])
<1> PICK L \in Nat : L = Len(text)
  OBVIOUS
<1> DEFINE step == [n \in 1 .. L |-> [x \in Nat |-> x + Leading(text[n])]]
           Sum(f) == [n \in 0 .. L |-> IF n = 0 THEN 0 ELSE f[n - 1] + Leading(text[n])]
<1>1. \A n \in 1 .. L : Leading(text[n]) \in Nat
  <2>1. \A n \in 1 .. L : text[n] \in Seq(Char)
    OBVIOUS
  <2> QED BY <2>1, StrippedLine
<1>2. Turns(step, L, Nat)
  BY <1>1 DEF Turns
<1>3. ASSUME NEW f, Loop(f, L, 0, step)
      PROVE  f = Sum(f)
  <2>1. /\ \A n \in 0 .. L : f[n] \in Nat
        /\ f[0] = 0
        /\ \A n \in 1 .. L : f[n] = step[n][f[n - 1]]
    <3> HIDE DEF step
    <3>1. \A n \in 0 .. L : f[n] \in Nat
      BY <1>2, <1>3, LoopStays
    <3> QED BY <1>3, <3>1, LoopTurns
  <2>2. \A n \in 0 .. L : f[n] = IF n = 0 THEN 0 ELSE f[n - 1] + Leading(text[n])
    BY <2>1, OneOrMore
  <2>3. f = [n \in 0 .. L |-> f[n]]
    BY <1>3 DEF Loop
  <2> QED BY <2>2, <2>3
<1>4. \E s : s = Sum(s)
  <2>1. \E f : Loop(f, L, 0, step)
    <3> HIDE DEF step
    <3> QED BY <1>2, LoopComputes
  <2> HIDE DEF Sum
  <2> QED BY <1>3, <2>1
<1> PICK s : s = MovedUpTo(text)
  OBVIOUS
<1>5. s = Sum(s)
  <2>1. s = CHOOSE f : f = Sum(f)
    BY DEF MovedUpTo
  <2> HIDE DEF Sum
  <2> QED BY <1>4, <2>1
<1>6. s[0] = 0 /\ \A n \in 1 .. L : s[n] = s[n - 1] + Leading(text[n])
  <2>1. \A n \in 0 .. L : s[n] = IF n = 0 THEN 0 ELSE s[n - 1] + Leading(text[n])
    BY <1>5
  <2>2. 0 \in 0 .. L /\ \A n \in 1 .. L : n \in 0 .. L /\ n # 0
    OBVIOUS
  <2> QED BY <2>1, <2>2
<1>7. \A n \in 0 .. L : s[n] \in Nat
  <2> DEFINE B == {n \in 0 .. L : s[n] \in Nat}
  <2>1. 0 \in B /\ \A n \in 1 .. L : n - 1 \in B => n \in B
    BY <1>1, <1>6
  <2>2. 0 .. L \subseteq B
    <3> HIDE DEF B
    <3> QED BY <2>1, Reaches
  <2> QED BY <2>2
<1> QED BY <1>6, <1>7

=============================================================================
