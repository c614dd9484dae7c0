--------------------------- MODULE DBToolsProofs ----------------------------
(***************************************************************************)
(* The tools of DBTools for every directory, every text and every database *)
(* the engine may have written: what compaction and loading leave, and     *)
(* that a dump can be loaded again.                                        *)
(***************************************************************************)
EXTENDS DBTools, TxtTokProofs

-----------------------------------------------------------------------------
(* Numbers and sequences. *)

LEMMA Before ==
    ASSUME NEW L \in Nat, NEW m \in 1 .. L
    PROVE  m - 1 \in Nat /\ m - 1 <= L
OBVIOUS

LEMMA FirstOrBehind ==
    ASSUME NEW m \in Nat, m # 1, m # 0
    PROVE  /\ m - 1 \in Nat \ {0} /\ 1 \in Nat \ {0} /\ 1 <= m - 1
           /\ (m - 1) - 1 + 1 = m - 1
OBVIOUS

LEMMA OneMorePlace ==
    ASSUME NEW L \in Nat
    PROVE  L + 1 \notin 1 .. L /\ \A p \in 1 .. L + 1 : p \in 1 .. L \/ p = L + 1
OBVIOUS

\* Of K places, one, and V more, which one x is.
LEMMA Places ==
    ASSUME NEW K \in Nat, NEW V \in Nat
    PROVE  /\ K + 1 \in 1 .. K + V + 1 /\ K + V + 2 \in Nat /\ K + V + 2 # 0
           /\ \A x \in 1 .. K + V + 2 : x \in 1 .. K + V + 1 \/ x = K + V + 2
           /\ \A x \in 1 .. K + V + 1 :
                 x \in 1 .. K \/ x = K + 1 \/ (x - (K + 1) \in 1 .. V /\ K + 1 + (x - (K + 1)) = x)
           /\ K + V + 2 - 1 = K + V + 1
OBVIOUS

LEMMA FunctionIsSeq ==
    ASSUME NEW S, NEW L \in Nat, NEW f \in [1 .. L -> S]
    PROVE  f \in Seq(S) /\ Len(f) = L
OBVIOUS

\* What no character of two strings put together is, none of either is.
LEMMA CharsOfBoth ==
    ASSUME NEW S, NEW key \in Seq(S), NEW val \in Seq(S), NEW T,
           NEW both, both = key \o val,
           \A n \in DOMAIN both : both[n] \notin T
    PROVE  /\ Len(both) = Len(key) + Len(val)
           /\ \A x \in 1 .. Len(key) : key[x] \notin T
           /\ \A x \in 1 .. Len(val) : val[x] \notin T
<1> PICK K \in Nat : K = Len(key)
  OBVIOUS
<1> PICK V \in Nat : V = Len(val)
  OBVIOUS
<1>1. /\ both \in Seq(S) /\ Len(both) = K + V
      /\ \A x \in 1 .. K + V : both[x] = IF x <= K THEN key[x] ELSE val[x - K]
  <2>1. /\ key \o val \in Seq(S) /\ Len(key \o val) = Len(key) + Len(val)
        /\ \A x \in 1 .. Len(key) + Len(val) :
              (key \o val)[x] = IF x <= Len(key) THEN key[x] ELSE val[x - Len(key)]
    BY ConcatProperties, ZenonT(60)
  <2> QED BY <2>1
<1>2. \A x \in 1 .. K + V : both[x] \notin T
  <2>1. DOMAIN both = 1 .. K + V
    BY <1>1
  <2> QED BY <2>1
<1>3. \A x \in 1 .. K : x \in 1 .. K + V /\ x <= K
  OBVIOUS
<1>4. \A x \in 1 .. V : K + x \in 1 .. K + V /\ ~(K + x <= K) /\ K + x - K = x
  OBVIOUS
<1>5. \A x \in 1 .. K : both[x] = key[x]
  BY <1>1, <1>3
<1>6. \A x \in 1 .. V : both[K + x] = val[x]
  BY <1>1, <1>4
<1> QED BY <1>1, <1>2, <1>3, <1>4, <1>5, <1>6, ZenonT(60)

-----------------------------------------------------------------------------
(* The engine on a database. *)

LEMMA DBParts ==
    ASSUME NEW d \in DBType
    PROVE  /\ d.kind = "db" /\ d.cap \in Nat /\ d.entries \in Seq(EntryType)
           /\ Len(d.entries) \in Nat /\ DOMAIN d.entries = 1 .. Len(d.entries)
           /\ \A n \in DOMAIN d.entries :
                 /\ d.entries[n].key \in Seq(Char) /\ d.entries[n].val \in Seq(Char)
                 /\ d.entries[n].deleted \in BOOLEAN
           /\ \A n : n \in LiveIDs(d) <=> n \in DOMAIN d.entries /\ ~d.entries[n].deleted
<1>1. d.kind = "db" /\ d.cap \in Nat /\ d.entries \in Seq(EntryType)
  BY DEF DBType
<1>2. Len(d.entries) \in Nat /\ DOMAIN d.entries = 1 .. Len(d.entries)
  BY <1>1
<1>3. \A n \in DOMAIN d.entries : d.entries[n] \in EntryType
  BY <1>1
<1> QED BY <1>1, <1>2, <1>3 DEF LiveIDs, EntryType

\* Two databases of one kind, capacity and sequence of entries are one.
LEMMA NewDB ==
    ASSUME NEW cap \in Nat
    PROVE  DB(cap, <<>>) \in DBType /\ WellFormed(DB(cap, <<>>)) /\ DB(cap, <<>>).entries = <<>>
<1>1. <<>> \in Seq(EntryType) /\ Len(<<>>) = 0 /\ DOMAIN <<>> = {}
  OBVIOUS
<1> QED BY <1>1 DEF DB, DBType, WellFormed

\* Deletion marks entries and does nothing else.
LEMMA DeletedFacts ==
    ASSUME NEW d \in DBType, NEW ids
    PROVE  /\ Deleted(d, ids) \in DBType /\ Deleted(d, ids).cap = d.cap
           /\ Len(Deleted(d, ids).entries) = Len(d.entries)
           /\ DOMAIN Deleted(d, ids).entries = DOMAIN d.entries
           /\ \A n \in DOMAIN d.entries :
                 /\ Deleted(d, ids).entries[n].key = d.entries[n].key
                 /\ Deleted(d, ids).entries[n].val = d.entries[n].val
                 /\ Deleted(d, ids).entries[n].deleted <=> d.entries[n].deleted \/ n \in ids
<1> PICK E : E = [n \in DOMAIN d.entries |-> IF n \in ids THEN [d.entries[n] EXCEPT !.deleted = TRUE]
                                                      ELSE d.entries[n]]
  OBVIOUS
<1>1. /\ DOMAIN d.entries = 1 .. Len(d.entries) /\ Len(d.entries) \in Nat
      /\ d \in [kind : {"db"}, cap : Nat, entries : Seq(EntryType)]
      /\ \A n \in DOMAIN d.entries : d.entries[n] \in EntryType
  <2>1. d.entries \in Seq(EntryType)
    BY DBParts
  <2> QED BY <2>1, DBParts DEF DBType
<1>2. \A n \in DOMAIN d.entries :
         /\ E[n] \in EntryType
         /\ E[n].key = d.entries[n].key /\ E[n].val = d.entries[n].val
         /\ E[n].deleted <=> d.entries[n].deleted \/ n \in ids
  BY <1>1 DEF EntryType
<1>3. E \in [1 .. Len(d.entries) -> EntryType]
  BY <1>1, <1>2
<1>4. E \in Seq(EntryType) /\ Len(E) = Len(d.entries) /\ DOMAIN E = DOMAIN d.entries
  BY <1>1, <1>3
<1>5. Deleted(d, ids) = [d EXCEPT !.entries = E]
  BY DEF Deleted
<1>6. Deleted(d, ids).entries = E /\ Deleted(d, ids).cap = d.cap /\ Deleted(d, ids) \in DBType
  BY <1>1, <1>4, <1>5 DEF DBType
<1> QED BY <1>2, <1>4, <1>6

LEMMA DeletedWellFormed ==
    ASSUME NEW d \in DBType, WellFormed(d), NEW ids
    PROVE  WellFormed(Deleted(d, ids))
BY DeletedFacts DEF WellFormed

\* A put into a full database, or of a key that is too long, is refused; any other
\* marks the entry the key had and appends one.
LEMMA PutFacts ==
    ASSUME NEW d \in DBType, NEW k \in Seq(Char), NEW v \in Seq(Char),
           NEW r, r = KVDB_DBObject_put(d, k, v)
    PROVE  /\ r \in DBType /\ r.cap = d.cap
           /\ Len(d.entries) >= d.cap \/ Len(k) > MAX_KEY_SIZE => r = d
           /\ Len(d.entries) < d.cap /\ Len(k) <= MAX_KEY_SIZE =>
                /\ Len(r.entries) = Len(d.entries) + 1
                /\ DOMAIN r.entries = 1 .. Len(d.entries) + 1
                /\ r.entries[Len(d.entries) + 1] = Entry(k, v)
                /\ \A n \in DOMAIN d.entries :
                      /\ r.entries[n].key = d.entries[n].key
                      /\ r.entries[n].val = d.entries[n].val
                      /\ r.entries[n].deleted <=> d.entries[n].deleted \/ d.entries[n].key = k
<1>1. /\ d.cap \in Nat /\ Len(d.entries) \in Nat /\ DOMAIN d.entries = 1 .. Len(d.entries)
      /\ Len(k) \in Nat /\ MAX_KEY_SIZE \in Nat
  BY DBParts, ToolsAssumption
<1>2. CASE Len(d.entries) >= d.cap \/ Len(k) > MAX_KEY_SIZE
  <2>1. r = d
    BY <1>2 DEF KVDB_DBObject_put
  <2> QED BY <1>1, <1>2, <2>1
<1>3. CASE Len(d.entries) < d.cap /\ Len(k) <= MAX_KEY_SIZE
  <2> PICK m : m = Deleted(d, IDsOf(d, k))
    OBVIOUS
  <2>1. /\ m \in DBType /\ m.cap = d.cap /\ Len(m.entries) = Len(d.entries)
        /\ DOMAIN m.entries = DOMAIN d.entries
        /\ \A n \in DOMAIN d.entries :
                 /\ m.entries[n].key = d.entries[n].key
                 /\ m.entries[n].val = d.entries[n].val
                 /\ m.entries[n].deleted <=> d.entries[n].deleted \/ n \in IDsOf(d, k)
    BY DeletedFacts
  <2>2. \A n \in DOMAIN d.entries : n \in IDsOf(d, k) <=> ~d.entries[n].deleted /\ d.entries[n].key = k
    BY DBParts DEF IDsOf
  <2>3. r = [m EXCEPT !.entries = Append(@, Entry(k, v))]
    BY <1>1, <1>3 DEF KVDB_DBObject_put
  <2>4. Entry(k, v) \in EntryType
    BY DEF Entry, EntryType
  <2> PICK A : A = Append(m.entries, Entry(k, v))
    OBVIOUS
  <2>5. m.entries \in Seq(EntryType)
    BY <2>1, DBParts
  <2>6. /\ A \in Seq(EntryType) /\ Len(A) = Len(d.entries) + 1
        /\ DOMAIN A = 1 .. Len(d.entries) + 1
        /\ A[Len(d.entries) + 1] = Entry(k, v)
        /\ \A n \in 1 .. Len(d.entries) : A[n] = m.entries[n]
    BY <2>1, <2>4, <2>5, SMTT(60)
  <2>7. r = [m EXCEPT !.entries = A]
    BY <2>3
  <2>8. r.entries = A /\ r.cap = d.cap /\ r \in DBType
    BY <2>1, <2>6, <2>7 DEF DBType
  <2> QED BY <1>1, <1>3, <2>1, <2>2, <2>6, <2>8
<1> QED BY <1>1, <1>2, <1>3

Appended(r, d, L, k, v) ==
    /\ Len(r.entries) = L + 1
    /\ DOMAIN r.entries = 1 .. L + 1
    /\ r.entries[L + 1] = Entry(k, v)
    /\ \A x \in 1 .. L : /\ r.entries[x].key = d.entries[x].key
                         /\ r.entries[x].val = d.entries[x].val
                         /\ r.entries[x].deleted <=> d.entries[x].deleted \/ d.entries[x].key = k

\* A put that is not refused.
LEMMA PutAppends ==
    ASSUME NEW d \in DBType, NEW k \in Seq(Char), NEW v \in Seq(Char),
           NEW r, r = KVDB_DBObject_put(d, k, v),
           Len(d.entries) < d.cap, Len(k) <= MAX_KEY_SIZE,
           NEW L, L = Len(d.entries)
    PROVE  r \in DBType /\ r.cap = d.cap /\ Appended(r, d, L, k, v)
<1>1. DOMAIN d.entries = 1 .. L
  BY DBParts
<1> QED BY <1>1, PutFacts, SMTT(60) DEF Appended

LEMMA PutWellFormed ==
    ASSUME NEW d \in DBType, WellFormed(d), NEW k \in Seq(Char), NEW v \in Seq(Char)
    PROVE  WellFormed(KVDB_DBObject_put(d, k, v))
<1> PICK r : r = KVDB_DBObject_put(d, k, v)
  OBVIOUS
<1> PICK L \in Nat : L = Len(d.entries)
  BY DBParts
<1>1. /\ d.cap \in Nat /\ DOMAIN d.entries = 1 .. L
      /\ Len(k) \in Nat /\ MAX_KEY_SIZE \in Nat
  BY DBParts, ToolsAssumption
<1>2. CASE L >= d.cap \/ Len(k) > MAX_KEY_SIZE
  <2>1. r = d
    BY <1>2, PutFacts
  <2> QED BY <2>1
<1>3. CASE L < d.cap /\ Len(k) <= MAX_KEY_SIZE
  <2>1. /\ r.cap = d.cap /\ Len(r.entries) = L + 1 /\ DOMAIN r.entries = 1 .. L + 1
        /\ r.entries[L + 1] = Entry(k, v)
        /\ \A n \in 1 .. L : /\ r.entries[n].key = d.entries[n].key
                             /\ r.entries[n].deleted <=> d.entries[n].deleted \/ d.entries[n].key = k
    BY <1>1, <1>3, PutFacts, SMTT(60)
  <2>2. \A n \in 1 .. L + 1 : n \in 1 .. L \/ n = L + 1
    OBVIOUS
  <2>3. r.entries[L + 1].key = k
    BY <2>1 DEF Entry
  <2>4. ASSUME NEW m \in 1 .. L + 1, NEW n \in 1 .. L + 1, r.entries[m].key = r.entries[n].key,
               ~r.entries[m].deleted, ~r.entries[n].deleted
        PROVE  m = n
    <3>1. \A x \in 1 .. L : ~r.entries[x].deleted =>
             r.entries[x].key # k /\ ~d.entries[x].deleted /\ r.entries[x].key = d.entries[x].key
      BY <2>1
    <3>2. CASE m = L + 1 \/ n = L + 1
      BY <2>2, <2>3, <2>4, <3>1, <3>2
    <3>3. CASE m \in 1 .. L /\ n \in 1 .. L
      <4>1. /\ m \in DOMAIN d.entries /\ n \in DOMAIN d.entries
            /\ d.entries[m].key = d.entries[n].key /\ ~d.entries[m].deleted /\ ~d.entries[n].deleted
        BY <1>1, <2>4, <3>1, <3>3
      <4> QED BY <4>1 DEF WellFormed
    <3> QED BY <2>2, <3>2, <3>3
  <2>5. L + 1 <= d.cap
    BY <1>1, <1>3
  <2>6. \A n \in 1 .. L + 1 : Len(r.entries[n].key) <= MAX_KEY_SIZE
    <3>1. \A n \in 1 .. L : Len(d.entries[n].key) <= MAX_KEY_SIZE
      BY <1>1 DEF WellFormed
    <3> QED BY <1>3, <2>1, <2>2, <2>3, <3>1
  <2> QED BY <2>1, <2>4, <2>5, <2>6, ZenonT(60) DEF WellFormed
<1> QED BY <1>1, <1>2, <1>3

\* The dictionary of a database: its live entries, one for each key.
LEMMA DictFacts ==
    ASSUME NEW d \in DBType, WellFormed(d)
    PROVE  /\ Dict(d) = [x \in DOMAIN Dict(d) |-> Dict(d)[x]]
           /\ \A n \in LiveIDs(d) : /\ d.entries[n].key \in DOMAIN Dict(d)
                                    /\ Dict(d)[d.entries[n].key] = d.entries[n].val
           /\ \A x \in DOMAIN Dict(d) : \E n \in LiveIDs(d) : d.entries[n].key = x
<1>1. DOMAIN Dict(d) = {d.entries[n].key : n \in LiveIDs(d)}
  BY DEF Dict
<1>2. Dict(d) = [x \in DOMAIN Dict(d) |-> Dict(d)[x]]
  BY DEF Dict
<1>3. ASSUME NEW n \in LiveIDs(d)
      PROVE  Dict(d)[d.entries[n].key] = d.entries[n].val
  <2> PICK x : x = d.entries[n].key
    OBVIOUS
  <2>1. n \in IDsOf(d, x)
    BY DEF IDsOf
  <2>2. \A m \in IDsOf(d, x) : m = n
    BY DBParts DEF IDsOf, WellFormed
  <2>3. (CHOOSE m \in IDsOf(d, x) : TRUE) = n
    BY <2>1, <2>2
  <2>4. x \in {d.entries[m].key : m \in LiveIDs(d)}
    OBVIOUS
  <2>5. Dict(d)[x] = d.entries[CHOOSE m \in IDsOf(d, x) : TRUE].val
    BY <2>4 DEF Dict
  <2> QED BY <2>3, <2>5
<1> QED BY <1>1, <1>2, <1>3

\* A function that agrees with the live entries is the dictionary.
LEMMA DictIs ==
    ASSUME NEW d \in DBType, WellFormed(d), NEW F, F = [x \in DOMAIN F |-> F[x]],
           \A n \in LiveIDs(d) : /\ d.entries[n].key \in DOMAIN F
                                 /\ F[d.entries[n].key] = d.entries[n].val,
           \A x \in DOMAIN F : \E n \in LiveIDs(d) : d.entries[n].key = x
    PROVE  Dict(d) = F
<1> PICK G : G = Dict(d)
  OBVIOUS
<1>1. G = [x \in DOMAIN G |-> G[x]]
  BY DictFacts
<1>2. DOMAIN G \subseteq DOMAIN F
  BY DictFacts
<1>3. DOMAIN F \subseteq DOMAIN G
  BY DictFacts
<1>4. ASSUME NEW x \in DOMAIN F PROVE G[x] = F[x]
  <2>1. PICK n \in LiveIDs(d) : d.entries[n].key = x
    OBVIOUS
  <2>2. G[x] = d.entries[n].val
    BY <2>1, DictFacts
  <2>3. F[x] = d.entries[n].val
    BY <2>1
  <2> QED BY <2>2, <2>3
<1>5. DOMAIN G = DOMAIN F
  BY <1>2, <1>3
<1>6. G = [x \in DOMAIN F |-> F[x]]
  BY <1>1, <1>4, <1>5
<1> QED BY <1>6

\* The dictionary F with v for k.
Assign(F, k, v) == [x \in DOMAIN F \cup {k} |-> IF x = k THEN v ELSE F[x]]

\* A put that is not refused assigns.
LEMMA PutAssigns ==
    ASSUME NEW d \in DBType, WellFormed(d), NEW k \in Seq(Char), NEW v \in Seq(Char),
           Len(d.entries) < d.cap, Len(k) <= MAX_KEY_SIZE
    PROVE  Dict(KVDB_DBObject_put(d, k, v)) = Assign(Dict(d), k, v)
<1> PICK r : r = KVDB_DBObject_put(d, k, v)
  OBVIOUS
<1> PICK F : F = Assign(Dict(d), k, v)
  OBVIOUS
<1> PICK L \in Nat : L = Len(d.entries)
  BY DBParts
<1>1. DOMAIN d.entries = 1 .. L /\ r \in DBType /\ WellFormed(r)
  BY DBParts, PutFacts, PutWellFormed
<1>2. /\ DOMAIN r.entries = 1 .. L + 1
      /\ r.entries[L + 1] = Entry(k, v)
      /\ \A n \in 1 .. L : /\ r.entries[n].key = d.entries[n].key
                           /\ r.entries[n].val = d.entries[n].val
                           /\ r.entries[n].deleted <=> d.entries[n].deleted \/ d.entries[n].key = k
  BY <1>1, PutFacts, SMTT(60)
<1>3. r.entries[L + 1].key = k /\ r.entries[L + 1].val = v /\ ~r.entries[L + 1].deleted
  BY <1>2 DEF Entry
<1>4. \A n \in 1 .. L + 1 : n \in 1 .. L \/ n = L + 1
  OBVIOUS
<1>5. L + 1 \in LiveIDs(r)
  <2>1. L + 1 \in 1 .. L + 1
    OBVIOUS
  <2> QED BY <1>1, <1>2, <1>3, <2>1, DBParts
<1>6. \A n \in 1 .. L : n \in LiveIDs(r) <=> n \in LiveIDs(d) /\ d.entries[n].key # k
  <2>1. \A n \in 1 .. L : n \in 1 .. L + 1
    OBVIOUS
  <2> QED BY <1>1, <1>2, <2>1, DBParts
<1>7. DOMAIN F = DOMAIN Dict(d) \cup {k} /\ F = [x \in DOMAIN F |-> F[x]]
      /\ \A x \in DOMAIN F : F[x] = IF x = k THEN v ELSE Dict(d)[x]
  BY DEF Assign
<1>8. ASSUME NEW n \in LiveIDs(r)
      PROVE  r.entries[n].key \in DOMAIN F /\ F[r.entries[n].key] = r.entries[n].val
  <2>1. n \in 1 .. L \/ n = L + 1
    BY <1>1, <1>2, <1>4, DBParts
  <2>2. CASE n = L + 1
    BY <1>3, <1>7, <2>2
  <2>3. CASE n \in 1 .. L
    <3>1. /\ n \in LiveIDs(d) /\ d.entries[n].key # k
          /\ r.entries[n].key = d.entries[n].key /\ r.entries[n].val = d.entries[n].val
      BY <1>2, <1>6, <2>3
    <3>2. /\ d.entries[n].key \in DOMAIN Dict(d)
          /\ Dict(d)[d.entries[n].key] = d.entries[n].val
      BY <3>1, DictFacts
    <3> QED BY <1>7, <3>1, <3>2
  <2> QED BY <2>1, <2>2, <2>3
<1>9. ASSUME NEW x \in DOMAIN F
      PROVE  \E n \in LiveIDs(r) : r.entries[n].key = x
  <2>1. CASE x = k
    BY <1>3, <1>5, <2>1
  <2>2. CASE x # k
    <3>1. PICK n \in LiveIDs(d) : d.entries[n].key = x
      BY <1>7, <2>2, DictFacts
    <3>2. n \in 1 .. L
      BY <1>1, <3>1, DBParts
    <3> QED BY <1>2, <1>6, <2>2, <3>1, <3>2
  <2> QED BY <2>1, <2>2
<1>10. Dict(r) = F
  <2>1. r \in DBType /\ WellFormed(r) /\ F = [x \in DOMAIN F |-> F[x]]
    BY <1>1, <1>7
  <2> QED BY <1>8, <1>9, <2>1, DictIs
<1> QED BY <1>10

-----------------------------------------------------------------------------
(* What mkdb has done after some lines. *)

FitCount(lines, n) == Cardinality({m \in 1 .. n : Fits(lines[m])})

\* Of the first n lines those that got an entry, and what they assign.
FitUpTo(lines, cap, n) == {m \in 1 .. n : Fits(lines[m]) /\ FitCount(lines, m) <= cap}

Assigned(lines, N) ==
    [k \in {KeyField(lines[n]) : n \in N} |->
       ValField(lines[Max({n \in N : KeyField(lines[n]) = k})])]

Repeats(lines, n) ==
    \E l, m \in 1 .. n : /\ l < m /\ Fits(lines[l]) /\ Fits(lines[m])
                         /\ KeyField(lines[l]) = KeyField(lines[m])

LoadedUpTo(lines, d, n) ==
    /\ Len(d.entries) = IF FitCount(lines, n) <= d.cap THEN FitCount(lines, n) ELSE d.cap
    /\ Dict(d) = Assigned(lines, FitUpTo(lines, d.cap, n))
    /\ \A x \in DOMAIN d.entries :
          /\ \E m \in 1 .. n : Fits(lines[m]) /\ d.entries[x].key = KeyField(lines[m])
          /\ d.entries[x].deleted => Repeats(lines, n)

\* The strings of the lines, which a nul may end.
Strings(lines) == [n \in DOMAIN lines |-> Cut(lines[n])]

LoadInv ==
    run.tool = "mkdb" /\ run.st \in {"running", "done"} /\ run.in # run.out =>
       LET lines == before[run.in].lines
       IN  /\ run.out \in Path
           /\ lines \in Seq(Seq(Char)) /\ i <= Len(lines)
           /\ drift = MovedUpTo(Strings(lines))[i]
           /\ LoadedUpTo(lines, new, i)
           /\ run.st = "done" => i = Len(lines) /\ files[run.out] = new

\* The first m entries of d are in c: the live ones, in their order.
CopiedUpTo(d, c, m) ==
    /\ \A x \in DOMAIN c.entries :
          /\ ~c.entries[x].deleted
          /\ \E n \in LiveIDs(d) : /\ n <= m /\ d.entries[n].key = c.entries[x].key
                                   /\ d.entries[n].val = c.entries[x].val
    /\ \A n \in LiveIDs(d) : n <= m =>
          \E x \in DOMAIN c.entries : /\ c.entries[x].key = d.entries[n].key
                                      /\ c.entries[x].val = d.entries[n].val
    /\ \A l, n \in LiveIDs(d) : l < n /\ n <= m =>
          \E x, y \in DOMAIN c.entries : /\ x < y
                                         /\ c.entries[x].key = d.entries[l].key
                                         /\ c.entries[y].key = d.entries[n].key

CompactInv ==
    run.tool = "dbcompact" /\ run.st \in {"running", "done"} /\ run.in # run.out =>
       /\ run.in \in Path /\ run.out \in Path
       /\ src = before[run.in] /\ files[run.in] = src
       /\ new.cap = src.cap /\ i <= Len(src.entries) /\ Len(new.entries) <= i
       /\ CopiedUpTo(src, new, i)
       /\ run.st = "done" => i = Len(src.entries) /\ files[run.out] = new

OneStepTools == {"newdb", "dbput", "dbdel", "dbdel-by-id", "dbget", "dblskeys", "dbdmp",
                 "dbresize", "dbdmpkv"}

ToolsType ==
    /\ run \in [tool : OneStepTools \cup {"none", "dbcompact", "mkdb"},
                in : Export, out : Export, st : {"running", "done", "killed", "failed", "dead"}]
    /\ files \in [Path -> FileType] /\ before \in [Path -> FileType]
    /\ src \in DBType /\ new \in DBType
    /\ i \in Nat /\ drift \in Nat /\ runs \in Nat

WellFormedFiles ==
    /\ \A p \in Path : files[p].kind = "db" => WellFormed(files[p])
    /\ WellFormed(src) /\ WellFormed(new)

(* The inductive invariant: the files are what the engine writes, and a run  *)
(* that loops has done with what it passed what it is to do with all of it.  *)
ToolsInv ==
    /\ ToolsType
    /\ WellFormedFiles
    /\ LoadInv
    /\ CompactInv
    /\ LoadFaultsOnlyOn

-----------------------------------------------------------------------------
(* The loops of the tools. *)

\* What "%s" prints of a string.
LEMMA CutFacts ==
    ASSUME NEW str \in Seq(Char)
    PROVE  /\ Cut(str) \in Seq(Char)
           /\ (\A n \in 1 .. Len(str) : str[n] # nul) => Cut(str) = str
<1> PICK I : I = {n \in 1 .. Len(str) : str[n] = nul}
  OBVIOUS
<1> PICK end : end = SelectInSeq(str, LAMBDA c : c = nul)
  OBVIOUS
<1>1. end = IF I # {} THEN Min(I) ELSE 0
  BY DEF SelectInSeq
<1>2. Cut(str) = IF end = 0 THEN str ELSE SubSeq(str, 1, end - 1)
  BY DEF Cut
<1>3. CASE I = {}
  BY <1>1, <1>2, <1>3
<1>4. CASE I # {}
  <2>1. I \subseteq Nat /\ \A n \in I : n \in 1 .. Len(str)
    OBVIOUS
  <2>2. end \in I
    BY <1>1, <1>4, <2>1, MinIsLeast
  <2>3. end \in 1 .. Len(str) /\ Len(str) \in Nat
    BY <2>1, <2>2
  <2>4. end - 1 \in Nat /\ end - 1 <= Len(str) /\ end # 0
    BY <2>3, Before
  <2>5. SubSeq(str, 1, end - 1) \in Seq(Char)
    <3>1. 1 \in Nat \ {0}
      OBVIOUS
    <3> QED BY <2>4, <3>1, PartOf
  <2>6. Cut(str) \in Seq(Char)
    BY <1>2, <2>4, <2>5
  <2>7. ~ \A n \in 1 .. Len(str) : str[n] # nul
    BY <1>4
  <2> QED BY <2>6, <2>7
<1> QED BY <1>3, <1>4

LEMMA StringsOf ==
    ASSUME NEW lines \in Seq(Seq(Char))
    PROVE  /\ Strings(lines) \in Seq(Seq(Char)) /\ Len(Strings(lines)) = Len(lines)
           /\ \A n \in 1 .. Len(lines) : Strings(lines)[n] = Cut(lines[n])
<1> PICK L \in Nat : L = Len(lines) /\ DOMAIN lines = 1 .. L
  OBVIOUS
<1>1. \A n \in 1 .. L : Cut(lines[n]) \in Seq(Char)
  <2>1. \A n \in 1 .. L : lines[n] \in Seq(Char)
    OBVIOUS
  <2> QED BY <2>1, CutFacts
<1>2. Strings(lines) = [n \in 1 .. L |-> Cut(lines[n])]
  BY DEF Strings
<1> PICK f : f = Strings(lines)
  OBVIOUS
<1>3. f \in [1 .. L -> Seq(Char)] /\ \A n \in 1 .. L : f[n] = Cut(lines[n])
  BY <1>1, <1>2
<1>4. f \in Seq(Seq(Char)) /\ Len(f) = L
  BY <1>3, FunctionIsSeq
<1> QED BY <1>3, <1>4

\* mkdb takes a line apart as its document has it.
LEMMA PieceFacts ==
    ASSUME NEW piece \in Seq(Char)
    PROVE  /\ Stated(piece) \in Seq(Char) /\ Line(piece) = Stated(piece)
           /\ IsData(piece) <=> Assigns(piece)
           /\ KeyOf(piece) = KeyField(piece) /\ KeyField(piece) \in Seq(Char)
           /\ ValOf(piece) = ValField(piece) /\ ValField(piece) \in Seq(Char)
           /\ Len(Marks(Line(piece), Delim)) = FieldCnt(Stated(piece))
<1> PICK str : str = Cut(piece)
  OBVIOUS
<1> PICK line : line = Stripped(str)
  OBVIOUS
<1>1. str \in Seq(Char) /\ line \in Seq(Char) /\ Line(piece) = line /\ Stated(piece) = line
  BY CutFacts, StripsBoth, StrippedLine DEF Line, Stated
<1>2. IsData(piece) <=> Assigns(piece)
  BY <1>1 DEF IsData, Assigns
<1> PICK toks : toks = MarkTokPosMeta(line, 2, Delim)
  OBVIOUS
<1>3. ASSUME NEW n \in 1 .. 2
      PROVE  TokOf(line, toks[n]) = RowOf(str, 2)[n] /\ TokOf(line, toks[n]) \in Seq(Char)
  <2>1. TokOf(line, toks[n]) = RowOf(str, 2)[n]
    <3>1. 2 \in Nat
      OBVIOUS
    <3> QED BY <1>1, <3>1, CellsOf
  <2> PICK tok : tok = toks[n]
    OBVIOUS
  <2>2. tok.tok_off \in Nat /\ tok.tok_len \in Nat /\ tok.tok_off + tok.tok_len <= Len(line)
    <3>1. 2 \in Nat
      OBVIOUS
    <3> QED BY <1>1, <3>1, ArrayOf
  <2>3. SubSeq(line, tok.tok_off + 1, tok.tok_off + tok.tok_len) \in Seq(Char)
    <3>1. tok.tok_off + 1 \in Nat \ {0} /\ tok.tok_off + tok.tok_len \in Nat
      BY <2>2, SMTT(60)
    <3> QED BY <1>1, <2>2, <3>1, PartOf
  <2> QED BY <2>1, <2>3 DEF TokOf
<1>4. /\ KeyOf(piece) = TokOf(line, toks[1]) /\ ValOf(piece) = TokOf(line, toks[2])
      /\ KeyField(piece) = RowOf(str, 2)[1] /\ ValField(piece) = RowOf(str, 2)[2]
  BY <1>1 DEF KeyOf, ValOf, Toks, KeyField, ValField
<1>5. 1 \in 1 .. 2 /\ 2 \in 1 .. 2
  OBVIOUS
<1>6. Len(Marks(Line(piece), Delim)) = FieldCnt(Stated(piece))
  BY <1>1, MarksOf
<1> QED BY <1>1, <1>2, <1>3, <1>4, <1>5, <1>6

\* A line that does not fit leaves the database as it is.
LEMMA LoadedIs ==
    ASSUME NEW piece \in Seq(Char), new \in DBType
    PROVE  Loaded(piece) = IF Fits(piece)
                           THEN KVDB_DBObject_put(new, KeyField(piece), ValField(piece)) ELSE new
<1>1. /\ KeyField(piece) \in Seq(Char) /\ ValField(piece) \in Seq(Char)
      /\ Loaded(piece) = IF Assigns(piece)
                         THEN KVDB_DBObject_put(new, KeyField(piece), ValField(piece)) ELSE new
  BY PieceFacts DEF Loaded
<1>2. CASE Fits(piece)
  BY <1>1, <1>2 DEF Fits
<1>3. CASE ~Fits(piece) /\ Assigns(piece)
  <2>1. Len(KeyField(piece)) > MAX_KEY_SIZE
    <3>1. Len(KeyField(piece)) \in Nat /\ MAX_KEY_SIZE \in Nat
      BY <1>1, ToolsAssumption
    <3> QED BY <1>3, <3>1 DEF Fits
  <2>2. KVDB_DBObject_put(new, KeyField(piece), ValField(piece)) = new
    BY <1>1, <2>1, PutFacts
  <2> QED BY <1>1, <1>3, <2>2
<1>4. CASE ~Assigns(piece)
  BY <1>1, <1>4 DEF Fits
<1> QED BY <1>2, <1>3, <1>4

\* The pieces that fgets takes a text apart into.
LEMMA WithCharStays ==
    ASSUME NEW pieces \in Seq(Seq(Char)), NEW c \in Char
    PROVE  WithChar(pieces, c) \in Seq(Seq(Char))
<1>1. CASE pieces = <<>> \/ IsWhole(Last(pieces))
  <2>1. <<c>> \in Seq(Char)
    OBVIOUS
  <2>2. Append(pieces, <<c>>) \in Seq(Seq(Char))
    BY <2>1
  <2> QED BY <1>1, <2>2 DEF WithChar
<1>2. CASE ~(pieces = <<>> \/ IsWhole(Last(pieces)))
  <2> PICK L \in Nat \ {0} : L = Len(pieces)
    BY <1>2
  <2>1. pieces[L] \in Seq(Char)
    OBVIOUS
  <2>2. Append(Last(pieces), c) \in Seq(Char)
    BY <2>1 DEF Last
  <2>3. Front(pieces) \in Seq(Seq(Char))
    <3>1. 1 \in Nat \ {0} /\ L - 1 \in Nat /\ L - 1 <= L
      OBVIOUS
    <3> QED BY <3>1, PartOf DEF Front
  <2>4. Append(Front(pieces), Append(Last(pieces), c)) \in Seq(Seq(Char))
    BY <2>2, <2>3
  <2> QED BY <1>2, <2>4 DEF WithChar
<1> QED BY <1>1, <1>2

PiecesTurn(str) == [n \in 1 .. Len(str) |-> [s \in Seq(Seq(Char)) |-> WithChar(s, str[n])]]

PiecesLoop(str, f) == f = [n \in 0 .. Len(str) |->
                             IF n = 0 THEN <<>> ELSE WithChar(f[n - 1], str[n])]

LEMMA PiecesLoops ==
    ASSUME NEW str \in Seq(Char)
    PROVE  \E f : /\ PiecesOf(str) = f[Len(str)] /\ f[0] = <<>>
                  /\ \A n \in 0 .. Len(str) : f[n] \in Seq(Seq(Char))
                  /\ \A n \in 1 .. Len(str) : f[n] = WithChar(f[n - 1], str[n])
<1> PICK L \in Nat : L = Len(str)
  OBVIOUS
<1> PICK S : S = Seq(Seq(Char))
  OBVIOUS
<1> PICK step : step = PiecesTurn(str)
  OBVIOUS
<1> PICK none : none = <<>>
  OBVIOUS
<1>1. none \in S /\ Turns(step, L, S)
  <2>1. \A n \in 1 .. L : str[n] \in Char
    OBVIOUS
  <2>2. none \in S
    OBVIOUS
  <2> QED BY <2>1, <2>2, WithCharStays DEF Turns, PiecesTurn
<1>2. \E f : Loop(f, L, none, step)
  BY <1>1, LoopComputes
<1>3. ASSUME NEW f, Loop(f, L, none, step) PROVE PiecesLoop(str, f)
  <2>1. \A n \in 0 .. L : f[n] \in S
    BY <1>1, <1>3, LoopStays
  <2>2. ASSUME NEW n \in 0 .. L
        PROVE  f[n] = IF n = 0 THEN none ELSE WithChar(f[n - 1], str[n])
    <3>1. CASE n = 0
      BY <1>3, <3>1, LoopTurns
    <3>2. CASE n \in 1 .. L /\ n - 1 \in 0 .. L
      <4>1. f[n] = step[n][f[n - 1]] /\ f[n - 1] \in S /\ n # 0
        BY <1>3, <2>1, <3>2, LoopTurns
      <4> QED BY <3>2, <4>1 DEF PiecesTurn
    <3> QED BY <3>1, <3>2, OneOrMore
  <2>3. f = [n \in 0 .. L |-> f[n]]
    BY <1>3 DEF Loop
  <2> QED BY <2>2, <2>3 DEF PiecesLoop
<1> PICK f : f = CHOOSE h : PiecesLoop(str, h)
  OBVIOUS
<1>4. PiecesLoop(str, f)
  BY <1>2, <1>3
<1>5. /\ f[0] = none /\ DOMAIN f = 0 .. L
      /\ \A n \in 1 .. L : f[n] = WithChar(f[n - 1], str[n])
  <2>1. 0 \in 0 .. L /\ \A n \in 1 .. L : n \in 0 .. L /\ n # 0
    OBVIOUS
  <2>2. f = [n \in 0 .. L |-> IF n = 0 THEN none ELSE WithChar(f[n - 1], str[n])]
    BY <1>4 DEF PiecesLoop
  <2> QED BY <2>1, <2>2
<1>6. \A n \in 0 .. L : f[n] \in S
  <2> DEFINE B == {n \in 0 .. L : f[n] \in S}
  <2>1. 0 \in B
    <3>1. 0 \in 0 .. L
      OBVIOUS
    <3>2. f[0] \in S
      BY <1>1, <1>5
    <3> QED BY <3>1, <3>2
  <2>2. ASSUME NEW n \in 1 .. L, n - 1 \in B PROVE n \in B
    <3>1. str[n] \in Char /\ f[n - 1] \in S
      BY <2>2
    <3>2. f[n] \in S
      BY <1>5, <3>1, WithCharStays
    <3> QED BY <3>2
  <2>3. 0 .. L \subseteq B
    <3> HIDE DEF B
    <3> QED BY <2>1, <2>2, Reaches
  <2> QED BY <2>3
<1>7. PiecesOf(str) = f[L]
  BY DEF PiecesOf, PiecesLoop
<1> QED BY <1>5, <1>6, <1>7

LEMMA PiecesTyped ==
    ASSUME NEW str \in Seq(Char)
    PROVE  PiecesOf(str) \in Seq(Seq(Char))
<1>1. PICK f : /\ PiecesOf(str) = f[Len(str)]
               /\ \A n \in 0 .. Len(str) : f[n] \in Seq(Seq(Char))
  BY PiecesLoops
<1>2. Len(str) \in 0 .. Len(str)
  OBVIOUS
<1> QED BY <1>1, <1>2

\* A piece goes on as long as it has room and no newline has come.
LEMMA WithCharGoesOn ==
    ASSUME NEW str \in Seq(Char), NEW n \in 1 .. Len(str) - 1, str[n] # nl, n < BUFFER_SIZE - 1
    PROVE  WithChar(<<SubSeq(str, 1, n)>>, str[n + 1]) = <<SubSeq(str, 1, n + 1)>>
<1> PICK p : p = SubSeq(str, 1, n)
  OBVIOUS
<1> PICK one : one = <<p>>
  OBVIOUS
<1>0. n \in Nat \ {0} /\ n + 1 \in Nat /\ n <= Len(str) /\ n + 1 <= Len(str) /\ 1 \in Nat \ {0}
      /\ n - 1 + 1 = n /\ n + 1 - 1 + 1 = n + 1 /\ 1 <= n + 1
  OBVIOUS
<1>1. p \in Seq(Char) /\ Len(p) = n /\ \A x \in 1 .. n : p[x] = str[x]
  <2>1. /\ p \in Seq(Char) /\ Len(p) = IF 1 <= n THEN n - 1 + 1 ELSE 0
        /\ \A x \in 1 .. n - 1 + 1 : p[x] = str[1 + x - 1]
    BY <1>0, PartOf
  <2>2. \A x \in 1 .. n : 1 + x - 1 = x
    OBVIOUS
  <2> QED BY <1>0, <2>1, <2>2
<1>2. one \in Seq(Seq(Char)) /\ Len(one) = 1 /\ one # <<>> /\ one[1] = p
  BY <1>1
<1>3. Last(one) = p
  BY <1>2 DEF Last
<1>4. ~IsWhole(p)
  <2>1. Last(p) = str[n] /\ Len(p) = n
    BY <1>0, <1>1 DEF Last
  <2>2. n # BUFFER_SIZE - 1
    BY ToolsAssumption
  <2> QED BY <2>1, <2>2 DEF IsWhole
<1>5. Front(one) = <<>>
  BY <1>2 DEF Front
<1>6. Append(p, str[n + 1]) = SubSeq(str, 1, n + 1)
  <2> PICK q : q = SubSeq(str, 1, n + 1)
    OBVIOUS
  <2> PICK a : a = Append(p, str[n + 1])
    OBVIOUS
  <2>1. q \in Seq(Char) /\ Len(q) = n + 1 /\ \A x \in 1 .. n + 1 : q[x] = str[x]
    <3>1. /\ q \in Seq(Char) /\ Len(q) = IF 1 <= n + 1 THEN n + 1 - 1 + 1 ELSE 0
          /\ \A x \in 1 .. n + 1 - 1 + 1 : q[x] = str[1 + x - 1]
      BY <1>0, PartOf
    <3>2. \A x \in 1 .. n + 1 : 1 + x - 1 = x
      OBVIOUS
    <3> QED BY <1>0, <3>1, <3>2
  <2>2. str[n + 1] \in Char
    BY <1>0
  <2>3. /\ a \in Seq(Char) /\ Len(a) = n + 1 /\ a[n + 1] = str[n + 1]
        /\ \A x \in 1 .. n : a[x] = p[x]
    BY <1>1, <2>2, AppendProperties
  <2>4. \A x \in 1 .. n + 1 : a[x] = q[x]
    <3>1. \A x \in 1 .. n + 1 : x \in 1 .. n \/ x = n + 1
      OBVIOUS
    <3> QED BY <1>1, <2>1, <2>3, <3>1
  <2> QED BY <2>1, <2>3, <2>4, SeqEqual
<1>7. WithChar(one, str[n + 1]) = Append(<<>>, Append(p, str[n + 1]))
  BY <1>2, <1>3, <1>4, <1>5 DEF WithChar
<1>8. Append(<<>>, SubSeq(str, 1, n + 1)) = <<SubSeq(str, 1, n + 1)>>
  OBVIOUS
<1> QED BY <1>6, <1>7, <1>8

\* A line that fits the buffer and ends in its only newline is one piece.
LEMMA OnePiece ==
    ASSUME NEW str \in Seq(Char), str # <<>>, Len(str) < BUFFER_SIZE,
           \A n \in 1 .. Len(str) - 1 : str[n] # nl
    PROVE  PiecesOf(str) = <<str>>
<1> PICK L \in Nat \ {0} : L = Len(str)
  OBVIOUS
<1>1. PICK f : /\ PiecesOf(str) = f[L] /\ f[0] = <<>>
               /\ \A n \in 1 .. L : f[n] = WithChar(f[n - 1], str[n])
  BY PiecesLoops
<1> DEFINE B == {n \in 0 .. L : n = 0 \/ f[n] = <<SubSeq(str, 1, n)>>}
<1>2. 0 \in B
  OBVIOUS
<1>3. ASSUME NEW n \in 1 .. L, n - 1 \in B PROVE n \in B
  <2>1. CASE n = 1
    <3>1. f[1] = WithChar(<<>>, str[1])
      BY <1>1, <2>1
    <3>2. WithChar(<<>>, str[1]) = <<<<str[1]>>>>
      BY DEF WithChar
    <3>3. <<str[1]>> = SubSeq(str, 1, 1)
      OBVIOUS
    <3> QED BY <2>1, <3>1, <3>2, <3>3
  <2>2. CASE n # 1
    <3> PICK k \in 1 .. L - 1 : k = n - 1 /\ k + 1 = n
      BY <2>2
    <3>1. f[k] = <<SubSeq(str, 1, k)>>
      BY <1>3
    <3>2. str[k] # nl /\ k < BUFFER_SIZE - 1
      BY ToolsAssumption
    <3>3. WithChar(<<SubSeq(str, 1, k)>>, str[k + 1]) = <<SubSeq(str, 1, k + 1)>>
      BY <3>2, WithCharGoesOn
    <3>4. f[n] = WithChar(f[k], str[k + 1])
      BY <1>1
    <3>5. f[n] = <<SubSeq(str, 1, n)>>
      BY <3>1, <3>3, <3>4
    <3> QED BY <3>5
  <2> QED BY <2>1, <2>2
<1>4. 0 .. L \subseteq B
  <2> HIDE DEF B
  <2> QED BY <1>2, <1>3, Reaches
<1>5. f[L] = <<SubSeq(str, 1, L)>>
  <2>1. L \in B /\ L # 0
    <3> HIDE DEF B
    <3> QED BY <1>4
  <2> QED BY <2>1
<1>6. SubSeq(str, 1, L) = str
  OBVIOUS
<1> QED BY <1>1, <1>5, <1>6

LEMMA PrintedTyped ==
    ASSUME NEW d \in DBType, NEW n \in DOMAIN d.entries
    PROVE  PiecesOf(Printed(d.entries[n])) \in Seq(Seq(Char))
<1> PICK k \in Seq(Char) : k = Cut(d.entries[n].key)
  BY DBParts, CutFacts
<1> PICK v \in Seq(Char) : v = Cut(d.entries[n].val)
  BY DBParts, CutFacts
<1>1. <<Delim>> \in Seq(Char) /\ <<nl>> \in Seq(Char)
  BY ToolsAssumption
<1>2. k \o <<Delim>> \o v \o <<nl>> \in Seq(Char)
  BY <1>1
<1>3. Printed(d.entries[n]) \in Seq(Char)
  BY <1>2 DEF Printed
<1> QED BY <1>3, PiecesTyped

\* D is the dump of the first n entries of d, each of which is one line.
DumpOf(d, D, n) ==
    /\ Len(D) = CountIn(LiveIDs(d), n)
    /\ \A x \in DOMAIN D : \E m \in LiveIDs(d) : D[x] = Printed(d.entries[m])
    /\ \A m \in LiveIDs(d) : m <= n => \E x \in DOMAIN D : D[x] = Printed(d.entries[m])

LineEach(d) == \A n \in LiveIDs(d) : PiecesOf(Printed(d.entries[n])) = <<Printed(d.entries[n])>>

Longer(E, D, e) ==
    /\ E \in Seq(Seq(Char)) /\ Len(D) \in Nat /\ Len(E) = Len(D) + 1
    /\ Len(D) + 1 \in DOMAIN E /\ E[Len(D) + 1] = e
    /\ \A x \in DOMAIN D : x \in DOMAIN E /\ E[x] = D[x]
    /\ \A x \in DOMAIN E : x \in DOMAIN D \/ x = Len(D) + 1

LEMMA LineAdded ==
    ASSUME NEW D \in Seq(Seq(Char)), NEW e \in Seq(Char)
    PROVE  Longer(Append(D, e), D, e)
<1> PICK E : E = Append(D, e)
  OBVIOUS
<1>1. Longer(E, D, e)
  BY DEF Longer
<1> QED BY <1>1

LEMMA DumpStep ==
    ASSUME NEW d \in DBType, NEW k \in Nat, k + 1 \in DOMAIN d.entries, LineEach(d),
           NEW D \in Seq(Seq(Char)), DumpOf(d, D, k),
           NEW E, E = IF d.entries[k + 1].deleted THEN D
                      ELSE D \o PiecesOf(Printed(d.entries[k + 1]))
    PROVE  E \in Seq(Seq(Char)) /\ DumpOf(d, E, k + 1)
<1>1. LiveIDs(d) \subseteq Nat /\ (k + 1 \in LiveIDs(d) <=> ~d.entries[k + 1].deleted)
  BY DBParts
<1>2. CountIn(LiveIDs(d), k + 1) =
         CountIn(LiveIDs(d), k) + (IF k + 1 \in LiveIDs(d) THEN 1 ELSE 0)
  BY <1>1, CountStep
<1>3. \A m \in LiveIDs(d) : m <= k + 1 => m <= k \/ m = k + 1
  BY <1>1
<1>4. CASE d.entries[k + 1].deleted
  <2>1. E = D /\ k + 1 \notin LiveIDs(d)
    BY <1>1, <1>4
  <2>2. Len(D) = CountIn(LiveIDs(d), k + 1)
    <3>1. Len(D) = CountIn(LiveIDs(d), k) /\ Len(D) \in Nat
      BY DEF DumpOf
    <3> QED BY <1>2, <2>1, <3>1
  <2>3. \A m \in LiveIDs(d) : m <= k + 1 => m <= k
    BY <1>3, <2>1
  <2> QED BY <2>1, <2>2, <2>3 DEF DumpOf
<1>5. CASE ~d.entries[k + 1].deleted
  <2> PICK e : e = Printed(d.entries[k + 1])
    OBVIOUS
  <2>1. e \in Seq(Char) /\ k + 1 \in LiveIDs(d) /\ E = Append(D, e)
    <3>1. k + 1 \in LiveIDs(d)
      BY <1>1, <1>5
    <3>2. PiecesOf(e) = <<e>> /\ PiecesOf(e) \in Seq(Seq(Char))
      BY <3>1, PrintedTyped DEF LineEach
    <3>3. <<e>>[1] \in Seq(Char)
      BY <3>2
    <3>4. E = D \o <<e>>
      BY <1>5, <3>2
    <3> QED BY <3>1, <3>3, <3>4, AppendIsConcat
  <2>2. /\ E \in Seq(Seq(Char)) /\ Len(D) \in Nat /\ Len(E) = Len(D) + 1
        /\ Len(D) + 1 \in DOMAIN E /\ E[Len(D) + 1] = e
        /\ \A x \in DOMAIN D : x \in DOMAIN E /\ E[x] = D[x]
        /\ \A x \in DOMAIN E : x \in DOMAIN D \/ x = Len(D) + 1
    <3>1. Longer(Append(D, e), D, e)
      BY <2>1, LineAdded
    <3> QED BY <2>1, <3>1 DEF Longer
  <2>3. Len(E) = CountIn(LiveIDs(d), k + 1)
    BY <1>2, <2>1, <2>2 DEF DumpOf
  <2>4. \A x \in DOMAIN E : \E m \in LiveIDs(d) : E[x] = Printed(d.entries[m])
    BY <2>1, <2>2, SMTT(60) DEF DumpOf
  <2>5. \A m \in LiveIDs(d) : m <= k + 1 => \E x \in DOMAIN E : E[x] = Printed(d.entries[m])
    BY <1>3, <2>2, ZenonT(60) DEF DumpOf
  <2> QED BY <2>2, <2>3, <2>4, <2>5 DEF DumpOf
<1> QED BY <1>4, <1>5

\* The loop of a dump.
DumpTurn(d) == [n \in 1 .. Len(d.entries) |->
                  [s \in Seq(Seq(Char)) |-> IF d.entries[n].deleted THEN s
                                            ELSE s \o PiecesOf(Printed(d.entries[n]))]]

LEMMA DumpTurns ==
    ASSUME NEW d \in DBType
    PROVE  Turns(DumpTurn(d), Len(d.entries), Seq(Seq(Char)))
<1>1. ASSUME NEW n \in 1 .. Len(d.entries), NEW s \in Seq(Seq(Char))
      PROVE  DumpTurn(d)[n][s] \in Seq(Seq(Char))
  <2>1. PiecesOf(Printed(d.entries[n])) \in Seq(Seq(Char))
    BY DBParts, PrintedTyped
  <2>2. s \o PiecesOf(Printed(d.entries[n])) \in Seq(Seq(Char))
    BY <2>1
  <2> QED BY <2>2 DEF DumpTurn
<1> QED BY <1>1 DEF Turns

DumpLoop(d, f) == f = [n \in 0 .. Len(d.entries) |->
                         IF n = 0 THEN <<>>
                         ELSE IF d.entries[n].deleted THEN f[n - 1]
                         ELSE f[n - 1] \o PiecesOf(Printed(d.entries[n]))]

LEMMA DumpLoops ==
    ASSUME NEW d \in DBType
    PROVE  \E f : DumpLoop(d, f) /\ Dump(d) = f[Len(d.entries)]
<1> PICK L \in Nat : L = Len(d.entries)
  BY DBParts
<1> PICK S : S = Seq(Seq(Char))
  OBVIOUS
<1> PICK step : step = DumpTurn(d)
  OBVIOUS
<1> PICK none : none = <<>>
  OBVIOUS
<1>1. none \in S /\ Turns(step, L, S)
  BY DumpTurns
<1>2. PICK f : Loop(f, L, none, step)
  BY <1>1, LoopComputes
<1>3. /\ \A n \in 0 .. L : f[n] \in S
      /\ f[0] = none
      /\ \A n \in 1 .. L : f[n] = step[n][f[n - 1]]
  <2>1. \A n \in 0 .. L : f[n] \in S
    BY <1>1, <1>2, LoopStays
  <2> QED BY <1>2, <2>1, LoopTurns
<1>4. ASSUME NEW n \in 0 .. L
      PROVE  f[n] = IF n = 0 THEN none
                    ELSE IF d.entries[n].deleted THEN f[n - 1]
                    ELSE f[n - 1] \o PiecesOf(Printed(d.entries[n]))
  <2>1. CASE n = 0
    BY <1>3, <2>1
  <2>2. CASE n # 0
    <3>1. n \in 1 .. L /\ n - 1 \in 0 .. L
      BY <2>2
    <3>2. f[n - 1] \in S /\ f[n] = step[n][f[n - 1]]
      BY <1>3, <3>1
    <3> QED BY <2>2, <3>1, <3>2 DEF DumpTurn
  <2> QED BY <2>1, <2>2
<1>5. DumpLoop(d, f)
  <2>1. f = [n \in 0 .. L |-> f[n]]
    BY <1>2 DEF Loop
  <2> QED BY <1>4, <2>1 DEF DumpLoop
<1> PICK g : g = CHOOSE h : DumpLoop(d, h)
  OBVIOUS
<1>6. DumpLoop(d, g)
  BY <1>5
<1>7. Dump(d) = g[L]
  BY DEF Dump, DumpLoop
<1> QED BY <1>6, <1>7

LEMMA DumpFacts ==
    ASSUME NEW d \in DBType
    PROVE  /\ Dump(d) \in Seq(Seq(Char))
           /\ LineEach(d) => DumpOf(d, Dump(d), Len(d.entries))
<1> PICK L \in Nat : L = Len(d.entries)
  BY DBParts
<1>1. PICK f : DumpLoop(d, f) /\ Dump(d) = f[L]
  BY DumpLoops
<1> PICK none : none = <<>>
  OBVIOUS
<1>2. /\ f[0] = none
      /\ \A n \in 1 .. L : f[n] = IF d.entries[n].deleted THEN f[n - 1]
                                  ELSE f[n - 1] \o PiecesOf(Printed(d.entries[n]))
  <2>1. f = [n \in 0 .. L |-> IF n = 0 THEN none
                              ELSE IF d.entries[n].deleted THEN f[n - 1]
                              ELSE f[n - 1] \o PiecesOf(Printed(d.entries[n]))]
    BY <1>1 DEF DumpLoop
  <2>2. 0 \in 0 .. L /\ \A n \in 1 .. L : n \in 0 .. L /\ n # 0
    OBVIOUS
  <2> QED BY <2>1, <2>2
<1> DEFINE B == {n \in 0 .. L : f[n] \in Seq(Seq(Char)) /\ (LineEach(d) => DumpOf(d, f[n], n))}
<1>3. 0 \in B
  <2>1. \A m \in LiveIDs(d) : m \in Nat /\ ~(m <= 0)
    BY DBParts
  <2>2. LiveIDs(d) \subseteq Nat
    BY <2>1
  <2>3. CountIn(LiveIDs(d), 0) = 0
    BY <2>2, CountStep
  <2>4. none \in Seq(Seq(Char)) /\ Len(none) = 0 /\ DOMAIN none = {}
    OBVIOUS
  <2>5. DumpOf(d, none, 0)
    BY <2>1, <2>3, <2>4 DEF DumpOf
  <2>6. 0 \in 0 .. L /\ f[0] \in Seq(Seq(Char)) /\ DumpOf(d, f[0], 0)
    BY <1>2, <2>4, <2>5
  <2> QED BY <2>6
<1>4. ASSUME NEW n \in 1 .. L, n - 1 \in B
      PROVE  n \in B
  <2> PICK k \in Nat : k = n - 1 /\ k + 1 = n
    OBVIOUS
  <2>1. f[k] \in Seq(Seq(Char)) /\ (LineEach(d) => DumpOf(d, f[k], k))
    BY <1>4
  <2>2. f[n] = IF d.entries[k + 1].deleted THEN f[k]
               ELSE f[k] \o PiecesOf(Printed(d.entries[k + 1]))
    BY <1>2
  <2>3. k + 1 \in DOMAIN d.entries
    BY DBParts
  <2>4. LineEach(d) => DumpOf(d, f[n], k + 1)
    BY <2>1, <2>2, <2>3, DumpStep
  <2>5. f[n] \in Seq(Seq(Char))
    <3>1. PiecesOf(Printed(d.entries[k + 1])) \in Seq(Seq(Char))
      BY <2>3, PrintedTyped
    <3> QED BY <2>1, <2>2, <3>1
  <2> QED BY <2>4, <2>5
<1>5. 0 .. L \subseteq B
  <2> HIDE DEF B
  <2> QED BY <1>3, <1>4, Reaches
<1>6. L \in B
  <2> HIDE DEF B
  <2> QED BY <1>5
<1> QED BY <1>1, <1>6

\* Counting lines that fit, and what one line more assigns.
LEMMA FitCountStep ==
    ASSUME NEW lines, NEW n \in Nat
    PROVE  /\ FitCount(lines, 0) = 0
           /\ FitCount(lines, n) \in Nat /\ FitCount(lines, n) <= n
           /\ FitCount(lines, n + 1) = FitCount(lines, n) + (IF Fits(lines[n + 1]) THEN 1 ELSE 0)
<1> PICK S : S = {m \in Nat : Fits(lines[m])}
  OBVIOUS
<1>1. ASSUME NEW m \in Nat PROVE FitCount(lines, m) = CountIn(S, m)
  <2>1. {x \in 1 .. m : Fits(lines[x])} = {x \in 1 .. m : x \in S}
    OBVIOUS
  <2> QED BY <2>1 DEF FitCount, CountIn
<1>2. S \subseteq Nat /\ (n + 1 \in S <=> Fits(lines[n + 1]))
  OBVIOUS
<1>3. /\ CountIn(S, 0) = 0 /\ CountIn(S, n) \in Nat /\ CountIn(S, n) <= n
      /\ CountIn(S, n + 1) = CountIn(S, n) + (IF n + 1 \in S THEN 1 ELSE 0)
  BY <1>2, CountStep
<1>4. FitCount(lines, 0) = CountIn(S, 0) /\ FitCount(lines, n) = CountIn(S, n)
      /\ FitCount(lines, n + 1) = CountIn(S, n + 1)
  BY <1>1
<1> QED BY <1>2, <1>3, <1>4

LEMMA FitStep ==
    ASSUME NEW lines, NEW cap \in Nat, NEW n \in Nat
    PROVE  FitUpTo(lines, cap, n + 1) =
              IF Fits(lines[n + 1]) /\ FitCount(lines, n + 1) <= cap
              THEN FitUpTo(lines, cap, n) \cup {n + 1} ELSE FitUpTo(lines, cap, n)
<1>1. \A m : m \in 1 .. n + 1 <=> m \in 1 .. n \/ m = n + 1
  OBVIOUS
<1> QED BY <1>1 DEF FitUpTo

LEMMA AssignedNext ==
    ASSUME NEW lines, NEW n \in Nat, NEW N, N \subseteq 1 .. n
    PROVE  Assigned(lines, N \cup {n + 1}) =
              Assign(Assigned(lines, N), KeyField(lines[n + 1]), ValField(lines[n + 1]))
<1> PICK M : M = N \cup {n + 1}
  OBVIOUS
<1> PICK key : key = KeyField(lines[n + 1])
  OBVIOUS
<1> DEFINE Of(S, k) == {x \in S : KeyField(lines[x]) = k}
           A == Assigned(lines, N)
<1>1. {KeyField(lines[x]) : x \in M} = {KeyField(lines[x]) : x \in N} \cup {key}
  OBVIOUS
<1>2. DOMAIN A = {KeyField(lines[x]) : x \in N}
  BY DEF Assigned
<1>3. Max(Of(M, key)) = n + 1
  <2>1. M \subseteq 0 .. n + 1 /\ \A x \in M : x <= n + 1
    OBVIOUS
  <2>2. n + 1 \in Of(M, key)
    OBVIOUS
  <2>3. Of(M, key) \subseteq 0 .. n + 1 /\ n + 1 \in Nat
    <3>1. \A x \in Of(M, key) : x \in M
      OBVIOUS
    <3>2. n + 1 \in Nat
      OBVIOUS
    <3> HIDE DEF Of
    <3> QED BY <2>1, <3>1, <3>2
  <2>4. Max(Of(M, key)) \in Of(M, key) /\ \A x \in Of(M, key) : x <= Max(Of(M, key))
    <3> HIDE DEF Of
    <3> QED BY <2>2, <2>3, MaxIsGreatest
  <2>5. Max(Of(M, key)) <= n + 1 /\ n + 1 <= Max(Of(M, key)) /\ Max(Of(M, key)) \in 0 .. n + 1
    <3>1. Max(Of(M, key)) \in M
      <4>1. \A x \in Of(M, key) : x \in M
        OBVIOUS
      <4> HIDE DEF Of
      <4> QED BY <2>4, <4>1
    <3> HIDE DEF Of
    <3> QED BY <2>1, <2>2, <2>4, <3>1
  <2> HIDE DEF Of
  <2> QED BY <2>5
<1>4. \A k : k # key => Of(M, k) = Of(N, k)
  OBVIOUS
<1>5. ASSUME NEW k \in DOMAIN A \cup {key}
      PROVE  ValField(lines[Max(Of(M, k))]) = IF k = key THEN ValField(lines[n + 1]) ELSE A[k]
  <2>1. CASE k = key
    <3> HIDE DEF Of
    <3> QED BY <1>3, <2>1
  <2>2. CASE k # key
    <3>1. k \in {KeyField(lines[x]) : x \in N}
      BY <1>2, <2>2
    <3>2. A[k] = ValField(lines[Max(Of(N, k))])
      BY <3>1 DEF Assigned
    <3> HIDE DEF Of, A
    <3> QED BY <1>4, <2>2, <3>2
  <2> QED BY <2>1, <2>2
<1>6. Assigned(lines, M) = [k \in DOMAIN A \cup {key} |-> ValField(lines[Max(Of(M, k))])]
  BY <1>1, <1>2 DEF Assigned
<1>7. Assigned(lines, M) = [k \in DOMAIN A \cup {key} |-> IF k = key THEN ValField(lines[n + 1]) ELSE A[k]]
  <2> HIDE DEF Of, A
  <2> QED BY <1>5, <1>6
<1> QED BY <1>7 DEF Assign

\* Loading one line more.
LEMMA LoadStep ==
    ASSUME NEW lines \in Seq(Seq(Char)), NEW n \in Nat, n + 1 \in 1 .. Len(lines),
           NEW d \in DBType, WellFormed(d), LoadedUpTo(lines, d, n),
           NEW r, r = IF Fits(lines[n + 1])
                      THEN KVDB_DBObject_put(d, KeyField(lines[n + 1]), ValField(lines[n + 1])) ELSE d
    PROVE  r \in DBType /\ WellFormed(r) /\ r.cap = d.cap /\ LoadedUpTo(lines, r, n + 1)
<1> PICK k : k = KeyField(lines[n + 1])
  OBVIOUS
<1> PICK v : v = ValField(lines[n + 1])
  OBVIOUS
<1> PICK L \in Nat : L = Len(d.entries)
  BY DBParts
<1> PICK c : c = FitCount(lines, n)
  OBVIOUS
<1> PICK N : N = FitUpTo(lines, d.cap, n)
  OBVIOUS
<1>1. d.cap \in Nat /\ DOMAIN d.entries = 1 .. L
  BY DBParts
<1>2. c \in Nat /\ FitCount(lines, n + 1) = c + (IF Fits(lines[n + 1]) THEN 1 ELSE 0)
  BY FitCountStep
<1>3. FitUpTo(lines, d.cap, n + 1) =
         IF Fits(lines[n + 1]) /\ FitCount(lines, n + 1) <= d.cap THEN N \cup {n + 1} ELSE N
  BY <1>1, FitStep
<1>4. /\ L = IF c <= d.cap THEN c ELSE d.cap
      /\ Dict(d) = Assigned(lines, N)
      /\ \A x \in DOMAIN d.entries :
            /\ \E m \in 1 .. n : Fits(lines[m]) /\ d.entries[x].key = KeyField(lines[m])
            /\ d.entries[x].deleted => Repeats(lines, n)
  BY DEF LoadedUpTo
<1>5. \A m \in 1 .. n : m \in 1 .. n + 1 /\ m < n + 1
  OBVIOUS
<1>6. /\ Repeats(lines, n) => Repeats(lines, n + 1)
      /\ n + 1 \in 1 .. n + 1
  BY <1>5 DEF Repeats
<1>7. \A x \in DOMAIN d.entries :
         /\ \E m \in 1 .. n + 1 : Fits(lines[m]) /\ d.entries[x].key = KeyField(lines[m])
         /\ d.entries[x].deleted => Repeats(lines, n + 1)
  BY <1>4, <1>5, <1>6
<1>8. CASE r = d /\ FitCount(lines, n + 1) = c
  <2>1. Fits(lines[n + 1]) => FALSE
    BY <1>2, <1>8
  <2> QED BY <1>3, <1>4, <1>7, <1>8, <2>1 DEF LoadedUpTo
<1>9. CASE r = d /\ FitCount(lines, n + 1) > d.cap
  <2>1. L = d.cap
    BY <1>1, <1>2, <1>4, <1>9
  <2>2. FitUpTo(lines, d.cap, n + 1) = N /\ ~(FitCount(lines, n + 1) <= d.cap)
    BY <1>1, <1>2, <1>3, <1>9, SMTT(60)
  <2> QED BY <1>4, <1>7, <1>9, <2>1, <2>2 DEF LoadedUpTo
<1>10. CASE Fits(lines[n + 1]) /\ L < d.cap
  <2>1. /\ k \in Seq(Char) /\ v \in Seq(Char) /\ Len(k) <= MAX_KEY_SIZE
        /\ r = KVDB_DBObject_put(d, k, v)
    BY <1>10, PieceFacts DEF Fits
  <2>2. c = L /\ FitCount(lines, n + 1) = L + 1 /\ L + 1 <= d.cap
    BY <1>1, <1>2, <1>4, <1>10
  <2>3. /\ r \in DBType /\ r.cap = d.cap /\ Len(r.entries) = L + 1
        /\ DOMAIN r.entries = 1 .. L + 1
        /\ r.entries[L + 1] = Entry(k, v)
        /\ \A x \in 1 .. L : /\ r.entries[x].key = d.entries[x].key
                             /\ r.entries[x].deleted <=> d.entries[x].deleted \/ d.entries[x].key = k
    <3>1. Len(d.entries) < d.cap /\ Len(k) <= MAX_KEY_SIZE
      BY <1>10, <2>1
    <3>2. r \in DBType /\ r.cap = d.cap /\ Appended(r, d, L, k, v)
      BY <2>1, <3>1, PutAppends
    <3> QED BY <3>2 DEF Appended
  <2>4. WellFormed(r)
    BY <2>1, PutWellFormed
  <2>5. Dict(r) = Assign(Dict(d), k, v)
    BY <1>10, <2>1, PutAssigns
  <2>6. Assigned(lines, N \cup {n + 1}) = Assign(Assigned(lines, N), k, v)
    <3>1. N \subseteq 1 .. n
      BY DEF FitUpTo
    <3> QED BY <3>1, AssignedNext
  <2>7. Dict(r) = Assigned(lines, FitUpTo(lines, r.cap, n + 1))
    BY <1>3, <1>4, <1>10, <2>2, <2>3, <2>5, <2>6
  <2>8. ASSUME NEW x \in 1 .. L + 1
        PROVE  /\ \E m \in 1 .. n + 1 : Fits(lines[m]) /\ r.entries[x].key = KeyField(lines[m])
               /\ r.entries[x].deleted => Repeats(lines, n + 1)
    <3>1. x \in 1 .. L \/ x = L + 1
      OBVIOUS
    <3>2. CASE x = L + 1
      <4>1. r.entries[x].key = k /\ ~r.entries[x].deleted
        BY <2>3, <3>2 DEF Entry
      <4> QED BY <1>6, <1>10, <4>1
    <3>3. CASE x \in 1 .. L
      <4>1. r.entries[x].key = d.entries[x].key
        BY <2>3, <3>3
      <4>2. PICK m \in 1 .. n : Fits(lines[m]) /\ d.entries[x].key = KeyField(lines[m])
        BY <1>1, <1>4, <3>3
      <4>3. d.entries[x].key = k => Repeats(lines, n + 1)
        BY <1>5, <1>6, <1>10, <4>2 DEF Repeats
      <4>4. r.entries[x].deleted => d.entries[x].deleted \/ d.entries[x].key = k
        BY <2>3, <3>3
      <4> QED BY <1>1, <1>7, <3>3, <4>1, <4>3, <4>4
    <3> QED BY <3>1, <3>2, <3>3
  <2>9. Len(r.entries) = IF FitCount(lines, n + 1) <= r.cap THEN FitCount(lines, n + 1) ELSE r.cap
    BY <2>2, <2>3
  <2> QED BY <2>3, <2>4, <2>7, <2>8, <2>9 DEF LoadedUpTo
<1>11. CASE Fits(lines[n + 1]) /\ ~(L < d.cap)
  <2>1. k \in Seq(Char) /\ v \in Seq(Char) /\ r = KVDB_DBObject_put(d, k, v)
    BY <1>11, PieceFacts
  <2>2. r = d
    <3>1. Len(d.entries) >= d.cap
      BY <1>1, <1>11
    <3> QED BY <2>1, <3>1 DEF KVDB_DBObject_put
  <2>3. FitCount(lines, n + 1) > d.cap
    BY <1>1, <1>2, <1>4, <1>11
  <2> QED BY <1>9, <2>2, <2>3
<1>12. CASE ~Fits(lines[n + 1])
  <2>1. r = d /\ FitCount(lines, n + 1) = c
    BY <1>2, <1>12
  <2> QED BY <1>8, <2>1
<1> QED BY <1>10, <1>11, <1>12

\* Before the first line.
LEMMA LoadBegins ==
    ASSUME NEW lines, NEW cap \in Nat
    PROVE  LoadedUpTo(lines, DB(cap, <<>>), 0)
<1> PICK d : d = DB(cap, <<>>)
  OBVIOUS
<1>1. d \in DBType /\ WellFormed(d) /\ d.entries = <<>> /\ d.cap = cap
  BY NewDB DEF DB
<1>2. Len(d.entries) = 0 /\ DOMAIN d.entries = {}
  BY <1>1
<1>3. FitCount(lines, 0) = 0
  BY FitCountStep
<1>4. FitUpTo(lines, cap, 0) = {}
  BY DEF FitUpTo
<1>5. LiveIDs(d) = {}
  BY <1>2 DEF LiveIDs
<1> PICK A : A = Assigned(lines, {})
  OBVIOUS
<1>6. DOMAIN A = {} /\ A = [x \in DOMAIN A |-> A[x]]
  BY DEF Assigned
<1>7. Dict(d) = A
  BY <1>1, <1>5, <1>6, DictIs
<1> QED BY <1>1, <1>2, <1>3, <1>4, <1>7, SMTT(60) DEF LoadedUpTo

-----------------------------------------------------------------------------
(* What dbcompact has done after some entries. *)

\* The copy r has one entry more than c, and the entries of both live.
OneCopied(r, c, L, k, v) ==
    /\ DOMAIN r.entries = 1 .. L + 1
    /\ r.entries[L + 1].key = k /\ r.entries[L + 1].val = v /\ ~r.entries[L + 1].deleted
    /\ \A x \in 1 .. L : /\ r.entries[x].key = c.entries[x].key
                         /\ r.entries[x].val = c.entries[x].val
                         /\ ~r.entries[x].deleted

LEMMA CopiedMore ==
    ASSUME NEW d, NEW c, NEW r, NEW n \in Nat, NEW L \in Nat, NEW k, NEW v,
           CopiedUpTo(d, c, n), DOMAIN c.entries = 1 .. L, OneCopied(r, c, L, k, v),
           n + 1 \in LiveIDs(d), d.entries[n + 1].key = k, d.entries[n + 1].val = v,
           \A m \in LiveIDs(d) : m \in Nat
    PROVE  CopiedUpTo(d, r, n + 1)
<1>1. \A m \in LiveIDs(d) : m \in Nat /\ (m <= n + 1 => m <= n \/ m = n + 1) /\ (m <= n => m <= n + 1)
  OBVIOUS
<1>2. DOMAIN r.entries = 1 .. L + 1
  BY DEF OneCopied
<1>3. \A x \in 1 .. L : /\ r.entries[x].key = c.entries[x].key
                       /\ r.entries[x].val = c.entries[x].val
                       /\ ~r.entries[x].deleted
  BY DEF OneCopied
<1>4. r.entries[L + 1].key = k /\ r.entries[L + 1].val = v /\ ~r.entries[L + 1].deleted
  BY DEF OneCopied
<1>5. \A x \in 1 .. L + 1 : x \in 1 .. L \/ x = L + 1
  OBVIOUS
<1>6. \A x \in 1 .. L : x \in 1 .. L + 1 /\ x < L + 1
  OBVIOUS
<1>7. L + 1 \in 1 .. L + 1 /\ n + 1 <= n + 1
  OBVIOUS
<1>8. ASSUME NEW x \in 1 .. L + 1
       PROVE  /\ ~r.entries[x].deleted
              /\ \E m \in LiveIDs(d) : /\ m <= n + 1 /\ d.entries[m].key = r.entries[x].key
                                       /\ d.entries[m].val = r.entries[x].val
  <2>1. CASE x = L + 1
    BY <1>4, <1>7, <2>1
  <2>2. CASE x \in 1 .. L
    <3>1. PICK m \in LiveIDs(d) : /\ m <= n /\ d.entries[m].key = c.entries[x].key
                                  /\ d.entries[m].val = c.entries[x].val
      BY <2>2 DEF CopiedUpTo
    <3>2. r.entries[x].key = c.entries[x].key /\ r.entries[x].val = c.entries[x].val
      BY <1>3, <2>2
    <3> QED BY <1>1, <1>3, <2>2, <3>1, <3>2
  <2> QED BY <1>5, <2>1, <2>2
<1>9. ASSUME NEW m \in LiveIDs(d), m <= n + 1
       PROVE  \E x \in 1 .. L + 1 : /\ r.entries[x].key = d.entries[m].key
                                    /\ r.entries[x].val = d.entries[m].val
  <2>1. CASE m = n + 1
    BY <1>4, <1>7, <2>1
  <2>2. CASE m <= n
    <3>1. PICK x \in 1 .. L : /\ c.entries[x].key = d.entries[m].key
                              /\ c.entries[x].val = d.entries[m].val
      BY <2>2 DEF CopiedUpTo
    <3>2. r.entries[x].key = c.entries[x].key /\ r.entries[x].val = c.entries[x].val
      BY <1>3
    <3>3. x \in 1 .. L + 1
      BY <1>6
    <3> QED BY <3>1, <3>2, <3>3
  <2> QED BY <1>1, <1>9, <2>1, <2>2
<1>10. \A l, m \in LiveIDs(d) : l < m /\ m <= n =>
          \E x, y \in 1 .. L : /\ x < y
                               /\ c.entries[x].key = d.entries[l].key
                               /\ c.entries[y].key = d.entries[m].key
  <2> SUFFICES ASSUME NEW l \in LiveIDs(d), NEW m \in LiveIDs(d), l < m, m <= n
               PROVE  \E x, y \in 1 .. L : /\ x < y
                                           /\ c.entries[x].key = d.entries[l].key
                                           /\ c.entries[y].key = d.entries[m].key
    OBVIOUS
  <2>1. \E x, y \in DOMAIN c.entries : /\ x < y
                                       /\ c.entries[x].key = d.entries[l].key
                                       /\ c.entries[y].key = d.entries[m].key
    BY DEF CopiedUpTo
  <2> QED BY <2>1
<1>11. ASSUME NEW l \in LiveIDs(d), NEW m \in LiveIDs(d), l < m, m <= n + 1
       PROVE  \E x, y \in 1 .. L + 1 : /\ x < y
                                       /\ r.entries[x].key = d.entries[l].key
                                       /\ r.entries[y].key = d.entries[m].key
  <2>1. CASE m = n + 1
    <3>1. l <= n
      BY <1>1, <1>11, <2>1
    <3>2. PICK x \in 1 .. L : c.entries[x].key = d.entries[l].key
      BY <3>1 DEF CopiedUpTo
    <3>3. r.entries[x].key = d.entries[l].key /\ r.entries[L + 1].key = d.entries[m].key
      BY <1>3, <1>4, <2>1, <3>2
    <3>4. x \in 1 .. L + 1 /\ x < L + 1
      BY <1>6
    <3> QED BY <1>7, <3>3, <3>4
  <2>2. CASE m <= n
    <3>1. PICK x \in 1 .. L, y \in 1 .. L : /\ x < y /\ c.entries[x].key = d.entries[l].key
                                            /\ c.entries[y].key = d.entries[m].key
      BY <1>11, <1>10, <2>2
    <3>2. r.entries[x].key = c.entries[x].key /\ r.entries[y].key = c.entries[y].key
      BY <1>3
    <3>3. r.entries[x].key = d.entries[l].key /\ r.entries[y].key = d.entries[m].key /\ x < y
      BY <3>1, <3>2
    <3>4. x \in 1 .. L + 1 /\ y \in 1 .. L + 1
      BY <1>6
    <3> QED BY <3>3, <3>4
  <2> QED BY <1>1, <1>11, <2>1, <2>2
<1>12. \A l, m \in LiveIDs(d) : l < m /\ m <= n + 1 =>
          \E x, y \in DOMAIN r.entries : /\ x < y
                                         /\ r.entries[x].key = d.entries[l].key
                                         /\ r.entries[y].key = d.entries[m].key
  <2>1. ASSUME NEW l \in LiveIDs(d), NEW m \in LiveIDs(d), l < m, m <= n + 1
        PROVE  \E x, y \in DOMAIN r.entries : /\ x < y
                                              /\ r.entries[x].key = d.entries[l].key
                                              /\ r.entries[y].key = d.entries[m].key
    <3>1. PICK x \in 1 .. L + 1, y \in 1 .. L + 1 : /\ x < y
                                                     /\ r.entries[x].key = d.entries[l].key
                                                     /\ r.entries[y].key = d.entries[m].key
      BY <1>11, <2>1
    <3> QED BY <1>2, <3>1
  <2> QED BY <2>1
<1>13. \A x \in DOMAIN r.entries :
          /\ ~r.entries[x].deleted
          /\ \E m \in LiveIDs(d) : /\ m <= n + 1 /\ d.entries[m].key = r.entries[x].key
                                   /\ d.entries[m].val = r.entries[x].val
  BY <1>2, <1>8
<1>14. \A m \in LiveIDs(d) : m <= n + 1 =>
          \E x \in DOMAIN r.entries : /\ r.entries[x].key = d.entries[m].key
                                      /\ r.entries[x].val = d.entries[m].val
  BY <1>2, <1>9, SMTT(60)
<1> QED BY <1>12, <1>13, <1>14 DEF CopiedUpTo

\* A live entry is copied: the copy has no entry of its key yet.
LEMMA CopyLive ==
    ASSUME NEW d \in DBType, WellFormed(d), NEW n \in Nat, n + 1 \in LiveIDs(d),
           NEW c \in DBType, WellFormed(c), c.cap = d.cap, Len(c.entries) <= n,
           CopiedUpTo(d, c, n),
           NEW k, k = d.entries[n + 1].key, NEW v, v = d.entries[n + 1].val,
           NEW r, r = KVDB_DBObject_put(c, k, v)
    PROVE  /\ r \in DBType /\ WellFormed(r) /\ r.cap = d.cap /\ Len(r.entries) <= n + 1
           /\ CopiedUpTo(d, r, n + 1)
<1> PICK L \in Nat : L = Len(c.entries)
  BY DBParts
<1>1. /\ d.cap \in Nat /\ c.cap = d.cap
      /\ DOMAIN d.entries = 1 .. Len(d.entries) /\ Len(d.entries) \in Nat
      /\ DOMAIN c.entries = 1 .. L
      /\ \A m : m \in LiveIDs(d) <=> m \in DOMAIN d.entries /\ ~d.entries[m].deleted
  BY DBParts
<1>2. k \in Seq(Char) /\ v \in Seq(Char) /\ Len(k) <= MAX_KEY_SIZE
  BY <1>1, DBParts DEF WellFormed
<1>3. L < c.cap /\ L <= n
  BY <1>1, SMTT(60) DEF WellFormed
<1>4. \A m \in LiveIDs(d) : m \in Nat
  BY <1>1
<1>5. /\ r \in DBType /\ r.cap = c.cap /\ Len(r.entries) = L + 1
      /\ DOMAIN r.entries = 1 .. L + 1
      /\ r.entries[L + 1] = Entry(k, v)
      /\ \A x \in 1 .. L : /\ r.entries[x].key = c.entries[x].key
                           /\ r.entries[x].val = c.entries[x].val
                           /\ r.entries[x].deleted <=> c.entries[x].deleted \/ c.entries[x].key = k
  <2>1. DOMAIN c.entries = 1 .. L /\ Len(c.entries) < c.cap
    BY <1>1, <1>3
  <2>2. r \in DBType /\ r.cap = c.cap /\ Appended(r, c, L, k, v)
    BY <1>2, <2>1, PutAppends
  <2> QED BY <2>2 DEF Appended
<1>6. WellFormed(r)
  BY <1>2, PutWellFormed
<1>7. n + 1 \in LiveIDs(d) /\ d.entries[n + 1].key = k /\ d.entries[n + 1].val = v
  BY <1>1
<1>8. ASSUME NEW x \in 1 .. L PROVE ~r.entries[x].deleted
  <2>1. ~c.entries[x].deleted
    BY <1>1 DEF CopiedUpTo
  <2>2. PICK m \in LiveIDs(d) : m <= n /\ d.entries[m].key = c.entries[x].key
    BY <1>1 DEF CopiedUpTo
  <2>3. m # n + 1
    BY <1>1, <2>2
  <2>4. d.entries[m].key # k
    BY <1>1, <1>7, <2>3, SMTT(60) DEF WellFormed
  <2> QED BY <1>5, <2>1, <2>2, <2>4
<1>9. OneCopied(r, c, L, k, v)
  <2>1. r.entries[L + 1].key = k /\ r.entries[L + 1].val = v /\ ~r.entries[L + 1].deleted
    <3>1. r.entries[L + 1] = Entry(k, v)
      BY <1>5
    <3> QED BY <3>1 DEF Entry
  <2> QED BY <1>5, <1>8, <2>1, ZenonT(60) DEF OneCopied
<1>10. CopiedUpTo(d, r, n + 1)
  BY <1>1, <1>4, <1>7, <1>9, CopiedMore, SMTT(60)
<1>11. Len(r.entries) <= n + 1
  <2>1. Len(r.entries) = L + 1
    BY <1>5
  <2>2. L <= n
    BY <1>3
  <2> QED BY <2>1, <2>2
<1> QED BY <1>5, <1>6, <1>10, <1>11

LEMMA CopyStep ==
    ASSUME NEW d \in DBType, WellFormed(d), NEW n \in Nat, n + 1 \in DOMAIN d.entries,
           NEW c \in DBType, WellFormed(c), c.cap = d.cap, Len(c.entries) <= n,
           CopiedUpTo(d, c, n),
           NEW e, e = d.entries[n + 1],
           NEW r, r = Copied(c, e, e.key, e.val)
    PROVE  /\ r \in DBType /\ WellFormed(r) /\ r.cap = d.cap /\ Len(r.entries) <= n + 1
           /\ CopiedUpTo(d, r, n + 1)
<1> PICK L \in Nat : L = Len(c.entries)
  BY DBParts
<1>1. /\ d.cap \in Nat /\ DOMAIN d.entries = 1 .. Len(d.entries) /\ Len(d.entries) \in Nat
      /\ DOMAIN c.entries = 1 .. L
      /\ e.deleted \in BOOLEAN
      /\ \A m : m \in LiveIDs(d) <=> m \in DOMAIN d.entries /\ ~d.entries[m].deleted
  BY DBParts
<1>2. L < c.cap /\ L <= n
  BY <1>1 DEF WellFormed
<1>3. \A m \in LiveIDs(d) : m \in Nat /\ (m <= n + 1 => m <= n \/ m = n + 1) /\ (m <= n => m <= n + 1)
  BY <1>1
<1>4. CASE e.deleted
  <2>1. r = c
    BY <1>4 DEF Copied
  <2>2. \A m \in LiveIDs(d) : m <= n + 1 => m <= n
    BY <1>1, <1>3, <1>4
  <2>3. CopiedUpTo(d, c, n + 1)
    BY <1>3, <2>2 DEF CopiedUpTo
  <2> QED BY <1>2, <2>1, <2>3
<1>5. CASE ~e.deleted
  <2>1. r = KVDB_DBObject_put(c, e.key, e.val) /\ n + 1 \in LiveIDs(d)
    BY <1>1, <1>5 DEF Copied
  <2> QED BY <2>1, CopyLive
<1> QED BY <1>1, <1>4, <1>5

LEMMA CopyBegins ==
    ASSUME NEW d \in DBType
    PROVE  CopiedUpTo(d, DB(d.cap, <<>>), 0)
<1>1. DB(d.cap, <<>>).entries = <<>> /\ DOMAIN <<>> = {}
  BY DBParts, NewDB
<1>2. \A m \in LiveIDs(d) : ~(m <= 0)
  BY DBParts
<1> QED BY <1>1, <1>2 DEF CopiedUpTo

-----------------------------------------------------------------------------
(* The steps. *)

\* What the engine may have written into a directory.
GoodFiles(fs) ==
    /\ fs \in [Path -> FileType]
    /\ \A p \in Path : fs[p].kind = "db" => WellFormed(fs[p])

LEMMA FileKinds ==
    ASSUME NEW f \in FileType
    PROVE  /\ f.kind = "db" => f \in DBType
           /\ f.kind = "text" => f.lines \in Seq(Seq(Char))
<1>1. CASE f \in {NoFile, Unclosed, Report}
  BY <1>1 DEF NoFile, Unclosed, Report
<1>2. CASE f \in [kind : {"text"}, lines : Seq(Seq(Char))]
  BY <1>2
<1>3. CASE f \in DBType
  <2>1. f.kind = "db"
    BY <1>3 DEF DBType
  <2> QED BY <1>3, <2>1
<1> QED BY <1>1, <1>2, <1>3 DEF FileType

LEMMA GoodWrite ==
    ASSUME NEW fs, GoodFiles(fs), NEW f \in FileType, f.kind = "db" => WellFormed(f), NEW p
    PROVE  GoodFiles([fs EXCEPT ![p] = f])
<1> PICK gs : gs = [fs EXCEPT ![p] = f]
  OBVIOUS
<1>1. gs \in [Path -> FileType] /\ \A q \in Path : gs[q] = IF q = p THEN f ELSE fs[q]
  BY DEF GoodFiles
<1> QED BY <1>1 DEF GoodFiles

LEMMA PlainFiles ==
    /\ Report \in FileType /\ Report.kind # "db"
    /\ Unclosed \in FileType /\ Unclosed.kind # "db"
    /\ \A l \in Seq(Seq(Char)) : Text(l) \in FileType /\ Text(l).kind # "db"
    /\ \A d \in DBType : d \in FileType
BY DEF FileType, Report, Unclosed, NoFile, Text

LEMMA FilesAreGood ==
    ASSUME ToolsType, WellFormedFiles
    PROVE  /\ GoodFiles(files)
           /\ \A p \in Path : files[p].kind = "db" => files[p] \in DBType /\ WellFormed(files[p])
           /\ \A p \in Path : files[p].kind = "text" => files[p].lines \in Seq(Seq(Char))
<1>1. files \in [Path -> FileType] /\ \A p \in Path : files[p] \in FileType
  BY DEF ToolsType
<1> QED BY <1>1, FileKinds DEF WellFormedFiles, GoodFiles

LEMMA ToolsInit == Init => ToolsInv
<1> SUFFICES ASSUME Init PROVE ToolsInv
  OBVIOUS
<1>1. DB(0, <<>>) \in DBType /\ WellFormed(DB(0, <<>>))
  BY NewDB
<1>2. files \in [Path -> FileType] /\ \A p \in Path : files[p].kind = "db" => WellFormed(files[p])
  BY ToolsAssumption DEF Init
<1>3. run = [tool |-> "none", in |-> stdout, out |-> stdout, st |-> "done"]
  BY DEF Init
<1>4. run.tool = "none" /\ run.tool # "mkdb" /\ run.tool # "dbcompact" /\ stdout \in Export
  BY <1>3 DEF Export
<1>5. ToolsType
  <2>1. run \in [tool : OneStepTools \cup {"none", "dbcompact", "mkdb"},
                in : Export, out : Export, st : {"running", "done", "killed", "failed", "dead"}]
    BY <1>3, <1>4
  <2> QED BY <1>1, <1>2, <2>1 DEF Init, ToolsType
<1>6. WellFormedFiles
  BY <1>1, <1>2 DEF Init, WellFormedFiles
<1> QED BY <1>4, <1>5, <1>6 DEF ToolsInv, LoadInv, CompactInv, LoadFaultsOnlyOn

\* A run of one step, of a tool that does not loop.
LEMMA RunsKeeps ==
    ASSUME ToolsInv, NEW t \in OneStepTools,
           NEW in \in Export, NEW out \in Export,
           run' = [tool |-> t, in |-> in, out |-> out, st |-> "done"],
           before' = files, runs' = runs + 1, UNCHANGED work, GoodFiles(files')
    PROVE  ToolsInv'
<1>1. src' = src /\ new' = new /\ i' = i /\ drift' = drift
  BY DEF work
<1>2. run'.tool # "mkdb" /\ run'.tool # "dbcompact"
  BY DEF OneStepTools
<1>3. ToolsType'
  BY <1>1 DEF ToolsInv, ToolsType, GoodFiles
<1>4. WellFormedFiles'
  BY <1>1 DEF ToolsInv, WellFormedFiles, GoodFiles
<1> QED BY <1>2, <1>3, <1>4 DEF ToolsInv, LoadInv, CompactInv, LoadFaultsOnlyOn

LEMMA OneStepKeeps == ToolsInv /\ OneStepTool => ToolsInv'
<1> SUFFICES ASSUME ToolsInv, OneStepTool PROVE ToolsInv'
  OBVIOUS
<1> PICK p \in Path :
       \/ \E cap \in Caps : newdb(p, cap) \/ dbresize(p, cap)
       \/ \E k \in Keys, v \in Vals, x \in Export : dbput(p, k, v, x)
       \/ \E k \in Keys : dbdel(p, k)
       \/ \E id \in 0 .. Max(Caps) : dbdel_by_id(p, id)
       \/ \E x \in Export : dbget(p, x) \/ dblskeys(p, x) \/ dbdmp(p, x) \/ dbdmpkv(p, x)
  BY DEF OneStepTool
<1>1. /\ GoodFiles(files) /\ p \in Export
      /\ files[p].kind = "db" => files[p] \in DBType /\ WellFormed(files[p])
  BY FilesAreGood DEF ToolsInv, Export
<1>2. ASSUME NEW x \in Export PROVE GoodFiles(Exported(x))
  BY <1>1, PlainFiles, GoodWrite DEF Exported
<1>3. ASSUME Opens(p), NEW ids PROVE GoodFiles([files EXCEPT ![p] = Deleted(@, ids)])
  <2>1. Deleted(files[p], ids) \in DBType /\ WellFormed(Deleted(files[p], ids))
    BY <1>1, <1>3, DeletedFacts, DeletedWellFormed DEF Opens
  <2>2. GoodFiles([files EXCEPT ![p] = Deleted(files[p], ids)])
    BY <1>1, <2>1, PlainFiles, GoodWrite
  <2>3. [files EXCEPT ![p] = Deleted(@, ids)] = [files EXCEPT ![p] = Deleted(files[p], ids)]
    OBVIOUS
  <2> QED BY <2>2, <2>3
<1>4. ASSUME NEW cap \in Caps, newdb(p, cap) PROVE ToolsInv'
  <2>1. DB(cap, <<>>) \in DBType /\ WellFormed(DB(cap, <<>>))
    BY ToolsAssumption, NewDB
  <2>2. GoodFiles([files EXCEPT ![p] = DB(cap, <<>>)])
    BY <1>1, <2>1, PlainFiles, GoodWrite
  <2> QED BY <1>1, <1>4, <2>2, RunsKeeps DEF newdb, Runs, Begins, OneStepTools
<1>5. ASSUME NEW cap \in Caps, dbresize(p, cap) PROVE ToolsInv'
  BY <1>1, <1>5, RunsKeeps DEF dbresize, Runs, Begins, OneStepTools
<1>6. ASSUME NEW k \in Keys, NEW v \in Vals, NEW x \in Export, dbput(p, k, v, x) PROVE ToolsInv'
  <2>1. ASSUME OpensAfter(p, x)
        PROVE  GoodFiles([Exported(x) EXCEPT ![p] = KVDB_DBObject_put(files[p], k, v)])
    <3>1. files[p] \in DBType /\ WellFormed(files[p])
      BY <1>1, <2>1 DEF OpensAfter, Opens
    <3>2. k \in Seq(Char) /\ v \in Seq(Char)
      BY ToolsAssumption
    <3> PICK d : d = KVDB_DBObject_put(files[p], k, v)
      OBVIOUS
    <3>3. d \in DBType /\ WellFormed(d)
      BY <3>1, <3>2, PutFacts, PutWellFormed
    <3> QED BY <1>2, <3>3, PlainFiles, GoodWrite
  <2> PICK fs : fs = IF OpensAfter(p, x)
                     THEN [Exported(x) EXCEPT ![p] = KVDB_DBObject_put(files[p], k, v)]
                     ELSE Exported(x)
    OBVIOUS
  <2>2. GoodFiles(fs)
    BY <1>2, <2>1
  <2>3. Runs("dbput", p, x, fs)
    BY <1>6 DEF dbput
  <2> QED BY <1>1, <2>2, <2>3, RunsKeeps DEF Runs, Begins, OneStepTools
<1>7. ASSUME NEW k \in Keys, dbdel(p, k) PROVE ToolsInv'
  <2> PICK fs : fs = IF Opens(p) THEN [files EXCEPT ![p] = Deleted(@, IDsOf(@, k))] ELSE files
    OBVIOUS
  <2>1. [files EXCEPT ![p] = Deleted(@, IDsOf(@, k))] = [files EXCEPT ![p] = Deleted(@, IDsOf(files[p], k))]
    OBVIOUS
  <2>2. GoodFiles(fs)
    BY <1>1, <1>3, <2>1
  <2>3. Runs("dbdel", p, p, fs)
    BY <1>7 DEF dbdel
  <2> QED BY <1>1, <2>2, <2>3, RunsKeeps DEF Runs, Begins, OneStepTools
<1>8. ASSUME NEW id \in 0 .. Max(Caps), dbdel_by_id(p, id) PROVE ToolsInv'
  <2> PICK fs : fs = IF Opens(p) THEN [files EXCEPT ![p] = Deleted(@, {id + 1})] ELSE files
    OBVIOUS
  <2>1. GoodFiles(fs)
    BY <1>1, <1>3
  <2>2. Runs("dbdel-by-id", p, p, fs)
    BY <1>8 DEF dbdel_by_id
  <2> QED BY <1>1, <2>1, <2>2, RunsKeeps DEF Runs, Begins, OneStepTools
<1>9. ASSUME NEW x \in Export, dbget(p, x) \/ dblskeys(p, x) \/ dbdmp(p, x) PROVE ToolsInv'
  <2>1. \/ Runs("dbget", p, x, Exported(x)) \/ Runs("dblskeys", p, x, Exported(x))
        \/ Runs("dbdmp", p, x, Exported(x))
    BY <1>9 DEF dbget, dblskeys, dbdmp
  <2> QED BY <1>1, <1>2, <2>1, RunsKeeps DEF Runs, Begins, OneStepTools
<1>10. ASSUME NEW x \in Export, dbdmpkv(p, x) PROVE ToolsInv'
  <2> PICK none : none = <<>>
    OBVIOUS
  <2> PICK l : l = IF OpensAfter(p, x) THEN Dump(files[p]) ELSE none
    OBVIOUS
  <2> PICK fs : fs = IF x = stdout THEN files ELSE [files EXCEPT ![x] = Text(l)]
    OBVIOUS
  <2>1. l \in Seq(Seq(Char))
    <3>1. none \in Seq(Seq(Char))
      OBVIOUS
    <3>2. OpensAfter(p, x) => files[p] \in DBType
      BY <1>1 DEF OpensAfter, Opens
    <3> QED BY <3>1, <3>2, DumpFacts
  <2>2. GoodFiles(fs)
    BY <1>1, <2>1, PlainFiles, GoodWrite
  <2>3. Runs("dbdmpkv", p, x, fs)
    BY <1>10 DEF dbdmpkv
  <2> QED BY <1>1, <2>2, <2>3, RunsKeeps DEF Runs, Begins, OneStepTools
<1> QED BY <1>4, <1>5, <1>6, <1>7, <1>8, <1>9, <1>10

\* The runs that loop begin.
LEMMA CompactBegins ==
    ASSUME ToolsInv, NEW p \in Path, NEW q \in Path, dbcompact(p, q)
    PROVE  ToolsInv'
<1>1. /\ Opens(p) /\ run' = [tool |-> "dbcompact", in |-> p, out |-> q, st |-> "running"]
      /\ before' = files /\ runs' = runs + 1 /\ files' = [files EXCEPT ![q] = Unclosed]
      /\ src' = files[p] /\ new' = DB(files[p].cap, <<>>) /\ i' = 0 /\ drift' = drift
  BY DEF dbcompact, Begins
<1>2. files[p] \in DBType /\ WellFormed(files[p]) /\ GoodFiles(files)
  BY <1>1, FilesAreGood DEF ToolsInv, Opens
<1>3. /\ new' \in DBType /\ WellFormed(new') /\ new'.entries = <<>> /\ new'.cap = files[p].cap
      /\ files[p].cap \in Nat /\ Len(files[p].entries) \in Nat
  <2>1. files[p].cap \in Nat /\ Len(files[p].entries) \in Nat
    BY <1>2, DBParts
  <2>2. DB(files[p].cap, <<>>).cap = files[p].cap
    BY DEF DB
  <2> QED BY <1>1, <2>1, <2>2, NewDB
<1>4. GoodFiles(files')
  BY <1>1, <1>2, PlainFiles, GoodWrite
<1>5. run'.tool = "dbcompact" /\ run'.in = p /\ run'.out = q /\ run'.st = "running"
  BY <1>1
<1>6. ToolsType'
  <2>1. run' \in [tool : OneStepTools \cup {"none", "dbcompact", "mkdb"},
                  in : Export, out : Export, st : {"running", "done", "killed", "failed", "dead"}]
    BY <1>1 DEF Export
  <2> QED BY <1>1, <1>2, <1>3, <1>4, <2>1 DEF ToolsInv, ToolsType, GoodFiles
<1>7. WellFormedFiles'
  BY <1>1, <1>2, <1>3, <1>4 DEF WellFormedFiles, GoodFiles
<1>8. CompactInv'
  <2>1. CopiedUpTo(files[p], new', 0)
    BY <1>1, <1>2, CopyBegins
  <2>2. p # q => files'[p] = files[p]
    BY <1>1, <1>2 DEF GoodFiles
  <2>3. Len(new'.entries) = 0
    BY <1>3
  <2> QED BY <1>1, <1>3, <1>5, <2>1, <2>2, <2>3 DEF CompactInv
<1> QED BY <1>5, <1>6, <1>7, <1>8 DEF ToolsInv, LoadInv, LoadFaultsOnlyOn

LEMMA UncreatedKeeps ==
    ASSUME ToolsInv, NEW p \in Path, NEW q \in Path, dbcompact_uncreated(p, q)
    PROVE  ToolsInv'
<1> PICK st : st = IF LiveIDs(files[p]) = {} THEN "failed" ELSE "dead"
  OBVIOUS
<1>1. /\ run' = [tool |-> "dbcompact", in |-> p, out |-> q, st |-> st]
      /\ before' = files /\ runs' = runs + 1 /\ files' = files
      /\ src' = src /\ new' = new /\ i' = i /\ drift' = drift
  BY DEF dbcompact_uncreated, Begins, work
<1>2. run'.tool = "dbcompact" /\ run'.st = st /\ st \in {"failed", "dead"}
  BY <1>1
<1>3. ToolsType'
  <2>1. run' \in [tool : OneStepTools \cup {"none", "dbcompact", "mkdb"},
                  in : Export, out : Export, st : {"running", "done", "killed", "failed", "dead"}]
    BY <1>1, <1>2 DEF Export
  <2> QED BY <1>1, <2>1 DEF ToolsInv, ToolsType
<1>4. WellFormedFiles'
  BY <1>1 DEF ToolsInv, WellFormedFiles
<1> QED BY <1>2, <1>3, <1>4 DEF ToolsInv, LoadInv, CompactInv, LoadFaultsOnlyOn

LEMMA LoadRunBegins ==
    ASSUME ToolsInv, NEW p \in Path, NEW q \in Path, NEW cap \in Caps, mkdb(p, q, cap)
    PROVE  ToolsInv'
<1>1. /\ files[p].kind = "text"
      /\ run' = [tool |-> "mkdb", in |-> p, out |-> q, st |-> "running"]
      /\ before' = files /\ runs' = runs + 1 /\ files' = [files EXCEPT ![q] = Unclosed]
      /\ src' = src /\ new' = DB(cap, <<>>) /\ i' = 0 /\ drift' = 0
  BY DEF mkdb, Begins
<1>2. files[p].lines \in Seq(Seq(Char)) /\ GoodFiles(files)
  BY <1>1, FilesAreGood DEF ToolsInv
<1>3. cap \in Nat /\ new' \in DBType /\ WellFormed(new')
  BY <1>1, ToolsAssumption, NewDB
<1>4. GoodFiles(files')
  BY <1>1, <1>2, PlainFiles, GoodWrite
<1>5. run'.tool = "mkdb" /\ run'.in = p /\ run'.out = q /\ run'.st = "running"
  BY <1>1
<1>6. ToolsType'
  <2>1. run' \in [tool : OneStepTools \cup {"none", "dbcompact", "mkdb"},
                  in : Export, out : Export, st : {"running", "done", "killed", "failed", "dead"}]
    BY <1>1 DEF Export
  <2> QED BY <1>1, <1>2, <1>3, <1>4, <2>1 DEF ToolsInv, ToolsType, GoodFiles
<1>7. WellFormedFiles'
  BY <1>1, <1>3, <1>4 DEF ToolsInv, WellFormedFiles, GoodFiles
<1>8. LoadInv'
  <2>1. LoadedUpTo(files[p].lines, new', 0)
    BY <1>1, <1>3, LoadBegins
  <2>2. MovedUpTo(Strings(files[p].lines))[0] = 0 /\ 0 <= Len(files[p].lines)
    BY <1>2, StringsOf, MovedFacts
  <2> QED BY <1>1, <1>2, <1>5, <2>1, <2>2 DEF LoadInv
<1> QED BY <1>5, <1>6, <1>7, <1>8 DEF ToolsInv, CompactInv, LoadFaultsOnlyOn

\* They go on.
LEMMA CompactEntryKeeps == ToolsInv /\ CompactEntry => ToolsInv'
<1> SUFFICES ASSUME ToolsInv, CompactEntry PROVE ToolsInv'
  OBVIOUS
<1> PICK e : e = src.entries[i + 1]
  OBVIOUS
<1>1. /\ run.tool = "dbcompact" /\ run.st = "running" /\ i < Len(src.entries)
      /\ \/ new' = Copied(new, e, e.key, e.val)
         \/ /\ run.in = run.out
            /\ new' = new \/ \E k \in Keys, v \in Vals : new' = Copied(new, e, k, v)
      /\ i' = i + 1 /\ files' = files /\ run' = run /\ before' = before /\ src' = src
      /\ drift' = drift /\ runs' = runs
  BY DEF CompactEntry, Goes
<1>2. /\ src \in DBType /\ new \in DBType /\ WellFormed(src) /\ WellFormed(new) /\ i \in Nat
  BY DEF ToolsInv, ToolsType, WellFormedFiles
<1>3. i + 1 \in DOMAIN src.entries
  <2>1. Len(src.entries) \in Nat /\ DOMAIN src.entries = 1 .. Len(src.entries)
    BY <1>2, DBParts
  <2> QED BY <1>1, <1>2, <2>1
<1>4. e.key \in Seq(Char) /\ e.val \in Seq(Char)
  BY <1>2, <1>3, DBParts
<1>5. ASSUME NEW k \in Seq(Char), NEW v \in Seq(Char)
      PROVE  Copied(new, e, k, v) \in DBType /\ WellFormed(Copied(new, e, k, v))
  BY <1>2, PutFacts, PutWellFormed DEF Copied
<1>6. new' \in DBType /\ WellFormed(new')
  <2>1. CASE new' = Copied(new, e, e.key, e.val)
    BY <1>4, <1>5, <2>1
  <2>2. CASE new' = new
    BY <1>2, <2>2
  <2>3. CASE \E k \in Keys, v \in Vals : new' = Copied(new, e, k, v)
    <3>1. Keys \subseteq Seq(Char) /\ Vals \subseteq Seq(Char)
      BY ToolsAssumption
    <3> QED BY <1>5, <2>3, <3>1
  <2> QED BY <1>1, <2>1, <2>2, <2>3
<1>7. ToolsType'
  BY <1>1, <1>2, <1>6 DEF ToolsInv, ToolsType
<1>8. WellFormedFiles'
  BY <1>1, <1>6 DEF ToolsInv, WellFormedFiles
<1>9. CompactInv'
  <2>1. SUFFICES ASSUME run.in # run.out PROVE CompactInv'
    BY <1>1 DEF CompactInv
  <2>2. /\ run.in \in Path /\ run.out \in Path
        /\ src = before[run.in] /\ files[run.in] = src
        /\ new.cap = src.cap /\ Len(new.entries) <= i
        /\ CopiedUpTo(src, new, i)
    BY <1>1, <2>1 DEF ToolsInv, CompactInv
  <2>3. new' = Copied(new, e, e.key, e.val)
    BY <1>1, <2>1
  <2>4. new'.cap = src.cap /\ Len(new'.entries) <= i + 1 /\ CopiedUpTo(src, new', i + 1)
    BY <1>2, <1>3, <2>2, <2>3, CopyStep
  <2>5. i + 1 <= Len(src.entries)
    <3>1. Len(src.entries) \in Nat
      BY <1>2, DBParts
    <3> QED BY <1>1, <1>2, <3>1
  <2> QED BY <1>1, <2>2, <2>4, <2>5 DEF CompactInv
<1> QED BY <1>1, <1>7, <1>8, <1>9 DEF ToolsInv, LoadInv, LoadFaultsOnlyOn

LEMMA LoadLineKeeps == ToolsInv /\ LoadLine => ToolsInv'
<1> SUFFICES ASSUME ToolsInv, LoadLine PROVE ToolsInv'
  OBVIOUS
<1> PICK lines : lines = before[run.in].lines
  OBVIOUS
<1>1. /\ run.tool = "mkdb" /\ run.st = "running" /\ i < Len(Lines)
      /\ new' = Loaded(Lines[i + 1]) /\ i' = i + 1 /\ drift' = drift + Leading(Cut(Lines[i + 1]))
      /\ files' = files /\ run' = run /\ before' = before /\ src' = src /\ runs' = runs
  BY DEF LoadLine, Goes
<1>2. new \in DBType /\ WellFormed(new) /\ i \in Nat
  BY DEF ToolsInv, ToolsType, WellFormedFiles
<1>3. run.in # run.out /\ Lines = lines
  <2>1. Lines = IF run.in = run.out THEN <<>> ELSE lines
    BY DEF Lines
  <2>2. Len(<<>>) = 0
    OBVIOUS
  <2> QED BY <1>1, <1>2, <2>1, <2>2
<1>4. /\ run.out \in Path /\ lines \in Seq(Seq(Char)) /\ drift = MovedUpTo(Strings(lines))[i]
      /\ LoadedUpTo(lines, new, i)
  BY <1>1, <1>3 DEF ToolsInv, LoadInv
<1>5. i + 1 \in 1 .. Len(lines) /\ Len(lines) \in Nat /\ i + 1 <= Len(lines)
  <2>1. Len(lines) \in Nat
    BY <1>4
  <2> QED BY <1>1, <1>2, <1>3, <2>1
<1>6. new' = IF Fits(lines[i + 1])
             THEN KVDB_DBObject_put(new, KeyField(lines[i + 1]), ValField(lines[i + 1])) ELSE new
  <2>1. lines[i + 1] \in Seq(Char)
    BY <1>4, <1>5
  <2>2. Loaded(lines[i + 1]) = IF Fits(lines[i + 1])
             THEN KVDB_DBObject_put(new, KeyField(lines[i + 1]), ValField(lines[i + 1])) ELSE new
    BY <1>2, <2>1, LoadedIs
  <2> QED BY <1>1, <1>3, <2>2
<1>7. new' \in DBType /\ WellFormed(new') /\ LoadedUpTo(lines, new', i + 1)
  BY <1>2, <1>4, <1>5, <1>6, LoadStep
<1>8. drift' = MovedUpTo(Strings(lines))[i + 1] /\ drift' \in Nat
  <2> PICK strs : strs = Strings(lines)
    OBVIOUS
  <2>1. /\ strs \in Seq(Seq(Char)) /\ Len(strs) = Len(lines)
        /\ strs[i + 1] = Cut(lines[i + 1])
    BY <1>4, <1>5, StringsOf
  <2>2. /\ MovedUpTo(strs)[i + 1] = MovedUpTo(strs)[i] + Leading(strs[i + 1])
        /\ MovedUpTo(strs)[i + 1] \in Nat
    <3>1. PICK n \in 1 .. Len(strs) : n = i + 1 /\ n - 1 = i /\ n \in 0 .. Len(strs)
      BY <1>2, <1>5, <2>1
    <3> QED BY <2>1, <3>1, MovedFacts
  <2> QED BY <1>1, <1>3, <1>4, <2>1, <2>2
<1>9. ToolsType'
  BY <1>1, <1>2, <1>7, <1>8 DEF ToolsInv, ToolsType
<1>10. WellFormedFiles'
  BY <1>1, <1>7 DEF ToolsInv, WellFormedFiles
<1>11. LoadInv'
  BY <1>1, <1>3, <1>4, <1>5, <1>7, <1>8 DEF LoadInv
<1> QED BY <1>1, <1>9, <1>10, <1>11 DEF ToolsInv, CompactInv, LoadFaultsOnlyOn

\* The end of a loop: the new database is closed.
LEMMA Closing ==
    ASSUME ToolsInv, Closes
    PROVE  /\ ToolsType' /\ WellFormedFiles'
           /\ run'.tool = run.tool /\ run'.in = run.in /\ run'.out = run.out /\ run'.st = "done"
           /\ before' = before /\ src' = src /\ new' = new /\ i' = i /\ drift' = drift
           /\ run.out \in Path => files'[run.out] = new
           /\ \A p \in Path : p # run.out => files'[p] = files[p]
<1>1. /\ run' = [run EXCEPT !.st = "done"] /\ files' = [files EXCEPT ![run.out] = new]
      /\ before' = before /\ src' = src /\ new' = new /\ i' = i /\ drift' = drift
      /\ runs' = runs
  BY DEF Closes, Ends, work
<1>2. run \in [tool : OneStepTools \cup {"none", "dbcompact", "mkdb"},
               in : Export, out : Export, st : {"running", "done", "killed", "failed", "dead"}]
  BY DEF ToolsInv, ToolsType
<1>3. /\ run' \in [tool : OneStepTools \cup {"none", "dbcompact", "mkdb"},
                   in : Export, out : Export, st : {"running", "done", "killed", "failed", "dead"}]
      /\ run'.tool = run.tool /\ run'.in = run.in /\ run'.out = run.out /\ run'.st = "done"
  BY <1>1, <1>2
<1>4. new \in DBType /\ WellFormed(new) /\ new \in FileType
  BY PlainFiles DEF ToolsInv, ToolsType, WellFormedFiles
<1>5. GoodFiles(files) /\ files \in [Path -> FileType]
  BY FilesAreGood DEF ToolsInv, ToolsType
<1>6. GoodFiles(files')
  BY <1>1, <1>4, <1>5, GoodWrite
<1>7. ToolsType'
  BY <1>1, <1>3, <1>6 DEF ToolsInv, ToolsType, GoodFiles
<1>8. WellFormedFiles'
  BY <1>1, <1>6 DEF ToolsInv, WellFormedFiles, GoodFiles
<1>9. /\ run.out \in Path => files'[run.out] = new
      /\ \A p \in Path : p # run.out => files'[p] = files[p]
  BY <1>1, <1>5
<1> QED BY <1>1, <1>3, <1>7, <1>8, <1>9

LEMMA CompactDoneKeeps == ToolsInv /\ CompactDone => ToolsInv'
<1> SUFFICES ASSUME ToolsInv, CompactDone PROVE ToolsInv'
  OBVIOUS
<1>1. Closes /\ run.tool = "dbcompact" /\ run.st = "running" /\ i >= Len(src.entries)
  BY DEF CompactDone, Goes
<1>2. /\ ToolsType' /\ WellFormedFiles'
      /\ run'.tool = "dbcompact" /\ run'.in = run.in /\ run'.out = run.out /\ run'.st = "done"
      /\ before' = before /\ src' = src /\ new' = new /\ i' = i
      /\ run.out \in Path => files'[run.out] = new
      /\ \A p \in Path : p # run.out => files'[p] = files[p]
  BY <1>1, Closing
<1>3. CompactInv'
  <2>1. SUFFICES ASSUME run.in # run.out PROVE CompactInv'
    BY <1>2 DEF CompactInv
  <2>2. /\ run.in \in Path /\ run.out \in Path
        /\ src = before[run.in] /\ files[run.in] = src
        /\ new.cap = src.cap /\ i <= Len(src.entries) /\ Len(new.entries) <= i
        /\ CopiedUpTo(src, new, i)
    BY <1>1, <2>1 DEF ToolsInv, CompactInv
  <2>3. i = Len(src.entries)
    <3>1. Len(src.entries) \in Nat /\ i \in Nat
      BY DBParts DEF ToolsInv, ToolsType
    <3> QED BY <1>1, <2>2, <3>1
  <2>4. files'[run.out] = new /\ files'[run.in] = src
    BY <1>2, <2>1, <2>2
  <2> QED BY <1>2, <2>2, <2>3, <2>4 DEF CompactInv
<1> QED BY <1>2, <1>3 DEF ToolsInv, LoadInv, LoadFaultsOnlyOn

LEMMA LoadDoneKeeps == ToolsInv /\ LoadDone => ToolsInv'
<1> SUFFICES ASSUME ToolsInv, LoadDone PROVE ToolsInv'
  OBVIOUS
<1>1. Closes /\ run.tool = "mkdb" /\ run.st = "running" /\ i >= Len(Lines)
  BY DEF LoadDone, Goes
<1>2. /\ ToolsType' /\ WellFormedFiles'
      /\ run'.tool = "mkdb" /\ run'.in = run.in /\ run'.out = run.out /\ run'.st = "done"
      /\ before' = before /\ new' = new /\ i' = i /\ drift' = drift
      /\ run.out \in Path => files'[run.out] = new
  BY <1>1, Closing
<1>3. LoadInv'
  <2>1. SUFFICES ASSUME run.in # run.out PROVE LoadInv'
    BY <1>2 DEF LoadInv
  <2> PICK lines : lines = before[run.in].lines
    OBVIOUS
  <2>2. /\ run.out \in Path /\ lines \in Seq(Seq(Char)) /\ i <= Len(lines)
        /\ drift = MovedUpTo(Strings(lines))[i] /\ LoadedUpTo(lines, new, i)
    BY <1>1, <2>1 DEF ToolsInv, LoadInv
  <2>3. i = Len(lines)
    <3>1. Len(lines) \in Nat /\ i \in Nat
      BY <2>2 DEF ToolsInv, ToolsType
    <3>2. Lines = lines
      BY <2>1 DEF Lines
    <3> QED BY <1>1, <2>2, <3>1, <3>2
  <2> QED BY <1>2, <2>2, <2>3 DEF LoadInv
<1> QED BY <1>2, <1>3 DEF ToolsInv, CompactInv, LoadFaultsOnlyOn

\* A run that stops before its end.
LEMMA Stopping ==
    ASSUME ToolsInv, NEW st \in {"killed", "dead"}, Stops(st)
    PROVE  /\ ToolsType' /\ WellFormedFiles' /\ LoadInv' /\ CompactInv'
           /\ run'.tool = run.tool /\ run'.in = run.in /\ run'.st = st /\ before' = before
<1>1. /\ run' = [run EXCEPT !.st = st] /\ files' = files
      /\ before' = before /\ src' = src /\ new' = new /\ i' = i /\ drift' = drift
      /\ runs' = runs
  BY DEF Stops, Ends, work
<1>2. run \in [tool : OneStepTools \cup {"none", "dbcompact", "mkdb"},
               in : Export, out : Export, st : {"running", "done", "killed", "failed", "dead"}]
  BY DEF ToolsInv, ToolsType
<1>3. /\ run' \in [tool : OneStepTools \cup {"none", "dbcompact", "mkdb"},
                   in : Export, out : Export, st : {"running", "done", "killed", "failed", "dead"}]
      /\ run'.tool = run.tool /\ run'.in = run.in /\ run'.st = st
  BY <1>1, <1>2
<1>4. ToolsType'
  BY <1>1, <1>3 DEF ToolsInv, ToolsType
<1>5. WellFormedFiles'
  BY <1>1 DEF ToolsInv, WellFormedFiles
<1> QED BY <1>1, <1>3, <1>4, <1>5 DEF LoadInv, CompactInv

LEMMA KillKeeps == ToolsInv /\ Kill => ToolsInv'
BY Stopping DEF Kill, ToolsInv, LoadFaultsOnlyOn

LEMMA LoadFaultsKeeps == ToolsInv /\ LoadFaults => ToolsInv'
<1> SUFFICES ASSUME ToolsInv, LoadFaults PROVE ToolsInv'
  OBVIOUS
<1> PICK lines : lines = before[run.in].lines
  OBVIOUS
<1> PICK n : n = i + 1
  OBVIOUS
<1>1. /\ run.tool = "mkdb" /\ run.st = "running" /\ i < Len(Lines)
      /\ Overruns(Lines[n]) \/ (IsData(Lines[n]) /\ MeetsTombstone(new, KeyOf(Lines[n])))
      /\ Stops("dead")
  BY DEF LoadFaults, Goes, Stops
<1>2. new \in DBType /\ i \in Nat /\ drift \in Nat
  BY DEF ToolsInv, ToolsType
<1>3. run.in # run.out /\ Lines = lines
  <2>1. Lines = IF run.in = run.out THEN <<>> ELSE lines
    BY DEF Lines
  <2>2. Len(<<>>) = 0
    OBVIOUS
  <2> QED BY <1>1, <1>2, <2>1, <2>2
<1>4. lines \in Seq(Seq(Char)) /\ drift = MovedUpTo(Strings(lines))[i] /\ LoadedUpTo(lines, new, i)
  BY <1>1, <1>3 DEF ToolsInv, LoadInv
<1>5. n \in 1 .. Len(lines) /\ n - 1 = i /\ n \in DOMAIN lines
  <2>1. Len(lines) \in Nat /\ DOMAIN lines = 1 .. Len(lines)
    BY <1>4
  <2>2. i \in Nat /\ i < Len(lines)
    BY <1>1, <1>2, <1>3
  <2>3. n \in 1 .. Len(lines) /\ n - 1 = i
    BY <2>1, <2>2
  <2> QED BY <2>1, <2>3
<1> PICK piece : piece = lines[n]
  OBVIOUS
<1>6. /\ piece \in Seq(Char)
      /\ IsData(piece) <=> Assigns(piece)
      /\ KeyOf(piece) = KeyField(piece)
      /\ Len(Marks(Line(piece), Delim)) = FieldCnt(Stated(piece))
  <2>1. piece \in Seq(Char)
    BY <1>4, <1>5
  <2> QED BY <2>1, PieceFacts
<1>7. /\ ToolsType' /\ WellFormedFiles' /\ LoadInv' /\ CompactInv'
      /\ run'.tool = run.tool /\ run'.in = run.in /\ run'.st = "dead" /\ before' = before
  BY <1>1, Stopping, SMTT(60)
<1>8. \/ \E x \in DOMAIN lines : Assigns(lines[x]) /\ FieldCnt(Stated(lines[x])) > 3
      \/ \E x \in DOMAIN lines : MovedUpTo(Strings(lines))[x - 1] + Len(lines[x]) >= BUFFER_SIZE
      \/ \E l, m, x \in DOMAIN lines :
            /\ l < m /\ m < x /\ Fits(lines[l]) /\ Fits(lines[m]) /\ Fits(lines[x])
            /\ KeyField(lines[l]) = KeyField(lines[m])
  <2>1. CASE IsData(piece) /\ Len(Marks(Line(piece), Delim)) > 3
    <3>1. Assigns(lines[n]) /\ FieldCnt(Stated(lines[n])) > 3
      BY <1>6, <2>1
    <3> QED BY <1>5, <3>1
  <2>2. CASE drift + Len(piece) + 1 > BUFFER_SIZE
    <3>1. Len(piece) \in Nat /\ BUFFER_SIZE \in Nat
      BY <1>6, ToolsAssumption
    <3>2. drift + Len(lines[n]) >= BUFFER_SIZE
      BY <1>2, <2>2, <3>1
    <3>3. MovedUpTo(Strings(lines))[n - 1] + Len(lines[n]) >= BUFFER_SIZE
      BY <1>4, <1>5, <3>2
    <3> QED BY <1>5, <3>3
  <2>3. CASE IsData(piece) /\ MeetsTombstone(new, KeyOf(piece))
    <3>1. Fits(lines[n])
      BY <1>6, <2>3 DEF Fits, MeetsTombstone
    <3>2. PICK x \in DOMAIN new.entries : new.entries[x].deleted
      BY <1>2, <2>3, DBParts DEF MeetsTombstone, LiveIDs
    <3>3. Repeats(lines, i)
      BY <1>4, <3>2 DEF LoadedUpTo
    <3>4. PICK l \in 1 .. i, m \in 1 .. i : /\ l < m /\ Fits(lines[l]) /\ Fits(lines[m])
                                            /\ KeyField(lines[l]) = KeyField(lines[m])
      BY <3>3 DEF Repeats
    <3>5. l \in DOMAIN lines /\ m \in DOMAIN lines /\ m < n
      <4>1. DOMAIN lines = 1 .. Len(lines) /\ Len(lines) \in Nat
        BY <1>4
      <4> QED BY <1>2, <1>5, <4>1, SMTT(60)
    <3> QED BY <1>5, <3>1, <3>4, <3>5
  <2> QED BY <1>1, <1>3, <2>1, <2>2, <2>3 DEF Overruns
<1>9. LoadFaultsOnlyOn'
  <2>1. before'[run'.in].lines = lines
    BY <1>7
  <2> QED BY <1>8, <2>1 DEF LoadFaultsOnlyOn, Strings
<1> QED BY <1>7, <1>9 DEF ToolsInv

LEMMA StutterKeeps == ToolsInv /\ UNCHANGED vars => ToolsInv'
BY DEF vars, work, ToolsInv, ToolsType, WellFormedFiles, LoadInv, CompactInv, LoadFaultsOnlyOn

LEMMA ToolsNext == ToolsInv /\ [Next]_vars => ToolsInv'
<1> SUFFICES ASSUME ToolsInv, [Next]_vars PROVE ToolsInv'
  OBVIOUS
<1>1. CASE OneStepTool
  BY <1>1, OneStepKeeps
<1>2. ASSUME NEW p \in Path, NEW q \in Path, dbcompact(p, q) PROVE ToolsInv'
  BY <1>2, CompactBegins
<1>3. ASSUME NEW p \in Path, NEW q \in Path, dbcompact_uncreated(p, q) PROVE ToolsInv'
  BY <1>3, UncreatedKeeps
<1>4. ASSUME NEW p \in Path, NEW q \in Path, NEW cap \in Caps, mkdb(p, q, cap) PROVE ToolsInv'
  BY <1>4, LoadRunBegins
<1>5. CASE ToolStep
  BY <1>5, CompactEntryKeeps, CompactDoneKeeps, LoadLineKeeps, LoadDoneKeeps DEF ToolStep
<1>6. CASE LoadFaults
  BY <1>6, LoadFaultsKeeps
<1>7. CASE Kill
  BY <1>7, KillKeeps
<1>8. CASE UNCHANGED vars
  BY <1>8, StutterKeeps
<1> QED BY <1>1, <1>2, <1>3, <1>4, <1>5, <1>6, <1>7, <1>8 DEF Next

(* The inductive invariant of the tools (the files, and how far a run of     *)
(* dbcompact or of mkdb has come with what it is to write).                  *)
THEOREM ToolsInvariant == Spec => []ToolsInv
<1>1. Init => ToolsInv
  BY ToolsInit
<1>2. ToolsInv /\ [Next]_vars => ToolsInv'
  BY ToolsNext
<1> QED BY <1>1, <1>2, PTL DEF Spec

-----------------------------------------------------------------------------
(* What the tools leave. *)

(* mkdb faults only for leading whitespace that has moved its buffer too     *)
(* far, for a third '=' in a line, or for a key that was assigned twice      *)
(* before (mkdb.c 39-53): the loop's place, the buffer's drift and the       *)
(* deleted entries are what the lines so far make them.                      *)
THEOREM FaultsHaveACause == Spec => []LoadFaultsOnlyOn
<1>1. ToolsInv => LoadFaultsOnlyOn
  BY DEF ToolsInv
<1> QED BY <1>1, ToolsInvariant, PTL

LEMMA CompactDoneDictionary == ToolsInv => CompactKeepsDictionary
<1> SUFFICES ASSUME ToolsInv, Done("dbcompact") PROVE CompactKeepsDictionary
  BY DEF CompactKeepsDictionary
<1> PICK d : d = src
  OBVIOUS
<1> PICK c : c = new
  OBVIOUS
<1>1. /\ before[run.in] = d /\ files[run.in] = d /\ files[run.out] = c
      /\ c.cap = d.cap /\ CopiedUpTo(d, c, Len(d.entries))
  BY DEF ToolsInv, CompactInv, Done
<1>2. d \in DBType /\ c \in DBType /\ WellFormed(d) /\ WellFormed(c)
  BY DEF ToolsInv, ToolsType, WellFormedFiles
<1>3. \A n \in LiveIDs(d) : n <= Len(d.entries)
  BY <1>2, DBParts
<1>4. LiveIDs(c) = DOMAIN c.entries
  BY <1>1 DEF CopiedUpTo, LiveIDs
<1>5. \A x \in DOMAIN c.entries :
         \E n \in LiveIDs(d) : d.entries[n].key = c.entries[x].key /\ d.entries[n].val = c.entries[x].val
  BY <1>1 DEF CopiedUpTo
<1>6. \A n \in LiveIDs(d) :
         \E x \in DOMAIN c.entries : c.entries[x].key = d.entries[n].key /\ c.entries[x].val = d.entries[n].val
  BY <1>1, <1>3 DEF CopiedUpTo
<1>7. \A l, n \in LiveIDs(d) : l < n =>
         \E x, y \in DOMAIN c.entries : /\ x < y /\ c.entries[x].key = d.entries[l].key
                                        /\ c.entries[y].key = d.entries[n].key
  BY <1>1, <1>3 DEF CopiedUpTo
<1>8. Dict(c) = Dict(d)
  <2> PICK F : F = Dict(d)
    OBVIOUS
  <2>1. /\ F = [x \in DOMAIN F |-> F[x]]
        /\ \A n \in LiveIDs(d) : d.entries[n].key \in DOMAIN F /\ F[d.entries[n].key] = d.entries[n].val
        /\ \A x \in DOMAIN F : \E n \in LiveIDs(d) : d.entries[n].key = x
    BY <1>2, DictFacts
  <2>2. ASSUME NEW x \in LiveIDs(c)
        PROVE  c.entries[x].key \in DOMAIN F /\ F[c.entries[x].key] = c.entries[x].val
    BY <1>4, <1>5, <2>1
  <2>3. ASSUME NEW k \in DOMAIN F
        PROVE  \E x \in LiveIDs(c) : c.entries[x].key = k
    BY <1>4, <1>6, <2>1
  <2>4. Dict(c) = F
    BY <1>2, <2>1, <2>2, <2>3, DictIs
  <2> QED BY <2>4
<1>9. c.kind = "db"
  BY <1>2, DBParts
<1>10. \A m, n \in LiveIDs(d) : m < n =>
          \E x, y \in LiveIDs(c) : /\ x < y /\ c.entries[x].key = d.entries[m].key
                                   /\ c.entries[y].key = d.entries[n].key
  BY <1>4, <1>7
<1> QED BY <1>1, <1>4, <1>8, <1>9, <1>10 DEF CompactKeepsDictionary

(* dbcompact into another file keeps every key's value, the order of the     *)
(* entries and the capacity, whatever the database (dbcompact.c 36-58).       *)
THEOREM CompactionKeeps == Spec => []CompactKeepsDictionary
BY CompactDoneDictionary, ToolsInvariant, PTL

LEMMA LoadDoneDictionary == ToolsInv => LoadIsLastAssignment
<1> SUFFICES ASSUME ToolsInv, Done("mkdb") PROVE LoadIsLastAssignment
  BY DEF LoadIsLastAssignment
<1> PICK lines : lines = before[run.in].lines
  OBVIOUS
<1> PICK d : d = files[run.out]
  OBVIOUS
<1>1. lines \in Seq(Seq(Char)) /\ LoadedUpTo(lines, d, Len(lines))
  BY DEF ToolsInv, LoadInv, Done
<1>2. DOMAIN lines = 1 .. Len(lines)
  BY <1>1
<1>3. FittingLines(lines, d.cap) = FitUpTo(lines, d.cap, Len(lines))
  BY <1>2 DEF FittingLines, FitUpTo, FitCount
<1>4. Dict(d) = Assigned(lines, FittingLines(lines, d.cap))
  BY <1>1, <1>3 DEF LoadedUpTo
<1> QED BY <1>4 DEF LoadIsLastAssignment, Assigned

(* mkdb leaves of each key the value of the last of its lines that got an    *)
(* entry: a line whose key is too long gets none and takes no room (mkdb.c   *)
(* 38-67, kvdb.c 271-279), whatever the text and the capacity.               *)
THEOREM LoadingAssigns == Spec => []LoadIsLastAssignment
BY LoadDoneDictionary, ToolsInvariant, PTL

\* The key of a line is empty only if the line begins with the separator.
LEMMA EmptyKeyField ==
    ASSUME NEW piece \in Seq(Char), Stated(piece) # <<>>, KeyField(piece) = <<>>
    PROVE  Stated(piece)[1] = Delim
<1> PICK line : line = Stated(piece)
  OBVIOUS
<1> PICK p : p = DelimAt(line, 1)
  OBVIOUS
<1>1. line \in Seq(Char) /\ line # <<>> /\ Len(line) \in Nat /\ 1 \in DOMAIN line
  BY PieceFacts
<1>2. FieldCnt(line) \in Nat \ {0}
  BY <1>1, FieldsOf
<1>3. p \in 1 .. Len(line) + 1 /\ IsDelim(line, p)
  <2> PICK marks : marks = Marks(line, Delim)
    OBVIOUS
  <2>1. /\ TokensTo(line, marks, Len(line) + 1) /\ Len(marks) = FieldCnt(line)
        /\ \A k \in 0 .. FieldCnt(line) : EndOf(marks, k) = DelimAt(line, k)
    BY <1>1, MarksOf
  <2>2. 1 \in 1 .. Len(marks) /\ 1 \in 0 .. FieldCnt(line)
    BY <1>2, <2>1
  <2>3. EndOf(marks, 1) \in 1 .. Len(line) + 1 /\ IsDelim(line, EndOf(marks, 1))
    BY <2>1, <2>2 DEF TokensTo
  <2> QED BY <2>1, <2>2, <2>3
<1>4. KeyField(piece) = SubSeq(line, 1, p - 1)
  <2>1. KeyField(piece) = Field(line, 1)
    <3>1. 1 <= FieldCnt(line) /\ 1 \in 1 .. 2
      BY <1>2
    <3> QED BY <3>1 DEF KeyField, RowOf, Stated
  <2>2. DelimAt(line, 0) = 0 /\ 1 - 1 = 0 /\ 0 + 1 = 1
    BY DEF DelimAt
  <2> QED BY <2>1, <2>2 DEF Field
<1>5. p = 1
  <2>1. SUFFICES ASSUME p # 1 PROVE FALSE
    OBVIOUS
  <2>2. p \in Nat /\ p # 0 /\ p - 1 <= Len(line)
    BY <1>1, <1>3
  <2>3. p - 1 \in Nat \ {0} /\ 1 \in Nat \ {0} /\ 1 <= p - 1 /\ (p - 1) - 1 + 1 = p - 1
    BY <2>1, <2>2, FirstOrBehind
  <2>4. Len(SubSeq(line, 1, p - 1)) = p - 1
    <3>1. Len(SubSeq(line, 1, p - 1)) = IF 1 <= p - 1 THEN (p - 1) - 1 + 1 ELSE 0
      BY <1>1, <2>2, <2>3, PartOf
    <3> QED BY <2>3, <3>1
  <2>5. Len(SubSeq(line, 1, p - 1)) = 0
    <3>1. SubSeq(line, 1, p - 1) = <<>>
      BY <1>4
    <3>2. Len(<<>>) = 0
      OBVIOUS
    <3> QED BY <3>1, <3>2
  <2> QED BY <2>3, <2>4, <2>5
<1> QED BY <1>1, <1>3, <1>5 DEF IsDelim

LEMMA LoadDoneOpens == ToolsInv => LoadedDatabaseOpens
<1> SUFFICES ASSUME ToolsInv, Done("mkdb"), ~Opens(run.out) PROVE LoadedDatabaseOpens
  BY DEF LoadedDatabaseOpens
<1> PICK lines : lines = before[run.in].lines
  OBVIOUS
<1> PICK d : d = files[run.out]
  OBVIOUS
<1>1. lines \in Seq(Seq(Char)) /\ LoadedUpTo(lines, d, Len(lines)) /\ d = new
  BY DEF ToolsInv, LoadInv, Done
<1>2. d.kind = "db"
  BY <1>1, DBParts DEF ToolsInv, ToolsType
<1>3. PICK x \in DOMAIN d.entries : d.entries[x].key = <<>>
  BY <1>2 DEF Opens
<1>4. PICK m \in 1 .. Len(lines) : Fits(lines[m]) /\ d.entries[x].key = KeyField(lines[m])
  BY <1>1 DEF LoadedUpTo
<1>5. m \in DOMAIN lines /\ lines[m] \in Seq(Char)
  BY <1>1
<1>6. Stated(lines[m]) # <<>> /\ Stated(lines[m])[1] = Delim
  BY <1>3, <1>4, <1>5, EmptyKeyField DEF Fits, Assigns
<1> QED BY <1>5, <1>6 DEF LoadedDatabaseOpens

(* A database that mkdb wrote can be opened again, unless one of the lines   *)
(* begins with '=' (kvdb.c's open fails on an empty key).                     *)
THEOREM LoadedOpens == Spec => []LoadedDatabaseOpens
BY LoadDoneOpens, ToolsInvariant, PTL

\* Where what is printed of an entry has its characters.
PrintedAs(str, key, val, K, V) ==
    /\ str \in Seq(Char) /\ Len(str) = K + V + 2
    /\ \A x \in 1 .. K : str[x] = key[x]
    /\ str[K + 1] = Delim
    /\ \A x \in 1 .. V : str[K + 1 + x] = val[x]
    /\ str[K + V + 2] = nl

LEMMA PrintedIs ==
    ASSUME NEW key \in Seq(Char), NEW val \in Seq(Char), NEW K, K = Len(key), NEW V, V = Len(val),
           NEW str, str = key \o <<Delim>> \o val \o <<nl>>
    PROVE  PrintedAs(str, key, val, K, V)
<1>1. Delim \in Char /\ nl \in Char /\ K \in Nat /\ V \in Nat
  BY ToolsAssumption
<1> PICK a : a = key \o <<Delim>>
  OBVIOUS
<1>2. /\ a \in Seq(Char) /\ Len(a) = K + 1 /\ a[K + 1] = Delim
      /\ \A x \in 1 .. K : a[x] = key[x]
  <2>1. a = Append(key, Delim)
    BY <1>1, AppendIsConcat
  <2> QED BY <1>1, <2>1, AppendProperties
<1> PICK b : b = a \o val
  OBVIOUS
<1>3. b \in Seq(Char) /\ Len(b) = K + 1 + V
      /\ \A x \in 1 .. K + 1 + V : b[x] = IF x <= K + 1 THEN a[x] ELSE val[x - (K + 1)]
  BY <1>2, ConcatProperties
<1>4. str \in Seq(Char) /\ Len(str) = K + 1 + V + 1 /\ str[K + 1 + V + 1] = nl
      /\ \A x \in 1 .. K + 1 + V : str[x] = b[x]
  <2>1. str = Append(b, nl)
    BY <1>1, <1>3, AppendIsConcat
  <2> QED BY <1>1, <1>3, <2>1, AppendProperties
<1>5. ASSUME NEW x \in 1 .. K PROVE str[x] = key[x]
  <2>1. x \in 1 .. K + 1 + V /\ x <= K + 1
    BY <1>1
  <2> QED BY <1>2, <1>3, <1>4, <2>1
<1>6. str[K + 1] = Delim
  <2>1. K + 1 \in 1 .. K + 1 + V /\ K + 1 <= K + 1
    BY <1>1
  <2> QED BY <1>2, <1>3, <1>4, <2>1
<1>7. ASSUME NEW x \in 1 .. V PROVE str[K + 1 + x] = val[x]
  <2> PICK y : y = K + 1 + x
    OBVIOUS
  <2>1. y \in 1 .. K + 1 + V /\ ~(y <= K + 1) /\ y - (K + 1) = x
    BY <1>1
  <2> QED BY <1>3, <1>4, <2>1
<1>8. K + 1 + V + 1 = K + V + 2
  BY <1>1
<1> QED BY <1>4, <1>5, <1>6, <1>7, <1>8 DEF PrintedAs

ReadsAs(str, line, key, val) ==
    /\ line # <<>> /\ line[1] = key[1]
    /\ RowOf(str, 2)[1] = key /\ RowOf(str, 2)[2] = val

\* The fields before and behind one separator.
LEMMA TwoFields ==
    ASSUME NEW line, NEW key, NEW val, NEW K \in Nat, NEW L \in Nat,
           DelimAt(line, 0) = 0, DelimAt(line, 1) = K + 1, DelimAt(line, 2) = L + 1,
           SubSeq(line, 1, K) = key, SubSeq(line, K + 2, L) = val
    PROVE  Field(line, 1) = key /\ Field(line, 2) = val
<1>1. Field(line, 1) = SubSeq(line, 1, K)
  <2>1. DelimAt(line, 1 - 1) + 1 = 1
    BY 1 - 1 = 0
  <2>2. DelimAt(line, 1) - 1 = K
    OBVIOUS
  <2> QED BY <2>1, <2>2 DEF Field
<1>2. Field(line, 2) = SubSeq(line, K + 2, L)
  <2>1. DelimAt(line, 2 - 1) + 1 = K + 2
    BY 2 - 1 = 1
  <2>2. DelimAt(line, 2) - 1 = L
    OBVIOUS
  <2> QED BY <2>1, <2>2 DEF Field
<1> QED BY <1>1, <1>2

\* What is left of a printed line when the newline is stripped, and its two fields.
LEMMA LineOfPrinted ==
    ASSUME NEW key \in Seq(Char), NEW val \in Seq(Char), NEW K, K = Len(key), NEW V, V = Len(val),
           NEW str, PrintedAs(str, key, val, K, V), K # 0,
           key[1] \notin Space, V # 0 => val[V] \notin Space,
           \A x \in 1 .. K : key[x] # Delim, \A x \in 1 .. V : val[x] # Delim,
           NEW line, line = Stripped(str)
    PROVE  ReadsAs(str, line, key, val)
<1> PICK L : L = K + V + 1
  OBVIOUS
<1>1. /\ K \in Nat \ {0} /\ V \in Nat /\ L \in Nat \ {0} /\ 1 \in 1 .. K
      /\ str \in Seq(Char) /\ Len(str) = L + 1
      /\ \A x \in 1 .. K : str[x] = key[x]
      /\ str[K + 1] = Delim
      /\ \A x \in 1 .. V : str[K + 1 + x] = val[x]
      /\ str[L + 1] = nl
      /\ nl \in Space /\ Delim \notin Space
  BY TextAssumption DEF PrintedAs
<1>2. str[1] \notin Space /\ str[L] \notin Space
  <2>1. str[1] \notin Space
    BY <1>1
  <2>2. CASE V = 0
    <3>1. L = K + 1
      BY <1>1, <2>2
    <3> QED BY <1>1, <2>1, <3>1
  <2>3. CASE V # 0
    <3>1. V \in 1 .. V /\ K + 1 + V = L
      BY <1>1, <2>3
    <3>2. str[K + 1 + V] = val[V]
      BY <1>1, <3>1
    <3> QED BY <2>1, <2>3, <3>1, <3>2
  <2> QED BY <2>2, <2>3
<1>3. Min(Ink(str)) = 1 /\ Max(Ink(str)) = L /\ Ink(str) # {}
  <2>1. 1 \in Ink(str) /\ L \in Ink(str)
    BY <1>1, <1>2 DEF Ink
  <2>2. \A x \in Ink(str) : x \in 1 .. L
    <3>1. \A x \in 1 .. L + 1 : x \in 1 .. L \/ x = L + 1
      BY <1>1, SMTT(60)
    <3> QED BY <1>1, <3>1 DEF Ink
  <2>3. Ink(str) \subseteq 0 .. L /\ Ink(str) \subseteq Nat /\ \A x \in Ink(str) : x <= L /\ 1 <= x
    BY <1>1, <2>2
  <2>4. Max(Ink(str)) = L
    BY <1>1, <2>1, <2>3, MaxIs
  <2>5. Min(Ink(str)) \in Ink(str) /\ Min(Ink(str)) <= 1
    BY <2>1, <2>3, MinIsLeast
  <2>6. Min(Ink(str)) = 1
    <3> PICK m : m = Min(Ink(str))
      OBVIOUS
    <3>1. m \in Nat /\ 1 <= m /\ m <= 1
      BY <2>3, <2>5
    <3> QED BY <3>1
  <2> QED BY <2>1, <2>4, <2>6
<1>4. line = SubSeq(str, 1, L)
  BY <1>3 DEF Stripped, Ink
<1>5. line \in Seq(Char) /\ Len(line) = L /\ \A x \in 1 .. L : line[x] = str[x]
  <2>1. 1 \in Nat \ {0} /\ L \in Nat /\ L <= Len(str) /\ L - 1 + 1 = L /\ 1 <= L
    BY <1>1
  <2>2. /\ line \in Seq(Char) /\ Len(line) = IF 1 <= L THEN L - 1 + 1 ELSE 0
        /\ \A x \in 1 .. L - 1 + 1 : line[x] = str[1 + x - 1]
    BY <1>1, <1>4, <2>1, PartOf
  <2>3. \A x \in 1 .. L : 1 + x - 1 = x
    BY <1>1
  <2> QED BY <2>1, <2>2, <2>3
<1>6. \A p \in 1 .. L + 1 : IsDelim(line, p) <=> p = K + 1 \/ p = L + 1
  <2> TAKE p \in 1 .. L + 1
  <2>1. DOMAIN line = 1 .. L /\ (p \in 1 .. L \/ p = L + 1) /\ L + 1 \notin 1 .. L
    <3>1. DOMAIN line = 1 .. L
      BY <1>5
    <3>2. L \in Nat
      BY <1>1
    <3> QED BY <3>1, <3>2, OneMorePlace
  <2>2. CASE p = L + 1
    BY <2>1, <2>2 DEF IsDelim
  <2>3. CASE p \in 1 .. L
    <3>1. IsDelim(line, p) <=> str[p] = Delim
      BY <1>5, <2>1, <2>3 DEF IsDelim
    <3>2. CASE p \in 1 .. K
      <4>1. str[p] # Delim /\ p # K + 1 /\ p # L + 1
        BY <1>1, <3>2
      <4> QED BY <3>1, <4>1
    <3>3. CASE p = K + 1
      BY <1>1, <3>1, <3>3
    <3>4. CASE p > K + 1
      <4> PICK y \in 1 .. V : p = K + 1 + y
        <5>1. p - (K + 1) \in 1 .. V /\ p = K + 1 + (p - (K + 1))
          BY <1>1, <2>3, <3>4
        <5> QED BY <5>1
      <4>1. str[p] # Delim
        BY <1>1
      <4> QED BY <1>1, <2>1, <2>3, <3>1, <3>4, <4>1
    <3> QED BY <1>1, <2>3, <3>2, <3>3, <3>4
  <2> QED BY <2>1, <2>2, <2>3
<1>7. Delims(line, K + 1) = 1 /\ Delims(line, L + 1) = 2
  <2>1. K + 1 \in 1 .. L + 1 /\ L + 1 \in 1 .. L + 1 /\ K + 1 # L + 1 /\ K + 1 \in 1 .. K + 1
    BY <1>1
  <2>2. DelimsTo(line, K + 1) = {K + 1}
    <3>1. \A q \in 1 .. K + 1 : q \in 1 .. L + 1 /\ q # L + 1
      BY <1>1
    <3> QED BY <1>6, <2>1, <3>1 DEF DelimsTo
  <2>3. DelimsTo(line, L + 1) = {K + 1} \cup {L + 1}
    BY <1>6, <2>1 DEF DelimsTo
  <2>4. Cardinality({K + 1}) = 1 /\ IsFiniteSet({K + 1})
    BY FS_Singleton
  <2>5. L + 1 \notin {K + 1}
    BY <2>1
  <2>6. Cardinality({K + 1} \cup {L + 1}) = 1 + 1
    BY <2>4, <2>5, FS_AddElement, ZenonT(60)
  <2>7. 1 + 1 = 2
    OBVIOUS
  <2>8. Delims(line, K + 1) = Cardinality({K + 1})
        /\ Delims(line, L + 1) = Cardinality({K + 1} \cup {L + 1})
    BY <2>2, <2>3 DEF Delims
  <2> QED BY <2>4, <2>6, <2>7, <2>8
<1>8. DelimAt(line, 0) = 0 /\ DelimAt(line, 1) = K + 1 /\ DelimAt(line, 2) = L + 1
  <2>1. /\ K + 1 \in 1 .. Len(line) + 1 /\ IsDelim(line, K + 1)
        /\ L + 1 \in 1 .. Len(line) + 1 /\ IsDelim(line, L + 1)
    BY <1>1, <1>5, <1>6
  <2>2. DelimAt(line, Delims(line, K + 1)) = K + 1 /\ DelimAt(line, Delims(line, L + 1)) = L + 1
    BY <1>5, <2>1, DelimIs
  <2>3. DelimAt(line, 0) = 0
    BY DEF DelimAt
  <2> QED BY <1>7, <2>2, <2>3
<1>9. FieldCnt(line) = 2
  BY <1>5, <1>7, FieldsOf
<1>10. SubSeq(line, 1, K) = key
  <2> PICK q : q = SubSeq(line, 1, K)
    OBVIOUS
  <2>1. 1 \in Nat \ {0} /\ K \in Nat /\ K <= Len(line) /\ K - 1 + 1 = K /\ 1 <= K
    BY <1>1, <1>5
  <2>2. /\ q \in Seq(Char) /\ Len(q) = IF 1 <= K THEN K - 1 + 1 ELSE 0
        /\ \A x \in 1 .. K - 1 + 1 : q[x] = line[1 + x - 1]
    BY <1>5, <2>1, PartOf
  <2>3. \A x \in 1 .. K : 1 + x - 1 = x /\ x \in 1 .. L
    BY <1>1
  <2>4. Len(q) = K /\ \A x \in 1 .. K : q[x] = key[x]
    BY <1>1, <1>5, <2>1, <2>2, <2>3
  <2> QED BY <2>2, <2>4, SeqEqual
<1>11. SubSeq(line, K + 2, L) = val
  <2> PICK q : q = SubSeq(line, K + 2, L)
    OBVIOUS
  <2>1. K + 2 \in Nat \ {0} /\ L \in Nat /\ L <= Len(line) /\ L - (K + 2) + 1 = V
    BY <1>1, <1>5
  <2>2. /\ q \in Seq(Char) /\ Len(q) = IF K + 2 <= L THEN L - (K + 2) + 1 ELSE 0
        /\ \A x \in 1 .. L - (K + 2) + 1 : q[x] = line[K + 2 + x - 1]
    BY <1>5, <2>1, PartOf
  <2>3. Len(q) = V
    BY <1>1, <2>1, <2>2
  <2>4. ASSUME NEW x \in 1 .. V PROVE q[x] = val[x]
    <3>1. K + 2 + x - 1 = K + 1 + x /\ K + 1 + x \in 1 .. L
      BY <1>1
    <3>2. q[x] = line[K + 2 + x - 1]
      BY <2>1, <2>2
    <3> QED BY <1>1, <1>5, <3>1, <3>2
  <2> QED BY <2>2, <2>3, <2>4, SeqEqual
<1>12. Field(line, 1) = key /\ Field(line, 2) = val
  <2>1. K \in Nat /\ L \in Nat
    BY <1>1
  <2> QED BY <1>8, <1>10, <1>11, <2>1, TwoFields
<1>13. RowOf(str, 2)[1] = key /\ RowOf(str, 2)[2] = val
  <2>1. 1 \in 1 .. 2 /\ 2 \in 1 .. 2 /\ 1 <= 2 /\ 2 <= 2
    OBVIOUS
  <2> QED BY <1>9, <1>12, <2>1 DEF RowOf
<1>14. line # <<>> /\ line[1] = key[1]
  <2>1. 1 \in 1 .. L
    BY <1>1
  <2> QED BY <1>1, <1>5, <2>1
<1> QED BY <1>13, <1>14 DEF ReadsAs

\* No key is empty and every entry is plain: what the round trip needs.
PlainDB(d) == \A n \in LiveIDs(d) : d.entries[n].key # <<>> /\ Plain(d.entries[n])

PlainStrings(key, val) ==
    LET both == key \o val
    IN  /\ \A n \in DOMAIN both : both[n] \notin {Delim, nl, nul}
        /\ key # <<>> => Head(key) \notin Space \cup {Hash}
        /\ val # <<>> => Last(val) \notin Space
        /\ Len(both) + 2 < BUFFER_SIZE

LineFor(key, val) == key \o <<Delim>> \o val \o <<nl>>

\* The first n characters have none of those that mark the parts and ends of a line.
Unmarked(str, n) == \A x \in 1 .. n : str[x] \notin {Delim, nl, nul}

LEMMA PlainChars ==
    ASSUME NEW key \in Seq(Char), NEW val \in Seq(Char), PlainStrings(key, val)
    PROVE  /\ Len(key) + Len(val) + 2 < BUFFER_SIZE
           /\ Unmarked(key, Len(key)) /\ Unmarked(val, Len(val))
<1> PICK both : both = key \o val
  OBVIOUS
<1>1. (\A n \in DOMAIN both : both[n] \notin {Delim, nl, nul}) /\ Len(both) + 2 < BUFFER_SIZE
  BY DEF PlainStrings
<1>2. /\ Len(both) = Len(key) + Len(val)
      /\ \A x \in 1 .. Len(key) : key[x] \notin {Delim, nl, nul}
      /\ \A x \in 1 .. Len(val) : val[x] \notin {Delim, nl, nul}
  BY <1>1, CharsOfBoth
<1> QED BY <1>1, <1>2 DEF Unmarked

\* A line with a key and a value, neither of which has what ends a line or a string.
PrintedPlain(line, key, val, K, V) ==
    /\ PrintedAs(line, key, val, K, V) /\ K + V + 2 < BUFFER_SIZE
    /\ Unmarked(key, K) /\ Unmarked(val, V)

LEMMA PrintedWhole ==
    ASSUME NEW key, NEW val, NEW K \in Nat, NEW V \in Nat, NEW line,
           PrintedPlain(line, key, val, K, V)
    PROVE  PiecesOf(line) = <<line>> /\ Cut(line) = line
<1>1. /\ line \in Seq(Char) /\ Len(line) = K + V + 2
      /\ \A x \in 1 .. K : line[x] = key[x]
      /\ line[K + 1] = Delim
      /\ \A x \in 1 .. V : line[K + 1 + x] = val[x]
      /\ line[K + V + 2] = nl
  BY DEF PrintedAs, PrintedPlain
<1>2. K + V + 2 < BUFFER_SIZE /\ Unmarked(key, K) /\ Unmarked(val, V)
  BY DEF PrintedPlain
<1>3. Delim # nl /\ Delim # nul /\ nl # nul
  BY TextAssumption, ToolsAssumption
<1>4. ASSUME NEW x \in 1 .. K + V + 1 PROVE line[x] # nl /\ line[x] # nul
  <2>1. x \in 1 .. K \/ x = K + 1 \/ (x - (K + 1) \in 1 .. V /\ K + 1 + (x - (K + 1)) = x)
    BY Places
  <2>2. CASE x \in 1 .. K
    BY <1>1, <1>2, <2>2 DEF Unmarked
  <2>3. CASE x = K + 1
    BY <1>1, <1>3, <2>3
  <2>4. CASE x - (K + 1) \in 1 .. V /\ K + 1 + (x - (K + 1)) = x
    <3>1. line[x] = val[x - (K + 1)]
      BY <1>1, <2>4
    <3> QED BY <1>2, <2>4, <3>1 DEF Unmarked
  <2> QED BY <2>1, <2>2, <2>3, <2>4
<1>5. PiecesOf(line) = <<line>>
  <2>1. Len(line) - 1 = K + V + 1 /\ Len(line) < BUFFER_SIZE /\ Len(line) # 0
    BY <1>1, <1>2, Places
  <2>2. line # <<>>
    BY <2>1
  <2>3. \A x \in 1 .. Len(line) - 1 : line[x] # nl
    BY <1>4, <2>1
  <2> QED BY <1>1, <2>1, <2>2, <2>3, OnePiece
<1>6. Cut(line) = line
  <2>1. \A x \in 1 .. K + V + 2 : line[x] # nul
    BY <1>1, <1>3, <1>4, Places
  <2> QED BY <1>1, <2>1, CutFacts
<1> QED BY <1>5, <1>6

LEMMA PlainStringsLine ==
    ASSUME NEW key \in Seq(Char), NEW val \in Seq(Char), key # <<>>, PlainStrings(key, val),
           NEW s, s = LineFor(key, val)
    PROVE  /\ PiecesOf(s) = <<s>> /\ Assigns(s) /\ KeyField(s) = key /\ ValField(s) = val
           /\ Cut(key) = key /\ Cut(val) = val
<1> PICK K \in Nat : K = Len(key) /\ K # 0
  OBVIOUS
<1> PICK V \in Nat : V = Len(val)
  OBVIOUS
<1>1. K + V + 2 < BUFFER_SIZE /\ Unmarked(key, K) /\ Unmarked(val, V)
  BY PlainChars
<1>2. Cut(key) = key /\ Cut(val) = val
  <2>1. \A x \in 1 .. Len(key) : key[x] # nul
    BY <1>1 DEF Unmarked
  <2>2. \A x \in 1 .. Len(val) : val[x] # nul
    BY <1>1 DEF Unmarked
  <2> QED BY <2>1, <2>2, CutFacts
<1>3. PrintedAs(s, key, val, K, V)
  BY PrintedIs DEF LineFor
<1>4. PiecesOf(s) = <<s>> /\ Cut(s) = s
  <2>1. PrintedPlain(s, key, val, K, V)
    BY <1>1, <1>3 DEF PrintedPlain
  <2> QED BY <2>1, PrintedWhole
<1>5. /\ key[1] \notin Space /\ key[1] # Hash /\ (V # 0 => val[V] \notin Space)
      /\ \A x \in 1 .. K : key[x] # Delim
      /\ \A x \in 1 .. V : val[x] # Delim
  <2>1. Head(key) = key[1] /\ (V # 0 => val # <<>> /\ Last(val) = val[V])
    BY DEF Last
  <2>2. Head(key) \notin Space \cup {Hash} /\ (val # <<>> => Last(val) \notin Space)
    BY DEF PlainStrings
  <2> QED BY <1>1, <2>1, <2>2 DEF Unmarked
<1> PICK t : t = Stripped(s)
  OBVIOUS
<1>6. t # <<>> /\ t[1] = key[1] /\ RowOf(s, 2)[1] = key /\ RowOf(s, 2)[2] = val
  <2>1. ReadsAs(s, t, key, val)
    BY <1>3, <1>5, LineOfPrinted
  <2> QED BY <2>1 DEF ReadsAs
<1>7. Stated(s) = t
  BY <1>4 DEF Stated
<1>8. Assigns(s)
  BY <1>5, <1>6, <1>7 DEF Assigns
<1>9. KeyField(s) = key /\ ValField(s) = val
  BY <1>4, <1>6 DEF KeyField, ValField
<1> QED BY <1>2, <1>4, <1>8, <1>9

\* A plain entry is printed as one line, which assigns its value to its key.
LEMMA PlainLine ==
    ASSUME NEW d \in DBType, WellFormed(d), PlainDB(d), NEW n \in LiveIDs(d),
           NEW line, line = Printed(d.entries[n])
    PROVE  /\ PiecesOf(line) = <<line>>
           /\ Fits(line) /\ KeyField(line) = d.entries[n].key /\ ValField(line) = d.entries[n].val
<1> PICK key : key = d.entries[n].key
  OBVIOUS
<1> PICK val : val = d.entries[n].val
  OBVIOUS
<1>1. /\ key \in Seq(Char) /\ val \in Seq(Char) /\ key # <<>> /\ Len(key) <= MAX_KEY_SIZE
      /\ PlainStrings(key, val)
  BY DBParts DEF PlainDB, WellFormed, Plain, PlainStrings
<1> PICK s : s = LineFor(key, val)
  OBVIOUS
<1>2. /\ PiecesOf(s) = <<s>> /\ Assigns(s) /\ KeyField(s) = key /\ ValField(s) = val
      /\ Cut(key) = key /\ Cut(val) = val
  BY <1>1, PlainStringsLine
<1>3. line = s
  BY <1>2 DEF Printed, LineFor
<1> QED BY <1>1, <1>2, <1>3 DEF Fits

\* What a plain dump assigns, all of it, is the dictionary.
LEMMA DumpAssigns ==
    ASSUME NEW d \in DBType, WellFormed(d), PlainDB(d),
           NEW lines \in Seq(Seq(Char)), DumpOf(d, lines, Len(d.entries)),
           NEW A, A = Assigned(lines, 1 .. Len(lines))
    PROVE  Dict(d) = A
<1> PICK L \in Nat : L = Len(lines) /\ DOMAIN lines = 1 .. L
  OBVIOUS
<1> DEFINE Of(k) == {x \in 1 .. L : KeyField(lines[x]) = k}
<1>1. \A x \in 1 .. L : \E m \in LiveIDs(d) : lines[x] = Printed(d.entries[m])
  BY DEF DumpOf
<1>2. \A m \in LiveIDs(d) : \E x \in 1 .. L : lines[x] = Printed(d.entries[m])
  <2>1. \A m \in LiveIDs(d) : m <= Len(d.entries)
    BY DBParts
  <2> QED BY <2>1 DEF DumpOf
<1>3. /\ DOMAIN A = {KeyField(lines[x]) : x \in 1 .. L}
      /\ A = [k \in DOMAIN A |-> A[k]]
      /\ \A k \in DOMAIN A : A[k] = ValField(lines[Max(Of(k))])
  BY DEF Assigned
<1>4. ASSUME NEW n \in LiveIDs(d)
      PROVE  d.entries[n].key \in DOMAIN A /\ A[d.entries[n].key] = d.entries[n].val
  <2> PICK k : k = d.entries[n].key
    OBVIOUS
  <2>1. PICK x \in 1 .. L : lines[x] = Printed(d.entries[n])
    BY <1>2
  <2>2. KeyField(lines[x]) = k
    BY <2>1, PlainLine
  <2>3. x \in Of(k) /\ k \in DOMAIN A
    BY <1>3, <2>2
  <2>4. Max(Of(k)) \in Of(k)
    <3>1. \A y \in Of(k) : y \in 0 .. L
      OBVIOUS
    <3>2. Of(k) \subseteq 0 .. L /\ Of(k) # {}
      BY <2>3, <3>1
    <3> HIDE DEF Of
    <3> QED BY <3>2, MaxIsGreatest
  <2>5. PICK y \in 1 .. L : y = Max(Of(k)) /\ KeyField(lines[y]) = k
    BY <2>4
  <2>6. PICK m \in LiveIDs(d) : lines[y] = Printed(d.entries[m])
    BY <1>1
  <2>7. k = d.entries[m].key /\ ValField(lines[y]) = d.entries[m].val
    BY <2>5, <2>6, PlainLine
  <2>8. m = n
    <3>1. /\ m \in DOMAIN d.entries /\ ~d.entries[m].deleted
          /\ n \in DOMAIN d.entries /\ ~d.entries[n].deleted
      BY DBParts
    <3>2. d.entries[m].key = d.entries[n].key
      BY <2>7
    <3> QED BY <3>1, <3>2 DEF WellFormed
  <2> HIDE DEF Of
  <2> QED BY <1>3, <2>3, <2>5, <2>7, <2>8
<1>5. ASSUME NEW k \in DOMAIN A
      PROVE  \E n \in LiveIDs(d) : d.entries[n].key = k
  <2>1. PICK x \in 1 .. L : KeyField(lines[x]) = k
    BY <1>3
  <2>2. PICK m \in LiveIDs(d) : lines[x] = Printed(d.entries[m])
    BY <1>1
  <2>3. KeyField(lines[x]) = d.entries[m].key
    BY <2>2, PlainLine
  <2> QED BY <2>1, <2>3
<1> HIDE DEF Of
<1> QED BY <1>3, <1>4, <1>5, DictIs

LEMMA LoadDoneRoundTrip == ToolsInv => DumpLoadRoundTrip
<1> SUFFICES ASSUME ToolsInv, Done("mkdb"), NEW p \in Path, Opens(p),
                    \A n \in LiveIDs(files[p]) : Plain(files[p].entries[n]),
                    before[run.in] = Text(Dump(files[p])),
                    Cardinality(LiveIDs(files[p])) <= files[run.out].cap
             PROVE  Dict(files[run.out]) = Dict(files[p])
  BY DEF DumpLoadRoundTrip
<1> PICK lines : lines = before[run.in].lines
  OBVIOUS
<1> PICK d : d = files[run.out]
  OBVIOUS
<1> PICK e : e = files[p]
  OBVIOUS
<1>1. lines \in Seq(Seq(Char)) /\ LoadedUpTo(lines, d, Len(lines)) /\ d = new
  BY DEF ToolsInv, LoadInv, Done
<1>2. e \in DBType /\ WellFormed(e)
  BY FilesAreGood DEF ToolsInv, Opens
<1>3. lines = Dump(e)
  BY DEF Text
<1>4. PlainDB(e) /\ DumpOf(e, lines, Len(e.entries))
  <2>1. PlainDB(e)
    BY <1>2, DBParts DEF Opens, PlainDB
  <2>2. LineEach(e)
    BY <1>2, <2>1, PlainLine DEF LineEach
  <2> QED BY <1>2, <1>3, <2>1, <2>2, DumpFacts
<1>5. d.cap \in Nat
  BY <1>1, DBParts DEF ToolsInv, ToolsType
<1>6. Len(lines) = Cardinality(LiveIDs(e))
  <2>1. {m \in 1 .. Len(e.entries) : m \in LiveIDs(e)} = LiveIDs(e)
    BY <1>2, DBParts
  <2> QED BY <1>4, <2>1 DEF DumpOf, CountIn
<1> PICK L \in Nat : L = Len(lines) /\ DOMAIN lines = 1 .. L
  BY <1>1
<1>7. L <= d.cap
  BY <1>6
<1>8. ASSUME NEW m \in 1 .. L
      PROVE  Fits(lines[m]) /\ FitCount(lines, m) <= d.cap
  <2>1. PICK n \in LiveIDs(e) : lines[m] = Printed(e.entries[n])
    BY <1>4 DEF DumpOf
  <2>2. Fits(lines[m])
    BY <1>2, <1>4, <2>1, PlainLine
  <2>3. m \in Nat /\ FitCount(lines, m) \in Nat /\ FitCount(lines, m) <= m
    BY FitCountStep
  <2>4. FitCount(lines, m) <= d.cap
    BY <1>5, <1>7, <2>3
  <2> QED BY <2>2, <2>4
<1>9. FitUpTo(lines, d.cap, L) = 1 .. L
  BY <1>8 DEF FitUpTo
<1>10. Dict(d) = Assigned(lines, 1 .. L)
  BY <1>1, <1>9 DEF LoadedUpTo
<1>11. Dict(e) = Assigned(lines, 1 .. L)
  BY <1>1, <1>2, <1>4, DumpAssigns
<1> QED BY <1>10, <1>11

(* A database dumped as text by dbdmpkv and loaded again by mkdb has the     *)
(* dictionary it had, whatever the capacity that holds it, if its strings    *)
(* are plain: then what is printed of an entry is one line to fgets, and     *)
(* stripping and the tokenizer give its key and value back (dbdmpkv.c 35-50  *)
(* against mkdb.c 38-67).                                                    *)
THEOREM DumpLoads == Spec => []DumpLoadRoundTrip
BY LoadDoneRoundTrip, ToolsInvariant, PTL
=============================================================================
