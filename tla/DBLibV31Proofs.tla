--------------------------- MODULE DBLibV31Proofs ---------------------------
(***************************************************************************)
(* The engine before this one and its index, for every set of keys, every  *)
(* hash and every size.  Of the open-addressing table, with any malloc     *)
(* failing: as long as the count of slots that are not empty is right, the *)
(* walk of every key in use reaches it.  Of the engine on top: until an    *)
(* opened database gets another entry, its records, its index table and    *)
(* its hash table agree.                                                   *)
(***************************************************************************)
EXTENDS DBLibV31, FiniteSetTheorems, SequenceTheorems, TLAPS

USE ProbeAssumption

-----------------------------------------------------------------------------
(* The least element, and the walk through a table. *)

\* The least number of a set of numbers.
LEMMA MinIsLeast ==
    ASSUME NEW S, S \subseteq Nat, S # {}
    PROVE  Min(S) \in S /\ \A x \in S : Min(S) <= x
<1> DEFINE R == OpToRel(<, Nat)
<1>1. PICK m \in S : \A x \in S : ~(<<x, m>> \in R)
  <2> HIDE DEF R
  <2>1. IsWellFoundedOn(R, Nat)
    BY NatLessThanWellFounded DEF R
  <2> QED BY <2>1, WFMin
<1>2. ASSUME NEW x \in S PROVE m <= x
  <2>1. m \in Nat /\ x \in Nat
    OBVIOUS
  <2>2. ~(x < m)
    BY <1>1, <2>1 DEF OpToRel
  <2> QED BY <2>1, <2>2
<1> QED BY <1>2 DEF Min

(* A remainder is what is left of any decomposition. *)
LEMMA ModIs ==
    ASSUME NEW T \in Nat \ {0}, NEW q \in Nat, NEW r \in 0 .. T - 1
    PROVE  (T * q + r) % T = r
OBVIOUS

(* A walk stays in the table and visits every slot of it. *)
LEMMA WalkVisitsAll ==
    ASSUME NEW T \in Nat \ {0}, NEW h \in Nat
    PROVE  /\ \A n \in Nat : (h + n) % T \in 0 .. T - 1
           /\ \A s \in 0 .. T - 1 : \E n \in 0 .. T - 1 : (h + n) % T = s
<1>1. \A n \in Nat : (h + n) % T \in 0 .. T - 1
  OBVIOUS
<1>2. ASSUME NEW s \in 0 .. T - 1
      PROVE  \E n \in 0 .. T - 1 : (h + n) % T = s
  <2> DEFINE q == h \div T
             r == h % T
  <2>1. q \in Nat /\ r \in 0 .. T - 1 /\ h = T * q + r
    OBVIOUS
  <2> HIDE DEF q, r
  <2>2. CASE s >= r
    <3>1. s - r \in 0 .. T - 1 /\ h + (s - r) = T * q + s
      BY <2>1, <2>2
    <3>2. (T * q + s) % T = s
      BY <2>1, ModIs
    <3> QED BY <3>1, <3>2
  <2>3. CASE s < r
    <3>1. T * (q + 1) = T * q + T
      BY <2>1
    <3>2. s - r + T \in 0 .. T - 1 /\ h + (s - r + T) = T * (q + 1) + s
      BY <2>1, <2>3, <3>1
    <3>3. (T * (q + 1) + s) % T = s
      BY <2>1, ModIs
    <3> QED BY <3>2, <3>3
  <2> QED BY <2>1, <2>2, <2>3
<1> QED BY <1>1, <1>2

-----------------------------------------------------------------------------
(* A table of T slots. *)

Table(T) ==
    /\ T \in Nat \ {0} /\ ~NoTable
    /\ DOMAIN hash_entry_arr = 0 .. T - 1
    /\ \A s \in 0 .. T - 1 :
          /\ hash_entry_arr[s].flag \in {"ENTRY_EMPTY", "ENTRY_DELETED", "ENTRY_USED"}
          /\ hash_entry_arr[s].flag = "ENTRY_USED" => hash_entry_arr[s].key \in ProbeKeys

(* Its sets of slots are finite, and its walks stay in it. *)
LEMMA TableFacts ==
    ASSUME NEW T, Table(T)
    PROVE  /\ table_size = T
           /\ \A key \in ProbeKeys :
                 /\ \A n \in Nat : Probe(key, n) \in 0 .. T - 1
                 /\ \A s \in 0 .. T - 1 : \E n \in 0 .. T - 1 : Probe(key, n) = s
           /\ \A flags : /\ IsFiniteSet(Slots(flags))
                         /\ Cardinality(Slots(flags)) \in Nat
                         /\ Cardinality(Slots(flags)) <= T
                         /\ Cardinality(Slots(flags)) = T => Slots(flags) = 0 .. T - 1
<1>1. IsFiniteSet(0 .. T - 1) /\ Cardinality(0 .. T - 1) = T
  BY FS_Interval DEF Table
<1>2. table_size = T
  BY <1>1 DEF Table, table_size
<1>3. ASSUME NEW key \in ProbeKeys
      PROVE  /\ \A n \in Nat : Probe(key, n) \in 0 .. T - 1
             /\ \A s \in 0 .. T - 1 : \E n \in 0 .. T - 1 : Probe(key, n) = s
  <2>1. ProbeHash[key] \in Nat /\ T \in Nat \ {0}
    BY DEF Table
  <2>2. /\ \A n \in Nat : (ProbeHash[key] + n) % T \in 0 .. T - 1
        /\ \A s \in 0 .. T - 1 : \E n \in 0 .. T - 1 : (ProbeHash[key] + n) % T = s
    BY <2>1, WalkVisitsAll
  <2>3. \A n : Probe(key, n) = (ProbeHash[key] + n) % T
    BY <1>2 DEF Probe
  <2> QED BY <2>2, <2>3
<1>4. ASSUME NEW flags
      PROVE  /\ IsFiniteSet(Slots(flags))
             /\ Cardinality(Slots(flags)) \in Nat
             /\ Cardinality(Slots(flags)) <= T
             /\ Cardinality(Slots(flags)) = T => Slots(flags) = 0 .. T - 1
  <2>1. Slots(flags) \in SUBSET (0 .. T - 1)
    BY DEF Slots, Table
  <2> QED BY <1>1, <2>1, FS_Subset, FS_CardinalityType
<1> QED BY <1>2, <1>3, <1>4

\* Step n of the walk of key is the first whose slot is in S, or T if none is.
FirstIn(key, S, n, T) ==
    /\ n \in 0 .. T
    /\ n < T => Probe(key, n) \in S
    /\ \A m \in 0 .. T - 1 : m < n => Probe(key, m) \notin S

\* The number of steps until a walk first meets a slot of S, or T if it never does.
LEMMA FirstOfWalk ==
    ASSUME NEW T \in Nat \ {0}, NEW key, NEW S, NEW n,
           n = Min({m \in 0 .. T - 1 : Probe(key, m) \in S} \cup {T})
    PROVE  FirstIn(key, S, n, T)
<1> DEFINE W == {m \in 0 .. T - 1 : Probe(key, m) \in S} \cup {T}
<1>1. W \subseteq Nat /\ W # {}
  OBVIOUS
<1>2. n \in W /\ \A m \in W : n <= m
  <2> HIDE DEF W
  <2>1. n = Min(W)
    BY DEF W
  <2>2. Min(W) \in W /\ \A m \in W : Min(W) <= m
    BY <1>1, MinIsLeast
  <2> QED BY <2>1, <2>2
<1>3. n \in 0 .. T /\ (n < T => Probe(key, n) \in S)
  BY <1>2
<1>4. ASSUME NEW m \in 0 .. T - 1, m < n, Probe(key, m) \in S
      PROVE  FALSE
  <2>1. n <= m
    BY <1>2, <1>4
  <2> QED BY <1>3, <1>4, <2>1
<1> QED BY <1>3, <1>4 DEF FirstIn

(* The slots that hold key, and the walks of the code, which stop where they should. *)
SlotsOf(key) == {s \in Slots({"ENTRY_USED"}) : hash_entry_arr[s].key = key}

FoundAt(key) == StepTo(key, LAMBDA slot : Matches(slot, key))

\* The walks of the code: to a free slot, to an empty slot, to the key.
LEMMA StepsTo ==
    ASSUME NEW T, Table(T), NEW key \in ProbeKeys
    PROVE  /\ FirstIn(key, Slots({"ENTRY_EMPTY", "ENTRY_DELETED"}), StepTo(key, Free), T)
           /\ FirstIn(key, Slots({"ENTRY_EMPTY"}), StepTo(key, Empty), T)
           /\ FirstIn(key, SlotsOf(key), FoundAt(key), T)
<1>1. /\ T \in Nat \ {0} /\ table_size = T
      /\ DOMAIN hash_entry_arr = 0 .. T - 1
      /\ \A n \in 0 .. T - 1 : Probe(key, n) \in 0 .. T - 1
  <2>1. T \in Nat \ {0} /\ DOMAIN hash_entry_arr = 0 .. T - 1
    BY DEF Table
  <2>2. table_size = T /\ \A n \in Nat : Probe(key, n) \in 0 .. T - 1
    BY TableFacts
  <2>3. \A n \in 0 .. T - 1 : n \in Nat
    BY <2>1
  <2> QED BY <2>1, <2>2, <2>3
<1>2. FirstIn(key, Slots({"ENTRY_EMPTY", "ENTRY_DELETED"}), StepTo(key, Free), T)
  <2>1. {n \in 0 .. T - 1 : Free(hash_entry_arr[Probe(key, n)])}
           = {n \in 0 .. T - 1 : Probe(key, n) \in Slots({"ENTRY_EMPTY", "ENTRY_DELETED"})}
    BY <1>1 DEF Free, Slots
  <2>2. StepTo(key, Free) = Min({n \in 0 .. T - 1 : Free(hash_entry_arr[Probe(key, n)])} \cup {T})
    BY <1>1 DEF StepTo
  <2> QED BY <1>1, <2>1, <2>2, FirstOfWalk
<1>3. FirstIn(key, Slots({"ENTRY_EMPTY"}), StepTo(key, Empty), T)
  <2>1. {n \in 0 .. T - 1 : Empty(hash_entry_arr[Probe(key, n)])}
           = {n \in 0 .. T - 1 : Probe(key, n) \in Slots({"ENTRY_EMPTY"})}
    BY <1>1 DEF Empty, Slots
  <2>2. StepTo(key, Empty) = Min({n \in 0 .. T - 1 : Empty(hash_entry_arr[Probe(key, n)])} \cup {T})
    BY <1>1 DEF StepTo
  <2> QED BY <1>1, <2>1, <2>2, FirstOfWalk
<1>4. FirstIn(key, SlotsOf(key), FoundAt(key), T)
  <2>1. {n \in 0 .. T - 1 : Matches(hash_entry_arr[Probe(key, n)], key)}
           = {n \in 0 .. T - 1 : Probe(key, n) \in SlotsOf(key)}
    BY <1>1 DEF Matches, Slots, SlotsOf
  <2>2. FoundAt(key)
           = Min({n \in 0 .. T - 1 : Matches(hash_entry_arr[Probe(key, n)], key)} \cup {T})
    BY <1>1 DEF StepTo, FoundAt
  <2> QED BY <1>1, <2>1, <2>2, FirstOfWalk
<1> QED BY <1>2, <1>3, <1>4

-----------------------------------------------------------------------------
(* From the invariant to the search. *)

(* The table of a state that has the type. *)
LEMMA TypeTable ==
    ASSUME ProbeType, ~NoTable
    PROVE  \E T : Table(T)
BY DEF ProbeType, Table

(* A key in a used slot that its walk reaches is found. *)
LEMMA ReachedFound ==
    ASSUME NEW T, Table(T), NEW s \in Slots({"ENTRY_USED"}), Reached(s)
    PROVE  Search(hash_entry_arr[s].key) >= 0
<1> DEFINE key == hash_entry_arr[s].key
<1>1. /\ T \in Nat \ {0} /\ s \in 0 .. T - 1 /\ hash_entry_arr[s].flag = "ENTRY_USED"
      /\ key \in ProbeKeys
  BY DEF Slots, Table
<1>2. table_size = T /\ \A n \in Nat : Probe(key, n) \in 0 .. T - 1
  <2> HIDE DEF key
  <2> QED BY <1>1, TableFacts
<1>3. PICK n \in 0 .. T - 1 : /\ Probe(key, n) = s
                              /\ \A m \in 0 .. n - 1 : ~Empty(hash_entry_arr[Probe(key, m)])
  BY <1>2 DEF Reached
<1>4. /\ FirstIn(key, Slots({"ENTRY_EMPTY"}), StepTo(key, Empty), T)
      /\ FirstIn(key, SlotsOf(key), FoundAt(key), T)
  <2> HIDE DEF key
  <2> QED BY <1>1, StepsTo
<1>5. FoundAt(key) <= n
  <2>1. Probe(key, n) \in SlotsOf(key)
    BY <1>3 DEF SlotsOf
  <2> HIDE DEF key
  <2> QED BY <1>1, <1>3, <1>4, <2>1 DEF FirstIn
<1>6. n < StepTo(key, Empty)
  <2>1. s \notin Slots({"ENTRY_EMPTY"})
    BY <1>1 DEF Slots
  <2>2. \A m \in 0 .. T - 1 : m <= n => Probe(key, m) \notin Slots({"ENTRY_EMPTY"})
    BY <1>1, <1>3, <2>1 DEF Slots, Empty
  <2> HIDE DEF key
  <2> QED BY <1>1, <1>3, <1>4, <2>2 DEF FirstIn
<1>7. FoundAt(key) \in Nat /\ FoundAt(key) < StepTo(key, Empty)
  <2>1. FoundAt(key) \in 0 .. T /\ StepTo(key, Empty) \in 0 .. T
    BY <1>4 DEF FirstIn
  <2> HIDE DEF key
  <2> QED BY <1>1, <1>3, <1>5, <1>6, <2>1
<1>8. Search(key) = Probe(key, FoundAt(key))
  BY <1>7 DEF Search, FoundAt
<1> HIDE DEF key
<1>9. Search(key) >= 0
  BY <1>1, <1>2, <1>7, <1>8
<1> QED BY <1>9 DEF key

(* What search answers with is a slot that holds the key. *)
LEMMA FoundHolds ==
    ASSUME NEW T, Table(T), NEW key \in ProbeKeys, ~(Search(key) < 0)
    PROVE  Search(key) \in Slots({"ENTRY_USED"}) /\ hash_entry_arr[Search(key)].key = key
<1>1. FoundAt(key) < StepTo(key, Empty) /\ Search(key) = Probe(key, FoundAt(key))
  BY DEF Search, FoundAt
<1>2. /\ FirstIn(key, Slots({"ENTRY_EMPTY"}), StepTo(key, Empty), T)
      /\ FirstIn(key, SlotsOf(key), FoundAt(key), T)
  BY StepsTo
<1>3. FoundAt(key) < T
  <2>1. T \in Nat
    BY DEF Table
  <2> QED BY <1>1, <1>2, <2>1 DEF FirstIn
<1> QED BY <1>1, <1>2, <1>3 DEF FirstIn, SlotsOf

\* What search answers with is a number.
LEMMA SearchIsNumber ==
    ASSUME NEW T, Table(T), NEW key \in ProbeKeys
    PROVE  Search(key) \in Int
<1>1. FoundAt(key) \in Nat
  <2>1. FirstIn(key, SlotsOf(key), FoundAt(key), T) /\ T \in Nat
    BY StepsTo DEF Table
  <2> QED BY <2>1 DEF FirstIn
<1>2. Probe(key, FoundAt(key)) \in Int
  <2>1. Probe(key, FoundAt(key)) \in 0 .. T - 1 /\ T \in Nat
    BY <1>1, TableFacts DEF Table
  <2> QED BY <2>1
<1>3. Search(key) = IF FoundAt(key) < StepTo(key, Empty) THEN Probe(key, FoundAt(key)) ELSE -1
  BY DEF Search, FoundAt
<1> QED BY <1>2, <1>3

(* A table that is not full has a slot that is not in use, and the walk of every *)
(* key comes to one, behind slots in use.                                        *)
LEMMA WalkFindsRoom ==
    ASSUME NEW T, Table(T), NEW key \in ProbeKeys, Cardinality(Slots({"ENTRY_USED"})) # T
    PROVE  LET n == StepTo(key, Free)
           IN  /\ n \in 0 .. T - 1
               /\ Probe(key, n) \in Slots({"ENTRY_EMPTY", "ENTRY_DELETED"})
               /\ \A m \in 0 .. n - 1 : Probe(key, m) \in Slots({"ENTRY_USED"})
<1> DEFINE n == StepTo(key, Free)
           Room == Slots({"ENTRY_EMPTY", "ENTRY_DELETED"})
<1>1. /\ T \in Nat \ {0}
      /\ \A s \in 0 .. T - 1 : s \in Room \/ s \in Slots({"ENTRY_USED"})
  BY DEF Table, Slots
<1>2. /\ \A m \in Nat : Probe(key, m) \in 0 .. T - 1
      /\ \A s \in 0 .. T - 1 : \E m \in 0 .. T - 1 : Probe(key, m) = s
      /\ Cardinality(0 .. T - 1) = T
  <2>1. /\ \A m \in Nat : Probe(key, m) \in 0 .. T - 1
        /\ \A s \in 0 .. T - 1 : \E m \in 0 .. T - 1 : Probe(key, m) = s
    BY TableFacts
  <2>2. Cardinality(0 .. T - 1) = T
    BY <1>1, FS_Interval
  <2> QED BY <2>1, <2>2
<1>3. FirstIn(key, Room, n, T)
  BY StepsTo
<1> HIDE DEF n, Room
<1>4. PICK s \in 0 .. T - 1 : s \in Room
  <2>1. CASE \A s \in 0 .. T - 1 : s \notin Room
    <3>1. Slots({"ENTRY_USED"}) = 0 .. T - 1
      <4>1. Slots({"ENTRY_USED"}) \subseteq 0 .. T - 1
        BY DEF Slots, Table
      <4> QED BY <1>1, <2>1, <4>1
    <3> QED BY <1>2, <3>1
  <2> QED BY <2>1
<1>5. PICK m \in 0 .. T - 1 : Probe(key, m) = s
  BY <1>2
<1>6. n \in 0 .. T - 1
  BY <1>1, <1>3, <1>4, <1>5 DEF FirstIn
<1>7. Probe(key, n) \in Room
  BY <1>1, <1>3, <1>6 DEF FirstIn
<1>8. \A x \in 0 .. n - 1 : Probe(key, x) \in Slots({"ENTRY_USED"})
  BY <1>1, <1>2, <1>3, <1>6 DEF FirstIn
<1> QED BY <1>6, <1>7, <1>8 DEF n, Room

-----------------------------------------------------------------------------
(* The steps. *)

\* What the invariant says of a table of T slots.
Sound(T) ==
    /\ Table(T)
    /\ nonempty_entry_count \in Nat
    /\ entry_count = Cardinality(Slots({"ENTRY_USED"}))
    /\ nonempty_entry_count >= Cardinality(NonEmpty)
    /\ nonempty_entry_count = Cardinality(NonEmpty) =>
         \A s \in Slots({"ENTRY_USED"}) : Reached(s)

\* The count of slots that are not empty is right: no malloc has failed in a deleted one.
Exact == nonempty_entry_count = Cardinality(NonEmpty)

\* A sound table satisfies the invariant, and there is no other way.
LEMMA SoundNext ==
    ASSUME NEW CONSTANT T, Sound(T)'
    PROVE  ProbeIInv'
<1>1. Cardinality(0 .. T - 1) = T
  <2>1. T \in Nat \ {0}
    BY DEF Sound, Table
  <2> QED BY <2>1, FS_Interval
<1>2. table_size' = T
  BY <1>1 DEF Sound, Table, table_size
<1>3. ProbeType'
  <2>1. Table(T)' /\ nonempty_entry_count' \in Nat
    BY DEF Sound
  <2> QED BY <1>2, <2>1 DEF ProbeType, Table
<1> QED BY <1>3 DEF ProbeIInv, Sound

LEMMA SoundInv == ProbeIInv <=> (NoTable \/ \E T : Sound(T))
<1>1. ASSUME ProbeIInv, ~NoTable PROVE \E T : Sound(T)
  BY <1>1, TypeTable DEF ProbeIInv, ProbeType, Sound
<1>2. ASSUME NEW T, Sound(T) PROVE ProbeIInv
  <2>1. table_size = T
    BY <1>2, TableFacts DEF Sound
  <2> QED BY <1>2, <2>1 DEF ProbeIInv, ProbeType, Sound, Table
<1>3. NoTable => ProbeIInv
  BY DEF ProbeIInv, ProbeType
<1> QED BY <1>1, <1>2, <1>3

Writes(h, slot) == hash_entry_arr' = [hash_entry_arr EXCEPT ![h] = slot]

(* One slot is written: the sets of slots change by it. *)
LEMMA SlotWritten ==
    ASSUME NEW T, Table(T), NEW h \in 0 .. T - 1, NEW slot,
           slot.flag \in {"ENTRY_EMPTY", "ENTRY_DELETED", "ENTRY_USED"},
           slot.flag = "ENTRY_USED" => slot.key \in ProbeKeys,
           Writes(h, slot)
    PROVE  /\ Table(T)' /\ table_size' = T
           /\ hash_entry_arr'[h] = slot
           /\ \A s \in 0 .. T - 1 : s # h => hash_entry_arr'[s] = hash_entry_arr[s]
           /\ \A s : s \in Slots({"ENTRY_USED"})'
                       <=> IF s = h THEN slot.flag = "ENTRY_USED" ELSE s \in Slots({"ENTRY_USED"})
           /\ \A s : s \in NonEmpty' <=> IF s = h THEN slot.flag # "ENTRY_EMPTY" ELSE s \in NonEmpty
<1>1. /\ T \in Nat \ {0} /\ DOMAIN hash_entry_arr = 0 .. T - 1
      /\ DOMAIN hash_entry_arr' = 0 .. T - 1
      /\ hash_entry_arr'[h] = slot
      /\ \A s \in 0 .. T - 1 : s # h => hash_entry_arr'[s] = hash_entry_arr[s]
  BY DEF Table, Writes
<1>2. Table(T)'
  <2>1. hash_entry_arr' # <<>>
    BY <1>1
  <2> QED BY <1>1, <2>1 DEF Table, NoTable
<1>3. table_size' = T
  <2>1. Cardinality(0 .. T - 1) = T
    BY <1>1, FS_Interval
  <2> QED BY <1>1, <2>1 DEF table_size
<1>4. \A s : s \in Slots({"ENTRY_USED"})'
              <=> IF s = h THEN slot.flag = "ENTRY_USED" ELSE s \in Slots({"ENTRY_USED"})
  BY <1>1 DEF Slots
<1>5. \A s : s \in NonEmpty' <=> IF s = h THEN slot.flag # "ENTRY_EMPTY" ELSE s \in NonEmpty
  BY <1>1 DEF Slots, NonEmpty
<1> QED BY <1>1, <1>2, <1>3, <1>4, <1>5

(* A walk stays open when no slot that was not empty becomes empty. *)
LEMMA ReachedKept ==
    ASSUME NEW T \in Nat \ {0}, table_size = T, table_size' = T,
           NEW s \in 0 .. T - 1, Reached(s), hash_entry_arr'[s].key = hash_entry_arr[s].key,
           \A n \in Nat : Probe(hash_entry_arr[s].key, n) \in 0 .. T - 1,
           \A x \in 0 .. T - 1 : ~Empty(hash_entry_arr[x]) => ~Empty(hash_entry_arr'[x])
    PROVE  Reached(s)'
<1> DEFINE key == hash_entry_arr[s].key
<1>1. PICK n \in 0 .. T - 1 : /\ Probe(key, n) = s
                              /\ \A m \in 0 .. n - 1 : ~Empty(hash_entry_arr[Probe(key, m)])
  BY DEF Reached
<1>2. \A m : Probe(key, m)' = (ProbeHash[hash_entry_arr'[s].key] + m) % T
  BY DEF Probe
<1>3. \A m : Probe(key, m) = (ProbeHash[hash_entry_arr[s].key] + m) % T
  BY DEF Probe
<1>4. \A m : Probe(hash_entry_arr[s].key, m)' = Probe(hash_entry_arr[s].key, m)
  BY <1>2, <1>3
<1>5. \A m \in 0 .. n - 1 : ~Empty(hash_entry_arr'[Probe(key, m)])
  BY <1>1
<1> QED BY <1>1, <1>4, <1>5 DEF Reached, Empty

(* A call that changes nothing but its answer. *)
LEMMA SameTable ==
    ASSUME ProbeIInv, UNCHANGED <<hash_entry_arr, entry_count, nonempty_entry_count>>
    PROVE  ProbeIInv'
BY DEF ProbeIInv, ProbeType, NoTable, Slots, NonEmpty, Reached, Probe, table_size, Empty

(* create: no slot is used. *)
LEMMA FreshTable ==
    ASSUME NEW size \in Nat \ {0},
           hash_entry_arr' = [s \in 0 .. size - 1 |-> Unused("ENTRY_EMPTY")],
           entry_count' = 0, nonempty_entry_count' = 0
    PROVE  Sound(size)' /\ Exact' /\ Slots({"ENTRY_USED"})' = {}
<1>1. \A s \in 0 .. size - 1 : hash_entry_arr'[s].flag = "ENTRY_EMPTY"
  BY DEF Unused
<1>2. DOMAIN hash_entry_arr' = 0 .. size - 1
  OBVIOUS
<1>3. Slots({"ENTRY_USED"})' = {} /\ NonEmpty' = {}
  BY <1>1, <1>2 DEF Slots, NonEmpty
<1>4. Cardinality({}) = 0
  BY FS_EmptySet
<1>5. Table(size)'
  <2>1. 0 \in DOMAIN hash_entry_arr'
    BY <1>2
  <2>2. hash_entry_arr' # <<>>
    BY <2>1
  <2> QED BY <1>1, <1>2, <2>2 DEF Table, NoTable
<1>6. Cardinality(Slots({"ENTRY_USED"})') = 0 /\ Cardinality(NonEmpty') = 0
  BY <1>3, <1>4
<1>7. \A s \in Slots({"ENTRY_USED"})' : Reached(s)'
  BY <1>3
<1> QED BY <1>3, <1>5, <1>6, <1>7 DEF Sound, Exact

LEMMA InitProbe ==
    ASSUME ProbeIInv, NEW size \in TableSizes, InitHashTableObject(size)
    PROVE  ProbeIInv'
<1>1. CASE size = 0
  BY <1>1, SameTable DEF InitHashTableObject
<1>2. CASE size # 0
  <2>1. /\ size \in Nat \ {0}
        /\ hash_entry_arr' = [s \in 0 .. size - 1 |-> Unused("ENTRY_EMPTY")]
        /\ entry_count' = 0 /\ nonempty_entry_count' = 0
    BY <1>2 DEF InitHashTableObject
  <2>2. Sound(size)'
    BY <2>1, FreshTable
  <2> QED BY <2>2, SoundNext
<1> QED BY <1>1, <1>2

(* The three ways to write a slot: a free one is taken, a used one becomes a     *)
(* tombstone, a free one is left empty.                                          *)
LEMMA SlotTaken ==
    ASSUME NEW T, Sound(T), NEW key \in ProbeKeys, entry_count # T,
           NEW h, h = Probe(key, StepTo(key, Free)),
           hash_entry_arr' = [hash_entry_arr EXCEPT ![h] = Used(key)],
           entry_count' = entry_count + 1,
           nonempty_entry_count' =
              nonempty_entry_count + (IF hash_entry_arr[h].flag = "ENTRY_EMPTY" THEN 1 ELSE 0)
    PROVE  /\ Sound(T)' /\ (Exact => Exact')
           /\ h \in 0 .. T - 1 /\ h \notin Slots({"ENTRY_USED"})
           /\ Slots({"ENTRY_USED"})' = Slots({"ENTRY_USED"}) \cup {h}
           /\ hash_entry_arr'[h] = Used(key)
           /\ \A s \in 0 .. T - 1 : s # h => hash_entry_arr'[s] = hash_entry_arr[s]
<1> DEFINE U  == Slots({"ENTRY_USED"})
           NE == NonEmpty
<1> PICK n : n = StepTo(key, Free)
  OBVIOUS
<1>1. Table(T) /\ T \in Nat \ {0} /\ DOMAIN hash_entry_arr = 0 .. T - 1
  BY DEF Sound, Table
<1>2. /\ n \in 0 .. T - 1
      /\ h \in Slots({"ENTRY_EMPTY", "ENTRY_DELETED"})
      /\ \A m \in 0 .. n - 1 : Probe(key, m) \in U
  BY <1>1, WalkFindsRoom DEF Sound
<1>3. /\ IsFiniteSet(U) /\ Cardinality(U) \in Nat
      /\ IsFiniteSet(NE) /\ Cardinality(NE) \in Nat
      /\ table_size = T
      /\ \A k \in ProbeKeys : \A m \in Nat : Probe(k, m) \in 0 .. T - 1
  BY <1>1, TableFacts DEF NonEmpty
<1>4. h \in 0 .. T - 1 /\ h \notin U /\ (h \in NE <=> hash_entry_arr[h].flag # "ENTRY_EMPTY")
  BY <1>1, <1>2 DEF Slots, NonEmpty
<1>5. /\ Table(T)' /\ table_size' = T
      /\ hash_entry_arr'[h] = Used(key)
      /\ \A s \in 0 .. T - 1 : s # h => hash_entry_arr'[s] = hash_entry_arr[s]
      /\ U' = U \cup {h} /\ NE' = NE \cup {h}
  <2> PICK slot : slot = Used(key)
    OBVIOUS
  <2>1. slot.flag = "ENTRY_USED" /\ slot.key \in ProbeKeys
    BY DEF Used
  <2>2. Writes(h, slot)
    BY DEF Writes
  <2>3. /\ Table(T)' /\ table_size' = T
        /\ hash_entry_arr'[h] = slot
        /\ \A s \in 0 .. T - 1 : s # h => hash_entry_arr'[s] = hash_entry_arr[s]
        /\ \A s : s \in Slots({"ENTRY_USED"})'
                    <=> IF s = h THEN slot.flag = "ENTRY_USED" ELSE s \in Slots({"ENTRY_USED"})
        /\ \A s : s \in NonEmpty' <=> IF s = h THEN slot.flag # "ENTRY_EMPTY" ELSE s \in NonEmpty
    <3>1. slot.flag \in {"ENTRY_EMPTY", "ENTRY_DELETED", "ENTRY_USED"}
      BY <2>1
    <3>2. slot.flag = "ENTRY_USED" => slot.key \in ProbeKeys
      BY <2>1
    <3> QED BY <1>1, <1>4, <2>2, <3>1, <3>2, SlotWritten
  <2> QED BY <2>1, <2>3
<1>6. entry_count' = Cardinality(U')
  BY <1>3, <1>4, <1>5, FS_AddElement DEF Sound
<1>7. Cardinality(NE') = Cardinality(NE) + (IF hash_entry_arr[h].flag = "ENTRY_EMPTY" THEN 1 ELSE 0)
  <2>1. Cardinality(NE') = IF h \in NE THEN Cardinality(NE) ELSE Cardinality(NE) + 1
    BY <1>3, <1>5, FS_AddElement
  <2> QED BY <1>3, <1>4, <2>1
<1>8. /\ nonempty_entry_count' \in Nat /\ nonempty_entry_count' >= Cardinality(NE')
      /\ nonempty_entry_count' = Cardinality(NE') => nonempty_entry_count = Cardinality(NE)
  BY <1>3, <1>7 DEF Sound
<1>9. ASSUME nonempty_entry_count' = Cardinality(NE'), NEW s \in U' PROVE Reached(s)'
  <2>1. CASE s = h
    <3>1. hash_entry_arr'[s].key = key
      BY <1>5, <2>1 DEF Used
    <3>2. \A m : Probe(key, m)' = Probe(key, m)
      BY <1>3, <1>5 DEF Probe
    <3>3. Probe(hash_entry_arr[s].key, n)' = s
      <4>1. Probe(hash_entry_arr[s].key, n)' = (ProbeHash[hash_entry_arr'[s].key] + n) % T
        BY <1>5 DEF Probe
      <4>2. h = (ProbeHash[key] + n) % T
        BY <1>3 DEF Probe
      <4> QED BY <2>1, <3>1, <4>1, <4>2
    <3>4. ASSUME NEW m \in 0 .. n - 1
          PROVE  hash_entry_arr'[(ProbeHash[key] + m) % T].flag # "ENTRY_EMPTY"
      <4>1. Probe(key, m) \in U /\ Probe(key, m) # h
        BY <1>2, <1>4
      <4>2. (ProbeHash[key] + m) % T = Probe(key, m)
        BY <1>3 DEF Probe
      <4> QED BY <1>1, <1>5, <4>1, <4>2 DEF Slots
    <3> QED BY <1>2, <1>5, <3>1, <3>3, <3>4 DEF Reached, Empty, Probe
  <2>2. CASE s # h
    <3>1. s \in U /\ s \in 0 .. T - 1 /\ Reached(s)
      BY <1>1, <1>5, <1>8, <1>9, <2>2 DEF Sound, Slots
    <3>2. hash_entry_arr'[s].key = hash_entry_arr[s].key /\ hash_entry_arr[s].key \in ProbeKeys
      BY <1>1, <1>5, <2>2, <3>1 DEF Slots, Table
    <3>3. \A x \in 0 .. T - 1 : ~Empty(hash_entry_arr[x]) => ~Empty(hash_entry_arr'[x])
      BY <1>5 DEF Empty, Used
    <3> HIDE DEF U, NE
    <3> QED BY <1>1, <1>3, <1>5, <3>1, <3>2, <3>3, ReachedKept
  <2> QED BY <2>1, <2>2
<1>10. Sound(T)'
  BY <1>5, <1>6, <1>8, <1>9 DEF Sound
<1>11. Exact => Exact'
  BY <1>3, <1>7 DEF Exact
<1> QED BY <1>4, <1>5, <1>10, <1>11

\* A deletion makes the slot a tombstone: no walk gets shorter.
LEMMA SlotTombstoned ==
    ASSUME NEW T, Sound(T), NEW h \in Slots({"ENTRY_USED"}),
           hash_entry_arr' = [hash_entry_arr EXCEPT ![h] = Tombstoned],
           entry_count' = entry_count - 1,
           nonempty_entry_count' = nonempty_entry_count
    PROVE  /\ Sound(T)' /\ (Exact => Exact')
           /\ Slots({"ENTRY_USED"})' = Slots({"ENTRY_USED"}) \ {h}
           /\ \A s \in 0 .. T - 1 : s # h => hash_entry_arr'[s] = hash_entry_arr[s]
<1> DEFINE U  == Slots({"ENTRY_USED"})
           NE == NonEmpty
<1>1. /\ Table(T) /\ T \in Nat \ {0} /\ DOMAIN hash_entry_arr = 0 .. T - 1
      /\ h \in 0 .. T - 1 /\ h \in NE
  BY DEF Sound, Table, Slots, NonEmpty
<1>2. /\ IsFiniteSet(U) /\ Cardinality(U) \in Nat
      /\ table_size = T
      /\ \A k \in ProbeKeys : \A m \in Nat : Probe(k, m) \in 0 .. T - 1
  BY <1>1, TableFacts
<1>3. /\ Table(T)' /\ table_size' = T
      /\ hash_entry_arr'[h] = Tombstoned
      /\ \A s \in 0 .. T - 1 : s # h => hash_entry_arr'[s] = hash_entry_arr[s]
      /\ U' = U \ {h} /\ NE' = NE
  <2> PICK slot : slot = Tombstoned
    OBVIOUS
  <2>1. slot.flag = "ENTRY_DELETED"
    BY DEF Tombstoned, Unused
  <2>2. Writes(h, slot)
    BY DEF Writes
  <2>3. NonEmpty \cup {h} = NonEmpty
    BY <1>1
  <2>4. /\ Table(T)' /\ table_size' = T
        /\ hash_entry_arr'[h] = slot
        /\ \A s \in 0 .. T - 1 : s # h => hash_entry_arr'[s] = hash_entry_arr[s]
        /\ \A s : s \in Slots({"ENTRY_USED"})'
                    <=> IF s = h THEN slot.flag = "ENTRY_USED" ELSE s \in Slots({"ENTRY_USED"})
        /\ \A s : s \in NonEmpty' <=> IF s = h THEN slot.flag # "ENTRY_EMPTY" ELSE s \in NonEmpty
    <3>1. slot.flag \in {"ENTRY_EMPTY", "ENTRY_DELETED", "ENTRY_USED"}
      BY <2>1
    <3>2. slot.flag = "ENTRY_USED" => slot.key \in ProbeKeys
      BY <2>1
    <3> QED BY <1>1, <2>2, <3>1, <3>2, SlotWritten
  <2> QED BY <2>1, <2>3, <2>4
<1>4. entry_count' = Cardinality(U')
  BY <1>2, <1>3, FS_RemoveElement DEF Sound
<1>5. ASSUME nonempty_entry_count' = Cardinality(NE'), NEW s \in U' PROVE Reached(s)'
  <2>1. s \in U /\ s # h /\ s \in 0 .. T - 1 /\ Reached(s)
    BY <1>1, <1>3, <1>5 DEF Sound, Slots
  <2>2. hash_entry_arr'[s].key = hash_entry_arr[s].key /\ hash_entry_arr[s].key \in ProbeKeys
    BY <1>1, <1>3, <2>1 DEF Slots, Table
  <2>3. \A x \in 0 .. T - 1 : ~Empty(hash_entry_arr[x]) => ~Empty(hash_entry_arr'[x])
    BY <1>3 DEF Empty, Tombstoned, Unused
  <2> HIDE DEF U, NE
  <2> QED BY <1>1, <1>2, <1>3, <2>1, <2>2, <2>3, ReachedKept
<1>6. Sound(T)'
  BY <1>3, <1>4, <1>5 DEF Sound
<1>7. Exact => Exact'
  BY <1>3 DEF Exact
<1> QED BY <1>3, <1>6, <1>7

\* A malloc that fails leaves the slot empty, and only then a walk may be cut.
LEMMA SlotLeftEmpty ==
    ASSUME NEW T, Sound(T), NEW h \in Slots({"ENTRY_EMPTY", "ENTRY_DELETED"}),
           hash_entry_arr' = [hash_entry_arr EXCEPT ![h] = Unused("ENTRY_EMPTY")],
           UNCHANGED <<entry_count, nonempty_entry_count>>
    PROVE  Sound(T)'
<1> DEFINE U  == Slots({"ENTRY_USED"})
           NE == NonEmpty
<1>1. /\ Table(T) /\ T \in Nat \ {0} /\ DOMAIN hash_entry_arr = 0 .. T - 1
      /\ h \in 0 .. T - 1 /\ h \notin U
      /\ h \in NE <=> hash_entry_arr[h].flag # "ENTRY_EMPTY"
  BY DEF Sound, Table, Slots, NonEmpty
<1>2. /\ IsFiniteSet(NE) /\ Cardinality(NE) \in Nat
      /\ table_size = T
      /\ \A k \in ProbeKeys : \A m \in Nat : Probe(k, m) \in 0 .. T - 1
  BY <1>1, TableFacts DEF NonEmpty
<1>3. /\ Table(T)' /\ table_size' = T
      /\ \A s \in 0 .. T - 1 : s # h => hash_entry_arr'[s] = hash_entry_arr[s]
      /\ U' = U /\ NE' = NE \ {h}
  <2> PICK slot : slot = Unused("ENTRY_EMPTY")
    OBVIOUS
  <2>1. slot.flag = "ENTRY_EMPTY"
    BY DEF Unused
  <2>2. Writes(h, slot)
    BY DEF Writes
  <2>3. Slots({"ENTRY_USED"}) \ {h} = Slots({"ENTRY_USED"})
    BY <1>1
  <2>4. /\ Table(T)' /\ table_size' = T
        /\ hash_entry_arr'[h] = slot
        /\ \A s \in 0 .. T - 1 : s # h => hash_entry_arr'[s] = hash_entry_arr[s]
        /\ \A s : s \in Slots({"ENTRY_USED"})'
                    <=> IF s = h THEN slot.flag = "ENTRY_USED" ELSE s \in Slots({"ENTRY_USED"})
        /\ \A s : s \in NonEmpty' <=> IF s = h THEN slot.flag # "ENTRY_EMPTY" ELSE s \in NonEmpty
    <3>1. slot.flag \in {"ENTRY_EMPTY", "ENTRY_DELETED", "ENTRY_USED"}
      BY <2>1
    <3>2. slot.flag = "ENTRY_USED" => slot.key \in ProbeKeys
      BY <2>1
    <3> QED BY <1>1, <2>2, <3>1, <3>2, SlotWritten
  <2> QED BY <2>1, <2>3, <2>4
<1>4. Cardinality(NE') = IF h \in NE THEN Cardinality(NE) - 1 ELSE Cardinality(NE)
  BY <1>2, <1>3, FS_RemoveElement
<1>5. /\ nonempty_entry_count' >= Cardinality(NE')
      /\ nonempty_entry_count' = Cardinality(NE') =>
            h \notin NE /\ nonempty_entry_count = Cardinality(NE)
  BY <1>2, <1>4 DEF Sound
<1>6. ASSUME nonempty_entry_count' = Cardinality(NE'), NEW s \in U' PROVE Reached(s)'
  <2>1. s \in U /\ s # h /\ s \in 0 .. T - 1 /\ Reached(s)
    BY <1>1, <1>3, <1>5, <1>6 DEF Sound, Slots
  <2>2. hash_entry_arr'[s].key = hash_entry_arr[s].key /\ hash_entry_arr[s].key \in ProbeKeys
    BY <1>1, <1>3, <2>1 DEF Slots, Table
  <2>3. \A x \in 0 .. T - 1 : ~Empty(hash_entry_arr[x]) => ~Empty(hash_entry_arr'[x])
    BY <1>1, <1>3, <1>5, <1>6 DEF Empty
  <2> HIDE DEF U, NE
  <2> QED BY <1>1, <1>2, <1>3, <2>1, <2>2, <2>3, ReachedKept
<1> QED BY <1>3, <1>5, <1>6 DEF Sound

\* insert_entry keeps the invariant.
LEMMA InsertProbe ==
    ASSUME ProbeIInv, NEW key \in ProbeKeys, NEW ok \in BOOLEAN, insert_entry(key, ok)
    PROVE  ProbeIInv'
<1> DEFINE h == Probe(key, StepTo(key, Free))
<1>1. PICK T : Sound(T)
  BY SoundInv DEF insert_entry
<1>2. table_size = T
  BY <1>1, TableFacts DEF Sound
<1>3. CASE \E ret : Unchanged(ret)
  BY <1>3, SameTable DEF Unchanged
<1>4. CASE /\ entry_count # T
           /\ hash_entry_arr' = [hash_entry_arr EXCEPT ![h] = Unused("ENTRY_EMPTY")]
           /\ UNCHANGED <<entry_count, nonempty_entry_count>>
  <2>1. h \in Slots({"ENTRY_EMPTY", "ENTRY_DELETED"})
    BY <1>1, <1>4, WalkFindsRoom DEF Sound
  <2> HIDE DEF h
  <2>2. Sound(T)'
    BY <1>1, <1>4, <2>1, SlotLeftEmpty
  <2> QED BY <2>2, SoundNext
<1>5. CASE /\ entry_count # T
           /\ hash_entry_arr' = [hash_entry_arr EXCEPT ![h] = Used(key)]
           /\ entry_count' = entry_count + 1
           /\ nonempty_entry_count' = nonempty_entry_count
                + (IF hash_entry_arr[h].flag = "ENTRY_EMPTY" THEN 1 ELSE 0)
  <2>1. Sound(T)'
    BY <1>1, <1>5, SlotTaken
  <2> QED BY <2>1, SoundNext
<1> QED BY <1>2, <1>3, <1>4, <1>5 DEF insert_entry

\* delete_entry keeps the invariant.
LEMMA DeleteProbe ==
    ASSUME ProbeIInv, NEW key \in ProbeKeys, delete_entry(key)
    PROVE  ProbeIInv'
<1>1. CASE \E ret : Unchanged(ret)
  BY <1>1, SameTable DEF Unchanged
<1>2. CASE ~\E ret : Unchanged(ret)
  <2>1. PICK T : Sound(T)
    BY SoundInv DEF delete_entry
  <2>2. /\ ~(Search(key) < 0)
        /\ hash_entry_arr' = [hash_entry_arr EXCEPT ![Search(key)] = Tombstoned]
        /\ entry_count' = entry_count - 1
        /\ nonempty_entry_count' = nonempty_entry_count
    BY <1>2 DEF delete_entry
  <2>3. Search(key) \in Slots({"ENTRY_USED"})
    BY <2>1, <2>2, FoundHolds DEF Sound
  <2>4. Sound(T)'
    BY <2>1, <2>2, <2>3, SlotTombstoned
  <2> QED BY <2>4, SoundNext
<1> QED BY <1>1, <1>2

\* Every operation keeps the invariant.
LEMMA ProbeStep == ProbeIInv /\ [ProbeNext]_probeVars => ProbeIInv'
<1> SUFFICES ASSUME ProbeIInv, [ProbeNext]_probeVars PROVE ProbeIInv'
  OBVIOUS
<1>1. CASE UNCHANGED probeVars
  BY <1>1, SameTable DEF probeVars
<1>2. CASE DestroyHashTableObject
  BY <1>2 DEF DestroyHashTableObject, ProbeIInv, ProbeType, NoTable
<1>3. ASSUME NEW key \in ProbeKeys, search_key(key) PROVE ProbeIInv'
  BY <1>3, SameTable DEF search_key, Unchanged
<1> QED BY <1>1, <1>2, <1>3, InitProbe, InsertProbe, DeleteProbe DEF ProbeNext

-----------------------------------------------------------------------------
(* The inductive invariant itself: the counts of the table are those of its  *)
(* slots or, for the slots that are not empty, at least those, and while     *)
(* that count is exact no walk is cut short of a used slot                   *)
(* (legacy/hash_table_open_addr_lib.c 63-88, 134-153).                       *)
THEOREM ProbeInvariant == ProbeSpec => []ProbeIInv
<1>1. ProbeInit => ProbeIInv
  BY DEF ProbeInit, ProbeIInv, ProbeType, NoTable
<1> QED BY <1>1, ProbeStep, PTL DEF ProbeSpec

(* Whatever was inserted and deleted in whatever order, every key in use is  *)
(* found, as long as no malloc has failed in a deleted slot, which is when   *)
(* the count of slots that are not empty is too high                         *)
(* (legacy/hash_table_open_addr_lib.c 63-88, 104-116, 134-153).              *)
THEOREM KeysInUseAreFound == ProbeSpec => []UsedKeysAreFound
<1>2. ProbeIInv => UsedKeysAreFound
  <2> SUFFICES ASSUME ProbeIInv, ~NoTable
               PROVE  /\ entry_count = Cardinality(Slots({"ENTRY_USED"}))
                      /\ nonempty_entry_count >= Cardinality(NonEmpty)
                      /\ nonempty_entry_count = Cardinality(NonEmpty) =>
                           \A s \in Slots({"ENTRY_USED"}) : Search(hash_entry_arr[s].key) >= 0
    BY DEF UsedKeysAreFound
  <2>1. PICK T : Sound(T)
    BY SoundInv
  <2> QED BY <2>1, ReachedFound DEF Sound
<1> QED BY <1>2, ProbeInvariant, PTL

-----------------------------------------------------------------------------
(* What insert_entry and delete_entry do to the slots in use, for the engine. *)

\* A key that fits into a table with room takes a slot that was not in use.
LEMMA KeyInserted ==
    ASSUME NEW T, Sound(T), Exact, NEW key \in ProbeKeys \ LongKeys, entry_count < T,
           insert_entry(key, TRUE)
    PROVE  /\ Sound(T)' /\ Exact' /\ entry_count' = entry_count + 1
           /\ answer' \in 0 .. T - 1 /\ answer' \notin Slots({"ENTRY_USED"})
           /\ Slots({"ENTRY_USED"})' = Slots({"ENTRY_USED"}) \cup {answer'}
           /\ hash_entry_arr'[answer'] = Used(key)
           /\ \A s \in 0 .. T - 1 : s # answer' => hash_entry_arr'[s] = hash_entry_arr[s]
<1> DEFINE h == Probe(key, StepTo(key, Free))
<1>1. table_size = T /\ entry_count # T
  <2>1. Cardinality(Slots({"ENTRY_USED"})) \in Nat /\ T \in Nat /\ table_size = T
    BY TableFacts DEF Sound, Table
  <2> QED BY <2>1 DEF Sound
<1>2. /\ answer' = h
      /\ hash_entry_arr' = [hash_entry_arr EXCEPT ![h] = Used(key)]
      /\ entry_count' = entry_count + 1
      /\ nonempty_entry_count' =
           nonempty_entry_count + (IF hash_entry_arr[h].flag = "ENTRY_EMPTY" THEN 1 ELSE 0)
  BY <1>1 DEF insert_entry
<1>3. /\ Sound(T)' /\ (Exact => Exact')
      /\ h \in 0 .. T - 1 /\ h \notin Slots({"ENTRY_USED"})
      /\ Slots({"ENTRY_USED"})' = Slots({"ENTRY_USED"}) \cup {h}
      /\ hash_entry_arr'[h] = Used(key)
      /\ \A s \in 0 .. T - 1 : s # h => hash_entry_arr'[s] = hash_entry_arr[s]
  BY <1>1, <1>2, SlotTaken
<1> HIDE DEF h
<1> QED BY <1>2, <1>3

\* The table and its counts are as they were.
TableKept == UNCHANGED <<hash_entry_arr, entry_count, nonempty_entry_count>>

\* A deletion frees one slot of the key, or finds none and changes nothing.
LEMMA KeyDeleted ==
    ASSUME NEW T, Sound(T), Exact, NEW key \in ProbeKeys, delete_entry(key)
    PROVE  \/ TableKept /\ answer' \in {-1, -2}
           \/ /\ Sound(T)' /\ Exact' /\ entry_count' = entry_count - 1
              /\ answer' = 0
              /\ \E h \in Slots({"ENTRY_USED"}) :
                    /\ hash_entry_arr[h].key = key
                    /\ Slots({"ENTRY_USED"})' = Slots({"ENTRY_USED"}) \ {h}
                    /\ \A s \in 0 .. T - 1 : s # h => hash_entry_arr'[s] = hash_entry_arr[s]
<1>1. CASE Unchanged(-1) \/ Unchanged(-2)
  BY <1>1 DEF Unchanged, TableKept
<1>2. CASE ~(Unchanged(-1) \/ Unchanged(-2))
  <2> PICK h : h = Search(key)
    OBVIOUS
  <2>1. /\ ~(h < 0)
        /\ hash_entry_arr' = [hash_entry_arr EXCEPT ![h] = Tombstoned]
        /\ entry_count' = entry_count - 1
        /\ nonempty_entry_count' = nonempty_entry_count
        /\ answer' = 0
    BY <1>2 DEF delete_entry
  <2>2. h \in Slots({"ENTRY_USED"}) /\ hash_entry_arr[h].key = key
    BY <2>1, FoundHolds DEF Sound
  <2>3. /\ Sound(T)' /\ (Exact => Exact')
        /\ Slots({"ENTRY_USED"})' = Slots({"ENTRY_USED"}) \ {h}
        /\ \A s \in 0 .. T - 1 : s # h => hash_entry_arr'[s] = hash_entry_arr[s]
    BY <2>1, <2>2, SlotTombstoned
  <2> QED BY <2>1, <2>2, <2>3
<1> QED BY <1>1, <1>2

\* A table that is kept is kept whole.
LEMMA KeptTable ==
    ASSUME NEW T, Sound(T), Exact, TableKept
    PROVE  /\ Sound(T)' /\ Exact' /\ entry_count' = entry_count
           /\ Slots({"ENTRY_USED"})' = Slots({"ENTRY_USED"})
           /\ hash_entry_arr' = hash_entry_arr
BY DEF TableKept, Sound, Table, Exact, NoTable, Slots, NonEmpty, Reached, Probe, table_size, Empty

-----------------------------------------------------------------------------
(* The file. *)

\* Something of the file that ends before a write stays, and what is written is there.
LEMMA WriteKeeps ==
    ASSUME NEW f, NEW o, NEW cell, NEW p \in DOMAIN f, p + SizeOf(f[p]) <= o, p # o
    PROVE  p \in DOMAIN Write(f, o, cell) /\ Write(f, o, cell)[p] = f[p]
BY DEF Write

LEMMA WritePuts ==
    ASSUME NEW f, NEW o, NEW cell
    PROVE  o \in DOMAIN Write(f, o, cell) /\ Write(f, o, cell)[o] = cell
BY DEF Write

Cells == [kind : {"record"}, key : Key \ LongKeys, val : Val]

\* The size of a record is what GetDataEntrySize counts, and never 0.
LEMMA CellSize ==
    ASSUME NEW cell \in Cells
    PROVE  /\ SizeOf(cell) \in Nat \ {0}
           /\ SizeOf(cell) = GetDataEntrySize(cell.key, cell.val)
<1>1. SizeOf(cell) = DATA_ENTRY_HEADER_SIZE + KeyLen[cell.key] + ValLen[cell.val]
  BY DEF SizeOf, Cells
<1>2. /\ DATA_ENTRY_HEADER_SIZE \in Nat \ {0}
      /\ KeyLen[cell.key] \in Nat /\ ValLen[cell.val] \in Nat
  BY V31Assumption DEF Cells
<1> QED BY <1>1, <1>2 DEF GetDataEntrySize

LEMMA NewCell ==
    ASSUME NEW key \in Key \ LongKeys, NEW val \in Val
    PROVE  /\ RecordCell(key, val) \in Cells
           /\ RecordCell(key, val).key = key /\ RecordCell(key, val).val = val
BY DEF RecordCell, Cells

-----------------------------------------------------------------------------
(* The invariant of the engine: what its three structures say of each other. *)

IndexEntries == [Flags : {"none", "valid", "deleted"}, Offset : Nat]

OffsetOf(n) == disk.idx[n].Offset

\* Where the next record goes: behind the last one.
EndOfRecords(max) ==
    IF Len(recs) = 0 THEN DataSectionOffset(max)
    ELSE OffsetOf(Len(recs) - 1) + SizeOf(recs[Len(recs)])

\* Entry n points at its record, which lies right behind the one before it.
Laid(n, max) ==
    /\ OffsetOf(n) \in DOMAIN disk.data /\ disk.data[OffsetOf(n)] = recs[n + 1]
    /\ n = 0 => OffsetOf(n) = DataSectionOffset(max)
    /\ n # 0 => OffsetOf(n) = OffsetOf(n - 1) + SizeOf(recs[n])
    /\ \A m \in 0 .. n - 1 : OffsetOf(m) + SizeOf(recs[m + 1]) <= OffsetOf(n)

\* The file of max entries holds the records that were inserted, one behind the other.
FileInv(max) ==
    /\ max \in Nat \ {0}
    /\ disk = [hdr |-> disk.hdr, idx |-> disk.idx, data |-> disk.data]
    /\ disk.idx \in [0 .. max - 1 -> IndexEntries]
    /\ recs \in Seq(Cells) /\ Len(recs) <= max
    /\ \A n \in 0 .. Len(recs) - 1 : Laid(n, max)

\* Its header may be older than its records, but counts none that are not there.
HeaderInv(max) ==
    disk.hdr # NULL =>
       disk.hdr \in [EntryCount : 0 .. Len(recs), ValidEntryCount : Int, MaxEntryCount : {max}]

SessionType(count, max) ==
    [EntryCount : {count}, ValidEntryCount : Int, MaxEntryCount : {max},
     IndexTable : [0 .. max - 1 -> IndexEntries], key_arr : [0 .. max - 1 -> Key \cup {NULL}],
     EntryID_arr_htidx : [0 .. max - 1 -> Int], OffsetPtr : Nat, opened : BOOLEAN]

\* The session has every entry of the file, and the key of every one it did not delete.
SessionInv(max) ==
    /\ db \in SessionType(Len(recs), max)
    /\ ~db.opened => db.OffsetPtr = EndOfRecords(max)
    /\ \A n \in 0 .. Len(recs) - 1 : /\ db.IndexTable[n].Offset = OffsetOf(n)
                                     /\ db.key_arr[n] \in {recs[n + 1].key, NULL}
    /\ \A n \in Len(recs) .. max - 1 : db.key_arr[n] = NULL

\* While DBOpen reads the keys, none is deleted.
LoadingInv ==
    pc = "load" => /\ loaded \in 0 .. Len(recs)
                   /\ \A n \in 0 .. Len(recs) - 1 : db.key_arr[n] = recs[n + 1].key

DeletedBelow(K) == \E n \in 0 .. K - 1 : db.key_arr[n] = NULL

\* Slot s leads to an entry with its key, or is slot 0 and a deletion has cleared its map.
Leads(s, K) ==
    \/ /\ db.EntryID_arr_htidx[s] \in 0 .. K - 1
       /\ recs[db.EntryID_arr_htidx[s] + 1].key = hash_entry_arr[s].key
    \/ s = 0 /\ DeletedBelow(K)

\* The key of entry n is in the table, or one of its entries was deleted.
Listed(n, K) ==
    \/ \E s \in Slots({"ENTRY_USED"}) : hash_entry_arr[s].key = recs[n + 1].key
    \/ \E m \in 0 .. K - 1 : recs[m + 1].key = recs[n + 1].key /\ db.key_arr[m] = NULL

\* The hash table and its map agree with the first K entries.
TableInv(max, K) ==
    /\ Sound(max) /\ Exact /\ entry_count <= K
    /\ \A s \in Slots({"ENTRY_USED"}) : Leads(s, K)
    /\ \A n \in 0 .. K - 1 : Listed(n, K)

\* The entries whose keys are in the hash table by now.
Known == IF pc = "load" THEN loaded ELSE Len(recs)

InSession(max) ==
    FileInv(max) /\ HeaderInv(max) /\ SessionInv(max) /\ LoadingInv /\ TableInv(max, Known)

(* Header, index table, records, session and hash table agree, until an opened *)
(* database with entries gets another one: the inductive invariant behind      *)
(* RecordsKeptUntilAppended and LookupFindsAnEntry.                            *)
V31Inv ==
    /\ pc \in {"closed", "load", "open", "garbage"}
    /\ pc = "closed" /\ ~appended /\ disk.hdr # NULL => \E max : FileInv(max) /\ HeaderInv(max)
    /\ pc \in {"load", "open"} /\ ~appended => \E max : InSession(max)

-----------------------------------------------------------------------------
(* The steps of the engine. *)

\* A record that was laid ends before the next one goes.
LEMMA BelowEnd ==
    ASSUME NEW max, FileInv(max)
    PROVE  /\ EndOfRecords(max) \in Nat
           /\ \A n \in 0 .. Len(recs) - 1 :
                 /\ recs[n + 1] \in Cells /\ SizeOf(recs[n + 1]) \in Nat \ {0}
                 /\ OffsetOf(n) \in Nat
                 /\ OffsetOf(n) + SizeOf(recs[n + 1]) <= EndOfRecords(max)
<1> PICK L : L = Len(recs)
  OBVIOUS
<1>1. L \in Nat /\ L <= max /\ max \in Nat \ {0} /\ recs \in Seq(Cells)
  BY DEF FileInv
<1>2. ASSUME NEW n \in 0 .. L - 1
      PROVE  /\ recs[n + 1] \in Cells /\ SizeOf(recs[n + 1]) \in Nat \ {0}
             /\ OffsetOf(n) \in Nat
  <2>1. recs[n + 1] \in Cells
    BY <1>1, ElementOfSeq
  <2>2. SizeOf(recs[n + 1]) \in Nat \ {0}
    BY <2>1, CellSize
  <2>3. n \in 0 .. max - 1
    BY <1>1
  <2>4. disk.idx[n] \in IndexEntries
    BY <2>3 DEF FileInv
  <2> QED BY <2>1, <2>2, <2>4 DEF OffsetOf, IndexEntries
<1>3. DataSectionOffset(max) \in Nat
  <2>1. HEADER_SIZE \in Nat /\ INDEX_ENTRY_SIZE \in Nat
    BY V31Assumption
  <2> QED BY <1>1, <2>1 DEF DataSectionOffset
<1>4. ASSUME L # 0, NEW n \in 0 .. L - 1
      PROVE  /\ EndOfRecords(max) \in Nat
             /\ OffsetOf(n) + SizeOf(recs[n + 1]) <= EndOfRecords(max)
  <2>1. L - 1 \in 0 .. L - 1 /\ L - 1 + 1 = L
    BY <1>1, <1>4
  <2>2. OffsetOf(L - 1) \in Nat /\ SizeOf(recs[L]) \in Nat \ {0}
    BY <1>2, <2>1
  <2>3. EndOfRecords(max) = OffsetOf(L - 1) + SizeOf(recs[L])
    BY <1>4 DEF EndOfRecords
  <2>4. CASE n = L - 1
    BY <1>1, <2>2, <2>3, <2>4
  <2>5. CASE n # L - 1
    <3>1. n \in 0 .. L - 1 - 1
      BY <1>1, <2>5
    <3>2. OffsetOf(n) + SizeOf(recs[n + 1]) <= OffsetOf(L - 1)
      BY <2>1, <3>1 DEF FileInv, Laid
    <3>3. OffsetOf(n) \in Nat /\ SizeOf(recs[n + 1]) \in Nat
      BY <1>2
    <3> QED BY <2>2, <2>3, <3>2, <3>3
  <2> QED BY <2>4, <2>5
<1>5. EndOfRecords(max) \in Nat
  <2>1. CASE L = 0
    BY <1>3, <2>1 DEF EndOfRecords
  <2>2. CASE L # 0
    <3>1. 0 \in 0 .. L - 1
      BY <1>1, <2>2
    <3> QED BY <1>4, <2>2, <3>1
  <2> QED BY <2>1, <2>2
<1>6. ASSUME NEW n \in 0 .. L - 1 PROVE L # 0
  BY <1>1
<1> QED BY <1>2, <1>4, <1>5, <1>6

\* The key of the next entry is put into the table, and its slot mapped to the entry.
LEMMA TableGrows ==
    ASSUME NEW max \in Nat \ {0}, NEW K \in Nat, NEW key, NEW h \in 0 .. max - 1,
           TableInv(max, K), Sound(max)', Exact', entry_count' = entry_count + 1,
           h \notin Slots({"ENTRY_USED"}),
           Slots({"ENTRY_USED"})' = Slots({"ENTRY_USED"}) \cup {h},
           hash_entry_arr'[h] = Used(key),
           \A s \in 0 .. max - 1 : s # h => hash_entry_arr'[s] = hash_entry_arr[s],
           db'.EntryID_arr_htidx[h] = K,
           \A s \in 0 .. max - 1 : s # h => db'.EntryID_arr_htidx[s] = db.EntryID_arr_htidx[s],
           \A n \in 0 .. K - 1 : recs'[n + 1] = recs[n + 1] /\ db'.key_arr[n] = db.key_arr[n],
           recs'[K + 1].key = key
    PROVE  TableInv(max, K + 1)'
<1>1. /\ \A s \in Slots({"ENTRY_USED"}) : s \in 0 .. max - 1 /\ Leads(s, K)
      /\ entry_count \in Nat /\ entry_count <= K
      /\ \A n \in 0 .. K - 1 : Listed(n, K)
  <2>1. Table(max) /\ entry_count = Cardinality(Slots({"ENTRY_USED"}))
    BY DEF TableInv, Sound
  <2>2. Cardinality(Slots({"ENTRY_USED"})) \in Nat
    BY <2>1, TableFacts
  <2>3. \A s \in Slots({"ENTRY_USED"}) : s \in 0 .. max - 1
    BY <2>1 DEF Slots, Table
  <2> QED BY <2>1, <2>2, <2>3 DEF TableInv
<1>2. hash_entry_arr'[h].key = key
  BY DEF Used
<1>3. DeletedBelow(K) => DeletedBelow(K + 1)'
  BY DEF DeletedBelow
<1>4. ASSUME NEW s \in Slots({"ENTRY_USED"})' PROVE Leads(s, K + 1)'
  <2>1. CASE s = h
    <3>1. K \in 0 .. K + 1 - 1
      OBVIOUS
    <3> QED BY <1>2, <2>1, <3>1 DEF Leads
  <2>2. CASE s # h
    <3>1. s \in Slots({"ENTRY_USED"})
      BY <1>4, <2>2
    <3>2. /\ s \in 0 .. max - 1 /\ Leads(s, K)
          /\ hash_entry_arr'[s] = hash_entry_arr[s]
          /\ db'.EntryID_arr_htidx[s] = db.EntryID_arr_htidx[s]
      BY <1>1, <2>2, <3>1
    <3>3. CASE s = 0 /\ DeletedBelow(K)
      BY <1>3, <3>3 DEF Leads
    <3>4. CASE /\ db.EntryID_arr_htidx[s] \in 0 .. K - 1
               /\ recs[db.EntryID_arr_htidx[s] + 1].key = hash_entry_arr[s].key
      <4> PICK e : e = db.EntryID_arr_htidx[s]
        OBVIOUS
      <4>1. e \in 0 .. K + 1 - 1 /\ recs'[e + 1] = recs[e + 1]
        BY <3>4
      <4> QED BY <3>2, <3>4, <4>1 DEF Leads
    <3> QED BY <3>2, <3>3, <3>4 DEF Leads
  <2> QED BY <2>1, <2>2
<1>5. ASSUME NEW n \in 0 .. K + 1 - 1 PROVE Listed(n, K + 1)'
  <2>1. CASE n = K
    BY <1>2, <2>1 DEF Listed
  <2>2. CASE n # K
    <3>1. n \in 0 .. K - 1
      BY <2>2
    <3>2. Listed(n, K) /\ recs'[n + 1] = recs[n + 1]
      BY <1>1, <3>1
    <3>3. ASSUME NEW s \in Slots({"ENTRY_USED"}), hash_entry_arr[s].key = recs[n + 1].key
          PROVE  Listed(n, K + 1)'
      <4>1. s \in Slots({"ENTRY_USED"})' /\ hash_entry_arr'[s] = hash_entry_arr[s]
        BY <1>1
      <4> QED BY <3>2, <3>3, <4>1 DEF Listed
    <3>4. ASSUME NEW m \in 0 .. K - 1, recs[m + 1].key = recs[n + 1].key, db.key_arr[m] = NULL
          PROVE  Listed(n, K + 1)'
      <4>1. m \in 0 .. K + 1 - 1 /\ recs'[m + 1] = recs[m + 1] /\ db'.key_arr[m] = NULL
        BY <3>4
      <4> QED BY <3>2, <3>4, <4>1 DEF Listed
    <3> QED BY <3>2, <3>3, <3>4 DEF Listed
  <2> QED BY <2>1, <2>2
<1> QED BY <1>1, <1>4, <1>5 DEF TableInv

\* The table, its map and the first K entries are as they were.
LEMMA TableStays ==
    ASSUME NEW max, NEW K, TableInv(max, K), Sound(max)', Exact', entry_count' <= K,
           Slots({"ENTRY_USED"})' = Slots({"ENTRY_USED"}), hash_entry_arr' = hash_entry_arr,
           recs' = recs, db'.key_arr = db.key_arr,
           db'.EntryID_arr_htidx = db.EntryID_arr_htidx
    PROVE  TableInv(max, K)'
BY DEF TableInv, Leads, Listed, DeletedBelow

\* An entry loses its key.  The table gives up a slot of that key, or had none, and
\* no slot but 0 is mapped elsewhere.
LEMMA TableShrinks ==
    ASSUME NEW max \in Nat \ {0}, NEW K \in Nat, NEW id \in 0 .. K - 1, NEW H,
           TableInv(max, K), Sound(max)', Exact', entry_count' <= K,
           Slots({"ENTRY_USED"})' = Slots({"ENTRY_USED"}) \ H,
           \A s \in H : hash_entry_arr[s].key = recs[id + 1].key,
           \A s \in Slots({"ENTRY_USED"})' : hash_entry_arr'[s] = hash_entry_arr[s],
           \A s \in 0 .. max - 1 : s # 0 => db'.EntryID_arr_htidx[s] = db.EntryID_arr_htidx[s],
           recs' = recs, db'.key_arr[id] = NULL,
           \A n \in 0 .. K - 1 : n # id => db'.key_arr[n] = db.key_arr[n]
    PROVE  TableInv(max, K)'
<1>1. \A s \in Slots({"ENTRY_USED"}) : s \in 0 .. max - 1 /\ Leads(s, K)
  <2>1. \A s \in Slots({"ENTRY_USED"}) : s \in 0 .. max - 1
    BY DEF TableInv, Sound, Table, Slots
  <2> QED BY <2>1 DEF TableInv
<1>2. DeletedBelow(K)'
  BY DEF DeletedBelow
<1>3. ASSUME NEW s \in Slots({"ENTRY_USED"})' PROVE Leads(s, K)'
  <2>1. s \in 0 .. max - 1 /\ Leads(s, K) /\ hash_entry_arr'[s] = hash_entry_arr[s]
    BY <1>1
  <2>2. CASE s = 0
    BY <1>2, <2>2 DEF Leads
  <2>3. CASE s # 0
    <3>1. db'.EntryID_arr_htidx[s] = db.EntryID_arr_htidx[s]
      BY <2>1, <2>3
    <3> QED BY <2>1, <2>3, <3>1 DEF Leads
  <2> QED BY <2>2, <2>3
<1>4. ASSUME NEW n \in 0 .. K - 1 PROVE Listed(n, K)'
  <2>1. CASE recs[n + 1].key = recs[id + 1].key
    BY <2>1 DEF Listed
  <2>2. CASE recs[n + 1].key # recs[id + 1].key
    <3>1. Listed(n, K)
      BY DEF TableInv
    <3>2. ASSUME NEW s \in Slots({"ENTRY_USED"}), hash_entry_arr[s].key = recs[n + 1].key
          PROVE  Listed(n, K)'
      <4>1. s \in Slots({"ENTRY_USED"})'
        BY <2>2, <3>2
      <4> QED BY <3>2, <4>1 DEF Listed
    <3>3. ASSUME NEW m \in 0 .. K - 1, recs[m + 1].key = recs[n + 1].key, db.key_arr[m] = NULL
          PROVE  Listed(n, K)'
      <4>1. m # id
        BY <2>2, <3>3
      <4> QED BY <3>3, <4>1 DEF Listed
    <3> QED BY <3>1, <3>2, <3>3 DEF Listed
  <2> QED BY <2>1, <2>2
<1> QED BY <1>3, <1>4 DEF TableInv

\* The file and its header are as they were.
LEMMA FileStays ==
    ASSUME NEW max, FileInv(max), disk' = [hdr |-> disk'.hdr, idx |-> disk.idx, data |-> disk.data],
           recs' = recs
    PROVE  FileInv(max)'
<1>1. disk'.idx = disk.idx /\ disk'.data = disk.data
  OBVIOUS
<1> QED BY <1>1 DEF FileInv, Laid, OffsetOf

\* A session on a database of count entries, and what it begins with.
LEMMA NewSession ==
    ASSUME NEW hdr, NEW count \in Nat, NEW max \in Nat \ {0}, NEW index, NEW keys,
           hdr.EntryCount = count, hdr.ValidEntryCount \in Int, hdr.MaxEntryCount = max,
           index \in [0 .. max - 1 -> IndexEntries],
           keys \in [0 .. max - 1 -> Key \cup {NULL}]
    PROVE  LET new == Session(hdr, index, keys)
           IN  /\ new \in SessionType(count, max)
               /\ new.IndexTable = index /\ new.key_arr = keys
               /\ new.OffsetPtr = DataSectionOffset(max)
               /\ ~new.opened => count = 0
<1> PICK new : new = Session(hdr, index, keys)
  OBVIOUS
<1> PICK opened \in BOOLEAN : opened = (count # 0)
  <2>1. (count # 0) \in BOOLEAN
    OBVIOUS
  <2> QED BY <2>1
<1> PICK none : none = [s \in 0 .. max - 1 |-> -1]
  OBVIOUS
<1>1. DataSectionOffset(max) \in Nat
  <2>1. HEADER_SIZE \in Nat /\ INDEX_ENTRY_SIZE \in Nat
    BY V31Assumption
  <2> QED BY <2>1 DEF DataSectionOffset
<1>2. ~opened => count = 0
  OBVIOUS
<1>3. none \in [0 .. max - 1 -> Int]
  OBVIOUS
<1>4. new = [EntryCount |-> count, ValidEntryCount |-> hdr.ValidEntryCount, MaxEntryCount |-> max,
             IndexTable |-> index, key_arr |-> keys, EntryID_arr_htidx |-> none,
             OffsetPtr |-> DataSectionOffset(max), opened |-> opened]
  BY DEF Session
<1>5. new \in SessionType(count, max)
  BY <1>1, <1>3, <1>4 DEF SessionType
<1> QED BY <1>2, <1>4, <1>5

\* DBInit begins with a file of which all parts agree.
LEMMA InitInSession ==
    ASSUME NEW max \in MaxCounts, DBInit(max)
    PROVE  InSession(max)'
<1>0. max \in Nat \ {0}
  BY V31Assumption
<1> PICK none : none = [n \in 0 .. max - 1 |-> Unwritten]
  OBVIOUS
<1> PICK keys : keys = [n \in 0 .. max - 1 |-> NULL]
  OBVIOUS
<1>1. /\ disk' = [hdr |-> NULL, idx |-> none, data |-> EmptyFile]
      /\ db' = Session(HeaderOf(0, 0, max), none, keys)
      /\ pc' = "open"
      /\ recs' = <<>>
  BY DEF DBInit
<1>2. none \in [0 .. max - 1 -> IndexEntries] /\ keys \in [0 .. max - 1 -> Key \cup {NULL}]
  BY DEF Unwritten, IndexEntries
<1>3. Len(recs') = 0 /\ recs' \in Seq(Cells)
  BY <1>1
<1>4. FileInv(max)'
  BY <1>0, <1>1, <1>2, <1>3 DEF FileInv
<1>5. HeaderInv(max)'
  BY <1>1 DEF HeaderInv
<1>6. EndOfRecords(max)' = DataSectionOffset(max) /\ DataSectionOffset(max) \in Nat
  <2>1. HEADER_SIZE \in Nat /\ INDEX_ENTRY_SIZE \in Nat
    BY V31Assumption
  <2> QED BY <1>0, <1>3, <2>1 DEF EndOfRecords, DataSectionOffset
<1>7. SessionInv(max)'
  <2> PICK hdr : hdr = HeaderOf(0, 0, max)
    OBVIOUS
  <2>1. hdr.EntryCount = 0 /\ hdr.ValidEntryCount \in Int /\ hdr.MaxEntryCount = max
    BY DEF HeaderOf
  <2>2. /\ db' \in SessionType(0, max)
        /\ db'.IndexTable = none /\ db'.key_arr = keys
        /\ db'.OffsetPtr = DataSectionOffset(max)
    <3>1. db' = Session(hdr, none, keys)
      BY <1>1
    <3>2. LET new == Session(hdr, none, keys)
          IN  /\ new \in SessionType(0, max)
              /\ new.IndexTable = none /\ new.key_arr = keys
              /\ new.OffsetPtr = DataSectionOffset(max)
      <4> HIDE <1>1
      <4> QED BY <1>0, <1>2, <2>1, NewSession
    <3> QED BY <3>1, <3>2
  <2>3. \A n \in 0 .. max - 1 : db'.key_arr[n] = NULL
    BY <2>2
  <2> QED BY <1>3, <1>6, <2>2, <2>3 DEF SessionInv
<1>8. TableInv(max, 0)'
  <2>1. Sound(max)' /\ Exact' /\ Slots({"ENTRY_USED"})' = {} /\ entry_count' = 0
    BY <1>0, FreshTable DEF DBInit, InitHashTableObject
  <2> QED BY <2>1 DEF TableInv
<1> QED BY <1>1, <1>3, <1>4, <1>5, <1>7, <1>8 DEF InSession, LoadingInv, Known

\* A set of numbers that holds 0, and n whenever it holds n - 1.
LEMMA ReachesAll ==
    ASSUME NEW L \in Nat, NEW B, 0 \in B, \A n \in 1 .. L : n - 1 \in B => n \in B
    PROVE  0 .. L \subseteq B
<1> PICK C : C = (0 .. L) \ B
  OBVIOUS
<1>1. SUFFICES ASSUME C # {} PROVE FALSE
  OBVIOUS
<1>2. C \subseteq Nat
  OBVIOUS
<1> PICK m : m = Min(C)
  OBVIOUS
<1>3. m \in C /\ \A x \in C : m <= x
  BY <1>1, <1>2, MinIsLeast
<1>4. m \in 1 .. L /\ m - 1 \in 0 .. L /\ ~(m <= m - 1)
  <2>1. m \in 0 .. L /\ m # 0
    BY <1>3
  <2> QED BY <2>1
<1>5. m - 1 \in B
  BY <1>3, <1>4
<1> QED BY <1>3, <1>4, <1>5

\* Where the walk of DBOpen comes from a place in the file.
Onward(data, at) == IF Holds(data, at, "record") THEN at + SizeOf(data[at]) ELSE at

WalksTo(f, L, base, data) ==
    f = [n \in 0 .. L |-> IF n = 0 THEN base ELSE Onward(data, f[n - 1])]

LEMMA WalkTurns ==
    ASSUME NEW L \in Nat, NEW base, NEW data, NEW f, WalksTo(f, L, base, data)
    PROVE  f[0] = base /\ \A n \in 1 .. L : f[n] = Onward(data, f[n - 1])
BY DEF WalksTo

\* There is one such walk.
LEMMA OneWalk ==
    ASSUME NEW L \in Nat, NEW base, NEW data, NEW f, NEW w,
           WalksTo(f, L, base, data), WalksTo(w, L, base, data)
    PROVE  \A n \in 0 .. L : f[n] = w[n]
<1>2. w[0] = base /\ \A n \in 1 .. L : w[n] = Onward(data, w[n - 1])
  BY WalkTurns
<1>3. f[0] = base /\ \A n \in 1 .. L : f[n] = Onward(data, f[n - 1])
  BY WalkTurns
<1> PICK B : B = {n \in 0 .. L : f[n] = w[n]}
  OBVIOUS
<1>4. 0 \in B
  BY <1>2, <1>3
<1>5. ASSUME NEW n \in 1 .. L, n - 1 \in B PROVE n \in B
  <2>1. f[n - 1] = w[n - 1]
    BY <1>5
  <2>2. f[n] = Onward(data, f[n - 1]) /\ w[n] = Onward(data, w[n - 1])
    BY <1>2, <1>3
  <2>3. f[n] = w[n]
    BY <2>1, <2>2
  <2> QED BY <2>3
<1>6. 0 .. L \subseteq B
  BY <1>4, <1>5, ReachesAll
<1> QED BY <1>6

\* The walk goes from record to record of the index table.
LEMMA WalkFinds ==
    ASSUME NEW max, FileInv(max), NEW L \in 0 .. Len(recs), NEW hdr,
           hdr.EntryCount = L, hdr.MaxEntryCount = max
    PROVE  \A n \in 0 .. L - 1 : Walk(disk.data, hdr)[n] = OffsetOf(n)
<1> PICK N : N = Len(recs)
  OBVIOUS
<1> PICK base : base = DataSectionOffset(max)
  OBVIOUS
<1> PICK data : data = disk.data
  OBVIOUS
<1>0. PICK w : w = [n \in 0 .. L |-> IF n < N THEN OffsetOf(n) ELSE EndOfRecords(max)]
  OBVIOUS
<1>1. N \in Nat /\ L \in 0 .. N
  BY DEF FileInv
<1>2. w[0] = base
  <2>1. CASE N = 0
    BY <1>0, <1>1, <2>1 DEF EndOfRecords
  <2>2. CASE N # 0
    <3>1. 0 \in 0 .. N - 1
      BY <1>1, <2>2
    <3>2. OffsetOf(0) = base
      BY <3>1 DEF FileInv, Laid
    <3> QED BY <1>0, <1>1, <3>1, <3>2
  <2> QED BY <2>1, <2>2
<1>3. ASSUME NEW n \in 1 .. L
      PROVE  w[n] = Onward(data, w[n - 1])
  <2>1. n - 1 \in 0 .. N - 1 /\ n - 1 \in 0 .. L /\ n - 1 + 1 = n /\ n \in 0 .. L
    BY <1>1
  <2>2. w[n - 1] = OffsetOf(n - 1)
    BY <1>0, <2>1
  <2>3. OffsetOf(n - 1) \in DOMAIN data /\ data[OffsetOf(n - 1)] = recs[n]
    BY <2>1 DEF FileInv, Laid
  <2>4. recs[n] \in Cells
    BY <2>1, BelowEnd
  <2>5. Onward(data, w[n - 1]) = OffsetOf(n - 1) + SizeOf(recs[n])
    BY <2>2, <2>3, <2>4 DEF Onward, Holds, Cells
  <2>6. CASE n < N
    <3>1. n \in 0 .. N - 1 /\ n # 0
      BY <1>1, <2>6
    <3>2. OffsetOf(n) = OffsetOf(n - 1) + SizeOf(recs[n])
      BY <3>1 DEF FileInv, Laid
    <3> QED BY <1>0, <2>1, <2>5, <2>6, <3>2
  <2>7. CASE ~(n < N)
    <3>1. n = N /\ N # 0
      BY <1>1, <2>7
    <3>2. EndOfRecords(max) = OffsetOf(n - 1) + SizeOf(recs[n])
      BY <3>1 DEF EndOfRecords
    <3> QED BY <1>0, <2>1, <2>5, <2>7, <3>2
  <2> QED BY <2>6, <2>7
<1>4. WalksTo(w, L, base, data)
  <2>1. ASSUME NEW n \in 0 .. L
        PROVE  w[n] = IF n = 0 THEN base ELSE Onward(data, w[n - 1])
    <3>1. n = 0 \/ n \in 1 .. L
      BY <1>1
    <3> QED BY <1>2, <1>3, <3>1
  <2>2. w = [n \in 0 .. L |-> w[n]]
    BY <1>0
  <2> QED BY <2>1, <2>2 DEF WalksTo
<1>5. PICK f : f = Walk(disk.data, hdr)
  OBVIOUS
<1>6. WalksTo(f, L, base, data)
  <2>1. f = CHOOSE g : WalksTo(g, L, base, data)
    BY <1>5 DEF Walk, WalksTo, Onward
  <2> QED BY <1>4, <2>1, Zenon
<1>7. \A n \in 0 .. L : f[n] = w[n]
  <2>1. L \in Nat
    BY <1>1
  <2> QED BY <1>4, <1>6, <2>1, OneWalk
<1>8. \A n \in 0 .. L - 1 : n \in 0 .. L /\ n < N
  BY <1>1
<1> QED BY <1>0, <1>5, <1>7, <1>8

\* DBOpen takes the header's entries and puts the key of each in key_arr; the table is
\* still empty.
LEMMA OpenInSession ==
    ASSUME NEW max, FileInv(max), HeaderInv(max), DBOpen
    PROVE  InSession(max)'
<1> PICK hdr : hdr = disk.hdr
  OBVIOUS
<1> PICK L : L = hdr.EntryCount
  OBVIOUS
<1> PICK N : N = Len(recs)
  OBVIOUS
<1>1. /\ hdr # NULL /\ L \in 0 .. N /\ hdr.ValidEntryCount \in Int /\ hdr.MaxEntryCount = max
      /\ N \in Nat /\ N <= max /\ max \in Nat \ {0} /\ recs \in Seq(Cells)
  BY DEF DBOpen, HeaderInv, FileInv
<1>2. PICK index : index = [n \in 0 .. max - 1 |-> IF n < L THEN disk.idx[n] ELSE Unwritten]
  OBVIOUS
<1>3. PICK keys : keys = [n \in 0 .. max - 1 |-> IF n < L
                            THEN disk.data[Walk(disk.data, hdr)[n]].key ELSE NULL]
  OBVIOUS
<1>4. /\ db' = Session(hdr, index, keys)
      /\ recs' = SubSeq(recs, 1, L)
      /\ pc' = "load" /\ loaded' = 0 /\ disk' = disk
      /\ InitHashTableObject(max)
  BY <1>1, <1>2, <1>3 DEF DBOpen
<1>5. /\ recs' \in Seq(Cells) /\ Len(recs') = L
      /\ \A n \in 0 .. L - 1 : recs'[n + 1] = recs[n + 1]
  <2>1. L \in Nat /\ 1 \in Nat /\ L <= Len(recs)
    BY <1>1
  <2>2. recs' \in Seq(Cells)
    BY <1>1, <1>4, <2>1
  <2>3. Len(recs') = L /\ \A m \in 1 .. L : recs'[m] = recs[m]
    BY <1>1, <1>4, <2>1
  <2> QED BY <1>1, <2>2, <2>3
<1>6. FileInv(max)'
  <2>1. ASSUME NEW n \in 0 .. L - 1 PROVE Laid(n, max)'
    <3>1. Laid(n, max)
      BY <1>1 DEF FileInv
    <3>2. /\ recs'[n + 1] = recs[n + 1]
          /\ n # 0 => recs'[n] = recs[n]
          /\ \A m \in 0 .. n - 1 : recs'[m + 1] = recs[m + 1]
      <4>1. n # 0 => n - 1 \in 0 .. L - 1 /\ n - 1 + 1 = n
        BY <1>1
      <4>2. \A m \in 0 .. n - 1 : m \in 0 .. L - 1
        BY <1>1
      <4> QED BY <1>5, <4>1, <4>2
    <3> QED BY <1>4, <3>1, <3>2 DEF Laid, OffsetOf
  <2> QED BY <1>1, <1>4, <1>5, <2>1 DEF FileInv
<1>7. HeaderInv(max)'
  BY <1>1, <1>4, <1>5 DEF HeaderInv
<1>8. \A n \in 0 .. L - 1 :
         n \in 0 .. max - 1 /\ index[n] = disk.idx[n] /\ keys[n] = recs[n + 1].key
  <2>1. ASSUME NEW n \in 0 .. L - 1
        PROVE  n \in 0 .. max - 1 /\ index[n] = disk.idx[n] /\ keys[n] = recs[n + 1].key
    <3>1. n \in 0 .. max - 1 /\ n < L /\ n \in 0 .. N - 1
      BY <1>1
    <3>2. Walk(disk.data, hdr)[n] = OffsetOf(n)
      BY <1>1, WalkFinds
    <3>3. disk.data[OffsetOf(n)] = recs[n + 1]
      BY <3>1 DEF FileInv, Laid
    <3> QED BY <1>2, <1>3, <3>1, <3>2, <3>3
  <2> QED BY <2>1
<1>9. index \in [0 .. max - 1 -> IndexEntries] /\ keys \in [0 .. max - 1 -> Key \cup {NULL}]
  <2>1. Unwritten \in IndexEntries
    BY DEF Unwritten, IndexEntries
  <2>2. ASSUME NEW n \in 0 .. max - 1
        PROVE  index[n] \in IndexEntries /\ keys[n] \in Key \cup {NULL}
    <3>1. CASE n < L
      <4>1. n \in 0 .. L - 1 /\ n \in 0 .. N - 1
        BY <1>1, <3>1
      <4>2. recs[n + 1] \in Cells /\ disk.idx[n] \in IndexEntries
        BY <4>1, BelowEnd DEF FileInv
      <4> QED BY <1>8, <4>1, <4>2 DEF Cells
    <3>2. CASE ~(n < L)
      BY <1>2, <1>3, <2>1, <3>2
    <3> QED BY <3>1, <3>2
  <2> QED BY <1>2, <1>3, <2>2
<1>10. /\ db' \in SessionType(L, max)
       /\ db'.IndexTable = index /\ db'.key_arr = keys
       /\ db'.OffsetPtr = DataSectionOffset(max)
       /\ ~db'.opened => L = 0
  <2> PICK ses : ses = Session(hdr, index, keys)
    OBVIOUS
  <2>1. L \in Nat
    BY <1>1
  <2>2. LET new == Session(hdr, index, keys)
        IN  /\ new \in SessionType(L, max)
            /\ new.IndexTable = index /\ new.key_arr = keys
            /\ new.OffsetPtr = DataSectionOffset(max)
            /\ ~new.opened => L = 0
    BY <1>1, <1>9, <2>1, NewSession
  <2> QED BY <1>4, <2>2
<1>11. SessionInv(max)'
  <2>1. L = 0 => EndOfRecords(max)' = DataSectionOffset(max)
    BY <1>5 DEF EndOfRecords
  <2>2. \A n \in 0 .. L - 1 : /\ db'.IndexTable[n].Offset = OffsetOf(n)'
                              /\ db'.key_arr[n] \in {recs'[n + 1].key, NULL}
    BY <1>4, <1>5, <1>8, <1>10 DEF OffsetOf
  <2>3. \A n \in L .. max - 1 : db'.key_arr[n] = NULL
    <3>1. ASSUME NEW n \in L .. max - 1 PROVE keys[n] = NULL
      <4>1. n \in 0 .. max - 1 /\ ~(n < L)
        BY <1>1
      <4> QED BY <1>3, <4>1
    <3> QED BY <1>10, <3>1
  <2> QED BY <1>5, <1>10, <2>1, <2>2, <2>3 DEF SessionInv
<1>12. LoadingInv'
  BY <1>1, <1>4, <1>5, <1>8, <1>10 DEF LoadingInv
<1>13. TableInv(max, 0)'
  <2>1. Sound(max)' /\ Exact' /\ Slots({"ENTRY_USED"})' = {} /\ entry_count' = 0
    BY <1>1, <1>4, FreshTable DEF InitHashTableObject
  <2> QED BY <2>1 DEF TableInv
<1> QED BY <1>4, <1>6, <1>7, <1>11, <1>12, <1>13 DEF InSession, Known

\* What a session has.
LEMMA SessionParts ==
    ASSUME NEW max, SessionInv(max)
    PROVE  /\ db.EntryCount = Len(recs) /\ db.MaxEntryCount = max
           /\ db.ValidEntryCount \in Int
           /\ db.IndexTable \in [0 .. max - 1 -> IndexEntries]
           /\ db.key_arr \in [0 .. max - 1 -> Key \cup {NULL}]
           /\ db.EntryID_arr_htidx \in [0 .. max - 1 -> Int]
           /\ db.OffsetPtr \in Nat /\ db.opened \in BOOLEAN
           /\ db = [EntryCount |-> db.EntryCount, ValidEntryCount |-> db.ValidEntryCount,
                    MaxEntryCount |-> db.MaxEntryCount, IndexTable |-> db.IndexTable,
                    key_arr |-> db.key_arr, EntryID_arr_htidx |-> db.EntryID_arr_htidx,
                    OffsetPtr |-> db.OffsetPtr, opened |-> db.opened]
BY DEF SessionInv, SessionType

\* The table has as many keys as entries are known, at most.
LEMMA EntryCountIs ==
    ASSUME NEW max, NEW K, TableInv(max, K)
    PROVE  entry_count \in Nat /\ entry_count <= K /\ Sound(max) /\ Exact
<1>1. Table(max) /\ entry_count = Cardinality(Slots({"ENTRY_USED"}))
  BY DEF TableInv, Sound
<1>2. Cardinality(Slots({"ENTRY_USED"})) \in Nat
  BY <1>1, TableFacts
<1> QED BY <1>1, <1>2 DEF TableInv

\* The key of the next entry is put into the table.
LEMMA LoadKeyInSession ==
    ASSUME NEW max, InSession(max), LoadKey
    PROVE  InSession(max)'
<1> PICK K : K = loaded
  OBVIOUS
<1> PICK key : key = db.key_arr[loaded]
  OBVIOUS
<1>1. /\ FileInv(max) /\ HeaderInv(max) /\ SessionInv(max) /\ LoadingInv
      /\ TableInv(max, K) /\ pc = "load"
  BY DEF InSession, LoadKey, Known
<1>2. /\ K < Len(recs) /\ insert_entry(key, TRUE)
      /\ db' = [db EXCEPT !.EntryID_arr_htidx = Mapped(@, answer', key, K)]
      /\ loaded' = K + 1
      /\ disk' = disk /\ pc' = pc /\ recs' = recs
  <2>1. db.EntryCount = Len(recs)
    BY <1>1, SessionParts
  <2> QED BY <2>1 DEF LoadKey
<1>3. K \in Nat /\ K < max /\ max \in Nat \ {0} /\ Len(recs) \in Nat
  BY <1>1, <1>2 DEF LoadingInv, FileInv
<1>4. key = recs[K + 1].key /\ key \in ProbeKeys \ LongKeys
  <2>1. K \in 0 .. Len(recs) - 1
    BY <1>2, <1>3
  <2>2. recs[K + 1] \in Cells
    BY <1>1, <2>1, BelowEnd
  <2>3. key = recs[K + 1].key
    BY <1>1, <2>1 DEF LoadingInv
  <2> QED BY <2>2, <2>3, V31Assumption DEF Cells
<1>5. entry_count < max /\ Sound(max) /\ Exact
  BY <1>1, <1>3, EntryCountIs
<1> PICK h : h = answer'
  OBVIOUS
<1>6. /\ Sound(max)' /\ Exact' /\ entry_count' = entry_count + 1
      /\ h \in 0 .. max - 1 /\ h \notin Slots({"ENTRY_USED"})
      /\ Slots({"ENTRY_USED"})' = Slots({"ENTRY_USED"}) \cup {h}
      /\ hash_entry_arr'[h] = Used(key)
      /\ \A s \in 0 .. max - 1 : s # h => hash_entry_arr'[s] = hash_entry_arr[s]
  BY <1>2, <1>4, <1>5, KeyInserted
<1>7. /\ db'.EntryID_arr_htidx = [db.EntryID_arr_htidx EXCEPT ![h] = K]
      /\ db'.EntryCount = db.EntryCount /\ db'.ValidEntryCount = db.ValidEntryCount
      /\ db'.MaxEntryCount = db.MaxEntryCount
      /\ db'.IndexTable = db.IndexTable /\ db'.key_arr = db.key_arr
      /\ db'.OffsetPtr = db.OffsetPtr /\ db'.opened = db.opened
      /\ db' = [EntryCount |-> db'.EntryCount, ValidEntryCount |-> db'.ValidEntryCount,
                MaxEntryCount |-> db'.MaxEntryCount, IndexTable |-> db'.IndexTable,
                key_arr |-> db'.key_arr, EntryID_arr_htidx |-> db'.EntryID_arr_htidx,
                OffsetPtr |-> db'.OffsetPtr, opened |-> db'.opened]
  <2>1. db = [EntryCount |-> db.EntryCount, ValidEntryCount |-> db.ValidEntryCount,
              MaxEntryCount |-> db.MaxEntryCount, IndexTable |-> db.IndexTable,
              key_arr |-> db.key_arr, EntryID_arr_htidx |-> db.EntryID_arr_htidx,
              OffsetPtr |-> db.OffsetPtr, opened |-> db.opened]
    BY <1>1, SessionParts
  <2>2. db' = [db EXCEPT !.EntryID_arr_htidx = [db.EntryID_arr_htidx EXCEPT ![h] = K]]
    BY <1>2 DEF Mapped
  <2> QED BY <2>1, <2>2
<1>8. db.EntryID_arr_htidx \in [0 .. max - 1 -> Int]
  BY <1>1, SessionParts
<1>9. SessionInv(max)'
  <2>1. db'.EntryID_arr_htidx \in [0 .. max - 1 -> Int]
    BY <1>3, <1>6, <1>7, <1>8
  <2>2. EndOfRecords(max)' = EndOfRecords(max) /\ \A n : OffsetOf(n)' = OffsetOf(n)
    BY <1>2 DEF EndOfRecords, OffsetOf
  <2>3. db' \in SessionType(Len(recs), max)
    BY <1>1, <1>7, <2>1, SessionParts DEF SessionType
  <2> QED BY <1>1, <1>2, <1>7, <2>2, <2>3 DEF SessionInv
<1>10. FileInv(max)' /\ HeaderInv(max)'
  <2>1. FileInv(max)'
    BY <1>1, <1>2 DEF FileInv, Laid, OffsetOf
  <2> QED BY <1>1, <1>2, <2>1 DEF HeaderInv
<1>11. LoadingInv'
  BY <1>1, <1>2, <1>3, <1>7 DEF LoadingInv
<1>12. TableInv(max, K + 1)'
  <2>1. db'.EntryID_arr_htidx[h] = K
    BY <1>6, <1>7, <1>8
  <2>2. \A s \in 0 .. max - 1 : s # h => db'.EntryID_arr_htidx[s] = db.EntryID_arr_htidx[s]
    BY <1>7, <1>8
  <2>3. /\ \A n \in 0 .. K - 1 : recs'[n + 1] = recs[n + 1] /\ db'.key_arr[n] = db.key_arr[n]
        /\ recs'[K + 1].key = key
    BY <1>2, <1>4, <1>7
  <2> QED BY <1>1, <1>3, <1>6, <2>1, <2>2, <2>3, TableGrows
<1> QED BY <1>1, <1>2, <1>9, <1>10, <1>11, <1>12 DEF InSession, Known

\* When every key is in the table, the session is open.
LEMMA LoadDoneInSession ==
    ASSUME NEW max, InSession(max), LoadDone
    PROVE  InSession(max)'
<1>1. /\ FileInv(max) /\ HeaderInv(max) /\ SessionInv(max) /\ TableInv(max, loaded)
      /\ pc' = "open" /\ loaded = Len(recs)
      /\ disk' = disk /\ db' = db /\ recs' = recs
      /\ UNCHANGED probeVars
  <2>1. SessionInv(max) /\ db.EntryCount = Len(recs)
    BY SessionParts DEF InSession
  <2> QED BY <2>1 DEF InSession, LoadDone, Known
<1>2. FileInv(max)' /\ HeaderInv(max)'
  BY <1>1 DEF FileInv, Laid, OffsetOf, HeaderInv
<1>3. SessionInv(max)'
  BY <1>1 DEF SessionInv, EndOfRecords, OffsetOf
<1>4. TableInv(max, Len(recs))'
  <2> PICK K : K = Len(recs)
    OBVIOUS
  <2>1. TableInv(max, K) /\ Sound(max) /\ Exact /\ entry_count <= K /\ TableKept
    BY <1>1, EntryCountIs DEF probeVars, TableKept
  <2>2. TableInv(max, K)'
    BY <1>1, <2>1, KeptTable, TableStays
  <2> QED BY <1>1, <2>2
<1> QED BY <1>1, <1>2, <1>3, <1>4 DEF InSession, LoadingInv, Known

\* The header in the file is brought up to date.
LEMMA WriteHeaderInSession ==
    ASSUME NEW max, InSession(max), WriteDBHeader
    PROVE  InSession(max)'
<1>1. /\ FileInv(max) /\ SessionInv(max) /\ TableInv(max, Len(recs)) /\ pc = "open"
      /\ disk' = [disk EXCEPT !.hdr = HeaderOf(db.EntryCount, db.ValidEntryCount,
                                               db.MaxEntryCount)]
      /\ pc' = pc /\ db' = db /\ recs' = recs /\ UNCHANGED probeVars
  BY DEF InSession, WriteDBHeader, Known
<1>2. disk = [hdr |-> disk.hdr, idx |-> disk.idx, data |-> disk.data] /\ Len(recs) \in Nat
  BY <1>1 DEF FileInv
<1> PICK hdr : hdr = HeaderOf(db.EntryCount, db.ValidEntryCount, db.MaxEntryCount)
  OBVIOUS
<1>3. disk' = [hdr |-> hdr, idx |-> disk.idx, data |-> disk.data]
  BY <1>1, <1>2
<1>4. FileInv(max)'
  <2>1. disk'.hdr = hdr /\ disk'.idx = disk.idx /\ disk'.data = disk.data
    BY <1>3
  <2> QED BY <1>1, <1>3, <2>1 DEF FileInv, Laid, OffsetOf
<1>5. HeaderInv(max)'
  <2>1. db.EntryCount = Len(recs) /\ db.MaxEntryCount = max /\ db.ValidEntryCount \in Int
    BY <1>1, SessionParts
  <2>2. hdr \in [EntryCount : 0 .. Len(recs), ValidEntryCount : Int, MaxEntryCount : {max}]
    BY <1>2, <2>1 DEF HeaderOf
  <2> QED BY <1>1, <1>3, <2>2 DEF HeaderInv
<1>6. SessionInv(max)'
  BY <1>1, <1>3 DEF SessionInv, EndOfRecords, OffsetOf
<1>7. TableInv(max, Len(recs))'
  <2> PICK K : K = Len(recs)
    OBVIOUS
  <2>1. TableInv(max, K) /\ Sound(max) /\ Exact /\ entry_count <= K /\ TableKept
    BY <1>1, EntryCountIs DEF probeVars, TableKept
  <2>2. TableInv(max, K)'
    BY <1>1, <2>1, KeptTable, TableStays
  <2> QED BY <1>1, <2>2
<1> QED BY <1>1, <1>4, <1>5, <1>6, <1>7 DEF InSession, LoadingInv, Known

\* A record is written behind the last one: the file holds one entry more.
LEMMA RecordAppended ==
    ASSUME NEW max, FileInv(max), NEW cell \in Cells, NEW entry \in IndexEntries,
           NEW K, K = Len(recs), K < max,
           NEW off, off = EndOfRecords(max), entry.Offset = off,
           disk' = [hdr |-> disk.hdr, idx |-> [disk.idx EXCEPT ![K] = entry],
                    data |-> Write(disk.data, off, cell)],
           recs' = Append(recs, cell)
    PROVE  /\ FileInv(max)'
           /\ Len(recs') = K + 1 /\ recs'[K + 1] = cell
           /\ \A n \in 0 .. K - 1 : recs'[n + 1] = recs[n + 1] /\ OffsetOf(n)' = OffsetOf(n)
           /\ OffsetOf(K)' = off
           /\ EndOfRecords(max)' = off + SizeOf(cell)
<1>1. /\ K \in Nat /\ K + 1 <= max /\ max \in Nat \ {0} /\ recs \in Seq(Cells)
      /\ disk.idx \in [0 .. max - 1 -> IndexEntries]
  BY DEF FileInv
<1>2. disk'.idx = [disk.idx EXCEPT ![K] = entry] /\ disk'.data = Write(disk.data, off, cell)
  OBVIOUS
<1>3. /\ recs' \in Seq(Cells) /\ Len(recs') = K + 1 /\ recs'[K + 1] = cell
      /\ \A n \in 0 .. K - 1 : recs'[n + 1] = recs[n + 1]
  <2>1. recs' \in Seq(Cells) /\ Len(recs') = K + 1
    BY <1>1
  <2>2. recs'[K + 1] = cell /\ \A m \in 1 .. K : recs'[m] = recs[m]
    BY <1>1
  <2> QED BY <1>1, <2>1, <2>2
<1>4. /\ \A n \in 0 .. K - 1 : OffsetOf(n)' = OffsetOf(n)
      /\ OffsetOf(K)' = off
      /\ disk'.idx \in [0 .. max - 1 -> IndexEntries]
  BY <1>1, <1>2 DEF OffsetOf
<1>5. /\ off \in Nat
      /\ \A n \in 0 .. K - 1 :
            /\ recs[n + 1] \in Cells /\ SizeOf(recs[n + 1]) \in Nat \ {0}
            /\ OffsetOf(n) \in Nat
            /\ OffsetOf(n) + SizeOf(recs[n + 1]) <= off
  BY BelowEnd
<1>6. ASSUME NEW n \in 0 .. K PROVE Laid(n, max)'
  <2>1. CASE n = K
    <3>1. off \in DOMAIN disk'.data /\ disk'.data[off] = cell
      BY <1>2, WritePuts
    <3>2. K = 0 => off = DataSectionOffset(max)
      BY DEF EndOfRecords
    <3>3. K # 0 => off = OffsetOf(K - 1)' + SizeOf(recs'[K])
      <4>1. K # 0 => K - 1 \in 0 .. K - 1 /\ K - 1 + 1 = K
        BY <1>1
      <4>2. K # 0 => OffsetOf(K - 1)' = OffsetOf(K - 1) /\ recs'[K] = recs[K]
        BY <1>3, <1>4, <4>1
      <4> QED BY <4>2 DEF EndOfRecords
    <3>4. \A m \in 0 .. K - 1 : OffsetOf(m)' + SizeOf(recs'[m + 1]) <= off
      BY <1>3, <1>4, <1>5
    <3> QED BY <1>3, <1>4, <2>1, <3>1, <3>2, <3>3, <3>4 DEF Laid
  <2>2. CASE n # K
    <3>1. n \in 0 .. K - 1
      BY <1>1, <2>2
    <3>2. Laid(n, max)
      BY <3>1 DEF FileInv
    <3>3. /\ OffsetOf(n)' = OffsetOf(n) /\ recs'[n + 1] = recs[n + 1]
          /\ n # 0 => OffsetOf(n - 1)' = OffsetOf(n - 1) /\ recs'[n] = recs[n]
          /\ \A m \in 0 .. n - 1 : OffsetOf(m)' = OffsetOf(m) /\ recs'[m + 1] = recs[m + 1]
      <4>1. n # 0 => n - 1 \in 0 .. K - 1 /\ n - 1 + 1 = n
        BY <1>1, <3>1
      <4>2. \A m \in 0 .. n - 1 : m \in 0 .. K - 1
        BY <1>1, <3>1
      <4> QED BY <1>3, <1>4, <3>1, <4>1, <4>2
    <3>4. OffsetOf(n) \in DOMAIN disk'.data /\ disk'.data[OffsetOf(n)] = recs[n + 1]
      <4> PICK p : p = OffsetOf(n)
        OBVIOUS
      <4>1. p \in DOMAIN disk.data /\ disk.data[p] = recs[n + 1]
        BY <3>2 DEF Laid
      <4>2. p + SizeOf(disk.data[p]) <= off /\ p # off
        BY <1>5, <3>1, <4>1
      <4>3. p \in DOMAIN disk'.data /\ disk'.data[p] = disk.data[p]
        BY <1>2, <4>1, <4>2, WriteKeeps
      <4> QED BY <4>1, <4>3
    <3> QED BY <3>2, <3>3, <3>4 DEF Laid
  <2> QED BY <2>1, <2>2
<1>7. FileInv(max)'
  <2>1. \A n \in 0 .. K + 1 - 1 : Laid(n, max)'
    BY <1>1, <1>6
  <2> QED BY <1>1, <1>2, <1>3, <1>4, <2>1 DEF FileInv
<1>8. EndOfRecords(max)' = off + SizeOf(cell)
  <2>1. K + 1 # 0 /\ K + 1 - 1 = K
    BY <1>1
  <2> QED BY <1>3, <1>4, <2>1 DEF EndOfRecords
<1> QED BY <1>3, <1>4, <1>7, <1>8

\* An insertion into a database that was not opened, or opened without entries.
LEMMA InsertInSession ==
    ASSUME NEW max, InSession(max), NEW key \in Key, NEW val \in Val, InsertEntry(key, val),
           ~db.opened
    PROVE  InSession(max)'
<1>1. PICK K : K = Len(recs)
  OBVIOUS
<1>2. PICK off : off = db.OffsetPtr
  OBVIOUS
<1>3. PICK entry : entry = [Flags |-> "valid", Offset |-> off]
  OBVIOUS
<1>4. PICK cell : cell = RecordCell(key, val)
  OBVIOUS
<1>5. PICK h : h = answer'
  OBVIOUS
<1>6. /\ FileInv(max) /\ HeaderInv(max) /\ SessionInv(max) /\ TableInv(max, K) /\ pc = "open"
      /\ pc' = "open"
  BY <1>1 DEF InSession, InsertEntry, Known
<1>7. /\ K \in Nat /\ K < max /\ max \in Nat \ {0}
      /\ key \in ProbeKeys \ LongKeys
      /\ db.EntryCount = K /\ off \in Nat /\ off = EndOfRecords(max)
  <2>1. db.EntryCount = Len(recs) /\ db.MaxEntryCount = max /\ db.OffsetPtr \in Nat
    BY <1>6, SessionParts
  <2>2. Len(recs) \in Nat /\ max \in Nat \ {0}
    BY <1>6 DEF FileInv
  <2>3. db.EntryCount < db.MaxEntryCount /\ key \notin LongKeys
    BY DEF InsertEntry
  <2>4. db.OffsetPtr = EndOfRecords(max)
    BY <1>6 DEF SessionInv
  <2> QED BY <1>1, <1>2, <2>1, <2>2, <2>3, <2>4, V31Assumption
<1>8. entry \in IndexEntries /\ entry.Offset = off
  BY <1>3, <1>7 DEF IndexEntries
<1>9. cell \in Cells /\ cell.key = key /\ SizeOf(cell) = GetDataEntrySize(key, val)
      /\ SizeOf(cell) \in Nat
  <2>1. cell \in Cells /\ cell.key = key /\ cell.val = val
    BY <1>4, <1>7, NewCell, V31Assumption
  <2>2. SizeOf(cell) = GetDataEntrySize(cell.key, cell.val) /\ SizeOf(cell) \in Nat \ {0}
    BY <2>1, CellSize
  <2> QED BY <2>1, <2>2
<1>10. /\ Sound(max)' /\ Exact' /\ entry_count' = entry_count + 1
       /\ h \in 0 .. max - 1 /\ h \notin Slots({"ENTRY_USED"})
       /\ Slots({"ENTRY_USED"})' = Slots({"ENTRY_USED"}) \cup {h}
       /\ hash_entry_arr'[h] = Used(key)
       /\ \A s \in 0 .. max - 1 : s # h => hash_entry_arr'[s] = hash_entry_arr[s]
  <2>1. entry_count < max /\ Sound(max) /\ Exact
    BY <1>6, <1>7, EntryCountIs
  <2>2. insert_entry(key, TRUE)
    BY DEF InsertEntry
  <2> QED BY <1>5, <1>7, <2>1, <2>2, KeyInserted
<1>11. /\ FileInv(max)'
       /\ Len(recs') = K + 1 /\ recs'[K + 1] = cell
       /\ \A n \in 0 .. K - 1 : recs'[n + 1] = recs[n + 1] /\ OffsetOf(n)' = OffsetOf(n)
       /\ OffsetOf(K)' = off
       /\ EndOfRecords(max)' = off + SizeOf(cell)
       /\ disk'.hdr = disk.hdr
  <2>1. disk = [hdr |-> disk.hdr, idx |-> disk.idx, data |-> disk.data]
    BY <1>6 DEF FileInv
  <2>2. disk' = [disk EXCEPT !.data = Write(disk.data, off, cell),
                             !.idx = [disk.idx EXCEPT ![K] = entry]]
    BY <1>2, <1>3, <1>4, <1>7, <2>1 DEF InsertEntry
  <2>3. disk' = [hdr |-> disk.hdr, idx |-> [disk.idx EXCEPT ![K] = entry],
                 data |-> Write(disk.data, off, cell)]
    BY <2>1, <2>2
  <2>4. recs' = Append(recs, cell)
    BY <1>4 DEF InsertEntry
  <2>5. disk'.hdr = disk.hdr
    BY <2>3
  <2> QED BY <1>1, <1>6, <1>7, <1>8, <1>9, <2>3, <2>4, <2>5, RecordAppended
<1>12. /\ db'.EntryID_arr_htidx = [db.EntryID_arr_htidx EXCEPT ![h] = K]
       /\ db'.EntryCount = K + 1 /\ db'.ValidEntryCount = db.ValidEntryCount + 1
       /\ db'.MaxEntryCount = db.MaxEntryCount
       /\ db'.IndexTable = [db.IndexTable EXCEPT ![K] = entry]
       /\ db'.key_arr = [db.key_arr EXCEPT ![K] = key]
       /\ db'.OffsetPtr = off + SizeOf(cell) /\ db'.opened = db.opened
       /\ db' = [EntryCount |-> db'.EntryCount, ValidEntryCount |-> db'.ValidEntryCount,
                 MaxEntryCount |-> db'.MaxEntryCount, IndexTable |-> db'.IndexTable,
                 key_arr |-> db'.key_arr, EntryID_arr_htidx |-> db'.EntryID_arr_htidx,
                 OffsetPtr |-> db'.OffsetPtr, opened |-> db'.opened]
  <2>1. db = [EntryCount |-> db.EntryCount, ValidEntryCount |-> db.ValidEntryCount,
              MaxEntryCount |-> db.MaxEntryCount, IndexTable |-> db.IndexTable,
              key_arr |-> db.key_arr, EntryID_arr_htidx |-> db.EntryID_arr_htidx,
              OffsetPtr |-> db.OffsetPtr, opened |-> db.opened]
    BY <1>6, SessionParts
  <2>2. db' = [db EXCEPT !.key_arr = [db.key_arr EXCEPT ![K] = key],
                         !.EntryID_arr_htidx = [db.EntryID_arr_htidx EXCEPT ![h] = K],
                         !.IndexTable = [db.IndexTable EXCEPT ![K] = entry],
                         !.OffsetPtr = off + SizeOf(cell),
                         !.ValidEntryCount = db.ValidEntryCount + 1,
                         !.EntryCount = K + 1]
    BY <1>2, <1>3, <1>5, <1>7, <1>9, <2>1 DEF InsertEntry, Mapped
  <2> QED BY <2>1, <2>2
<1>13. /\ db.EntryID_arr_htidx \in [0 .. max - 1 -> Int]
       /\ db.IndexTable \in [0 .. max - 1 -> IndexEntries]
       /\ db.key_arr \in [0 .. max - 1 -> Key \cup {NULL}]
       /\ db.ValidEntryCount \in Int /\ db.MaxEntryCount = max /\ db.opened \in BOOLEAN
  BY <1>6, SessionParts
<1>14. HeaderInv(max)'
  BY <1>1, <1>6, <1>7, <1>11 DEF HeaderInv
<1>15. SessionInv(max)'
  <2>1. db' \in SessionType(K + 1, max)
    <3>1. /\ db'.EntryID_arr_htidx \in [0 .. max - 1 -> Int]
          /\ db'.IndexTable \in [0 .. max - 1 -> IndexEntries]
          /\ db'.key_arr \in [0 .. max - 1 -> Key \cup {NULL}]
      <4>1. K \in Int
        BY <1>7
      <4>2. db'.EntryID_arr_htidx \in [0 .. max - 1 -> Int]
        <5>1. db'.EntryID_arr_htidx = [db.EntryID_arr_htidx EXCEPT ![h] = K]
          BY <1>12
        <5>2. db.EntryID_arr_htidx \in [0 .. max - 1 -> Int]
          BY <1>13
        <5> QED BY <4>1, <5>1, <5>2
      <4>3. db'.IndexTable \in [0 .. max - 1 -> IndexEntries]
        <5>1. db'.IndexTable = [db.IndexTable EXCEPT ![K] = entry]
          BY <1>12
        <5>2. db.IndexTable \in [0 .. max - 1 -> IndexEntries] /\ entry \in IndexEntries
          BY <1>8, <1>13
        <5> QED BY <5>1, <5>2
      <4>4. db'.key_arr \in [0 .. max - 1 -> Key \cup {NULL}]
        <5>1. db'.key_arr = [db.key_arr EXCEPT ![K] = key]
          BY <1>12
        <5>2. db.key_arr \in [0 .. max - 1 -> Key \cup {NULL}]
          BY <1>13
        <5> QED BY <5>1, <5>2
      <4> QED BY <4>2, <4>3, <4>4
    <3>2. db'.ValidEntryCount \in Int /\ db'.OffsetPtr \in Nat
      BY <1>7, <1>9, <1>12, <1>13
    <3> QED BY <1>12, <1>13, <3>1, <3>2 DEF SessionType
  <2>2. ASSUME NEW n \in 0 .. K
        PROVE  db'.IndexTable[n].Offset = OffsetOf(n)' /\ db'.key_arr[n] \in {recs'[n + 1].key, NULL}
    <3>1. CASE n = K
      BY <1>7, <1>8, <1>9, <1>11, <1>12, <1>13, <3>1
    <3>2. CASE n # K
      <4>1. n \in 0 .. K - 1 /\ n \in 0 .. max - 1
        BY <1>7, <3>2
      <4>2. db.IndexTable[n].Offset = OffsetOf(n) /\ db.key_arr[n] \in {recs[n + 1].key, NULL}
        BY <1>1, <1>6, <4>1 DEF SessionInv
      <4>3. db'.IndexTable[n] = db.IndexTable[n] /\ db'.key_arr[n] = db.key_arr[n]
        BY <1>12, <1>13, <3>2, <4>1
      <4> QED BY <1>11, <4>1, <4>2, <4>3
    <3> QED BY <3>1, <3>2
  <2>3. ASSUME NEW n \in K + 1 .. max - 1 PROVE db'.key_arr[n] = NULL
    <3>1. n \in K .. max - 1 /\ n \in 0 .. max - 1 /\ n # K
      BY <1>7
    <3>2. db.key_arr[n] = NULL
      BY <1>1, <1>6, <3>1 DEF SessionInv
    <3> QED BY <1>12, <1>13, <3>1, <3>2
  <2>4. 0 .. Len(recs') - 1 = 0 .. K /\ Len(recs') .. max - 1 = K + 1 .. max - 1
    <3>1. Len(recs') = K + 1
      BY <1>11
    <3>2. Len(recs') - 1 = K
      BY <1>7, <3>1
    <3> QED BY <3>1, <3>2, Zenon
  <2>5. ~db'.opened => db'.OffsetPtr = EndOfRecords(max)'
    BY <1>11, <1>12
  <2>6. db' \in SessionType(Len(recs'), max)
    BY <1>11, <2>1
  <2> QED BY <2>2, <2>3, <2>4, <2>5, <2>6 DEF SessionInv
<1>16. TableInv(max, K + 1)'
  <2>1. db'.EntryID_arr_htidx[h] = K
    BY <1>10, <1>12, <1>13
  <2>2. \A s \in 0 .. max - 1 : s # h => db'.EntryID_arr_htidx[s] = db.EntryID_arr_htidx[s]
    BY <1>12, <1>13
  <2>3. \A n \in 0 .. K - 1 : recs'[n + 1] = recs[n + 1] /\ db'.key_arr[n] = db.key_arr[n]
    <3>1. \A n \in 0 .. K - 1 : n \in 0 .. max - 1 /\ n # K
      BY <1>7
    <3> QED BY <1>11, <1>12, <1>13, <3>1
  <2>4. recs'[K + 1].key = key
    BY <1>9, <1>11
  <2> QED BY <1>6, <1>7, <1>10, <2>1, <2>2, <2>3, <2>4, TableGrows
<1> QED BY <1>6, <1>11, <1>14, <1>15, <1>16 DEF InSession, LoadingInv, Known

\* A deletion keeps the record and the entry's place in the file.
LEMMA DeleteInSession ==
    ASSUME NEW max, InSession(max), NEW id \in DOMAIN disk.idx, DeleteEntry(id)
    PROVE  InSession(max)'
<1>1. PICK K : K = Len(recs)
  OBVIOUS
<1>2. PICK key : key = db.key_arr[id]
  OBVIOUS
<1>3. PICK h : h = answer'
  OBVIOUS
<1>4. PICK entry : entry = [db.IndexTable[id] EXCEPT !.Flags = "deleted"]
  OBVIOUS
<1>5. /\ FileInv(max) /\ HeaderInv(max) /\ SessionInv(max) /\ TableInv(max, K) /\ pc = "open"
      /\ pc' = "open" /\ recs' = recs
      /\ delete_entry(key) /\ key # NULL
  BY <1>1, <1>2 DEF InSession, DeleteEntry, Known
<1>6. /\ K \in Nat /\ K <= max /\ max \in Nat \ {0} /\ id \in 0 .. max - 1
      /\ disk.idx \in [0 .. max - 1 -> IndexEntries]
      /\ disk = [hdr |-> disk.hdr, idx |-> disk.idx, data |-> disk.data]
  BY <1>1, <1>5 DEF FileInv
<1>7. id \in 0 .. K - 1
  <2>1. id \in K .. max - 1 => db.key_arr[id] = NULL
    BY <1>1, <1>5 DEF SessionInv
  <2> QED BY <1>2, <1>5, <1>6, <2>1
<1>8. key = recs[id + 1].key /\ key \in ProbeKeys
  <2>1. db.key_arr[id] \in {recs[id + 1].key, NULL}
    BY <1>1, <1>5, <1>7 DEF SessionInv
  <2>2. recs[id + 1] \in Cells
    BY <1>1, <1>5, <1>7, BelowEnd
  <2> QED BY <1>2, <1>5, <2>1, <2>2, V31Assumption DEF Cells
<1>9. /\ db.EntryID_arr_htidx \in [0 .. max - 1 -> Int]
      /\ db.IndexTable \in [0 .. max - 1 -> IndexEntries]
      /\ db.key_arr \in [0 .. max - 1 -> Key \cup {NULL}]
      /\ db.ValidEntryCount \in Int /\ db.MaxEntryCount = max /\ db.opened \in BOOLEAN
      /\ db.OffsetPtr \in Nat /\ db.EntryCount = K
  BY <1>1, <1>5, SessionParts
<1>10. entry \in IndexEntries /\ entry.Offset = OffsetOf(id)
  <2> PICK e : e = db.IndexTable[id]
    OBVIOUS
  <2>1. e \in IndexEntries
    BY <1>6, <1>9
  <2>2. e.Offset = OffsetOf(id)
    BY <1>1, <1>5, <1>7 DEF SessionInv
  <2>3. entry = [e EXCEPT !.Flags = "deleted"]
    BY <1>4
  <2> QED BY <2>1, <2>2, <2>3 DEF IndexEntries
<1>11. /\ db'.EntryID_arr_htidx = [db.EntryID_arr_htidx EXCEPT ![h] = -1]
       /\ db'.EntryCount = db.EntryCount /\ db'.ValidEntryCount = db.ValidEntryCount - 1
       /\ db'.MaxEntryCount = db.MaxEntryCount
       /\ db'.IndexTable = [db.IndexTable EXCEPT ![id] = entry]
       /\ db'.key_arr = [db.key_arr EXCEPT ![id] = NULL]
       /\ db'.OffsetPtr = db.OffsetPtr /\ db'.opened = db.opened
       /\ db' = [EntryCount |-> db'.EntryCount, ValidEntryCount |-> db'.ValidEntryCount,
                 MaxEntryCount |-> db'.MaxEntryCount, IndexTable |-> db'.IndexTable,
                 key_arr |-> db'.key_arr, EntryID_arr_htidx |-> db'.EntryID_arr_htidx,
                 OffsetPtr |-> db'.OffsetPtr, opened |-> db'.opened]
  <2>1. db = [EntryCount |-> db.EntryCount, ValidEntryCount |-> db.ValidEntryCount,
              MaxEntryCount |-> db.MaxEntryCount, IndexTable |-> db.IndexTable,
              key_arr |-> db.key_arr, EntryID_arr_htidx |-> db.EntryID_arr_htidx,
              OffsetPtr |-> db.OffsetPtr, opened |-> db.opened]
    BY <1>5, SessionParts
  <2>2. db' = [db EXCEPT !.IndexTable = [db.IndexTable EXCEPT ![id] = entry],
                         !.EntryID_arr_htidx = [db.EntryID_arr_htidx EXCEPT ![h] = -1],
                         !.key_arr = [db.key_arr EXCEPT ![id] = NULL],
                         !.ValidEntryCount = db.ValidEntryCount - 1]
    BY <1>3, <1>4, <2>1 DEF DeleteEntry
  <2> QED BY <2>1, <2>2
<1>12. /\ disk' = [hdr |-> disk.hdr, idx |-> [disk.idx EXCEPT ![id] = entry], data |-> disk.data]
       /\ disk'.hdr = disk.hdr /\ disk'.idx = [disk.idx EXCEPT ![id] = entry]
       /\ disk'.data = disk.data
  <2>1. disk' = [disk EXCEPT !.idx = [disk.idx EXCEPT ![id] = entry]]
    BY <1>4, <1>6 DEF DeleteEntry
  <2> QED BY <1>6, <2>1
<1>13. disk'.idx \in [0 .. max - 1 -> IndexEntries] /\ \A n \in 0 .. max - 1 : OffsetOf(n)' = OffsetOf(n)
  BY <1>6, <1>10, <1>12 DEF OffsetOf
<1>14. FileInv(max)'
  <2>1. ASSUME NEW n \in 0 .. K - 1 PROVE Laid(n, max)'
    <3>1. Laid(n, max)
      BY <1>1, <1>5 DEF FileInv
    <3>2. /\ OffsetOf(n)' = OffsetOf(n) /\ (n # 0 => OffsetOf(n - 1)' = OffsetOf(n - 1))
          /\ \A m \in 0 .. n - 1 : OffsetOf(m)' = OffsetOf(m)
      BY <1>6, <1>13
    <3> QED BY <1>5, <1>12, <3>1, <3>2 DEF Laid
  <2> QED BY <1>1, <1>5, <1>12, <1>13, <2>1 DEF FileInv
<1>15. HeaderInv(max)'
  BY <1>5, <1>12 DEF HeaderInv
<1>16. EndOfRecords(max)' = EndOfRecords(max)
  <2>1. K # 0 => K - 1 \in 0 .. max - 1
    BY <1>6
  <2> QED BY <1>1, <1>5, <1>13, <2>1 DEF EndOfRecords
<1>17. SessionInv(max)'
  <2>1. db' \in SessionType(K, max)
    <3>1. db'.EntryID_arr_htidx \in [0 .. max - 1 -> Int]
      <4>1. PICK none \in Int : none = -1
        OBVIOUS
      <4>2. db'.EntryID_arr_htidx = [db.EntryID_arr_htidx EXCEPT ![h] = none]
        BY <1>11, <4>1
      <4>3. db.EntryID_arr_htidx \in [0 .. max - 1 -> Int]
        BY <1>9
      <4> QED BY <4>2, <4>3
    <3>2. db'.IndexTable \in [0 .. max - 1 -> IndexEntries]
      <4>1. db'.IndexTable = [db.IndexTable EXCEPT ![id] = entry]
        BY <1>11
      <4>2. db.IndexTable \in [0 .. max - 1 -> IndexEntries] /\ entry \in IndexEntries
        BY <1>9, <1>10
      <4> QED BY <4>1, <4>2
    <3>3. db'.key_arr \in [0 .. max - 1 -> Key \cup {NULL}]
      <4>1. db'.key_arr = [db.key_arr EXCEPT ![id] = NULL]
        BY <1>11
      <4>2. db.key_arr \in [0 .. max - 1 -> Key \cup {NULL}]
        BY <1>9
      <4> QED BY <4>1, <4>2
    <3>4. db'.ValidEntryCount \in Int
      BY <1>9, <1>11
    <3> QED BY <1>9, <1>11, <3>1, <3>2, <3>3, <3>4 DEF SessionType
  <2>2. ASSUME NEW n \in 0 .. K - 1
        PROVE  db'.IndexTable[n].Offset = OffsetOf(n)' /\ db'.key_arr[n] \in {recs'[n + 1].key, NULL}
    <3>1. n \in 0 .. max - 1
      BY <1>6
    <3>2. db.IndexTable[n].Offset = OffsetOf(n) /\ db.key_arr[n] \in {recs[n + 1].key, NULL}
      BY <1>1, <1>5 DEF SessionInv
    <3>3. OffsetOf(n)' = OffsetOf(n)
      BY <1>13, <3>1
    <3>4. CASE n = id
      BY <1>9, <1>10, <1>11, <3>1, <3>3, <3>4
    <3>5. CASE n # id
      BY <1>5, <1>9, <1>11, <3>1, <3>2, <3>3, <3>5
    <3> QED BY <3>4, <3>5
  <2>3. ASSUME NEW n \in K .. max - 1 PROVE db'.key_arr[n] = NULL
    <3>1. n \in 0 .. max - 1
      BY <1>6
    <3>2. db.key_arr[n] = NULL
      BY <1>1, <1>5 DEF SessionInv
    <3> QED BY <1>9, <1>11, <3>1, <3>2
  <2>4. ~db'.opened => db'.OffsetPtr = EndOfRecords(max)'
    BY <1>5, <1>11, <1>16 DEF SessionInv
  <2>5. Len(recs') = K
    BY <1>1, <1>5
  <2> QED BY <2>1, <2>2, <2>3, <2>4, <2>5 DEF SessionInv
<1>18. TableInv(max, K)'
  <2>1. entry_count \in Nat /\ entry_count <= K /\ Sound(max) /\ Exact
    BY <1>5, EntryCountIs
  <2>2. db'.key_arr[id] = NULL /\ \A n \in 0 .. K - 1 : n # id => db'.key_arr[n] = db.key_arr[n]
    <3>1. \A n \in 0 .. K - 1 : n \in 0 .. max - 1
      BY <1>6
    <3> QED BY <1>6, <1>9, <1>11, <3>1
  <2>3. CASE TableKept /\ h \in {-1, -2}
    <3>1. /\ Sound(max)' /\ Exact' /\ entry_count' = entry_count
          /\ Slots({"ENTRY_USED"})' = Slots({"ENTRY_USED"})
          /\ hash_entry_arr' = hash_entry_arr
      BY <2>1, <2>3, KeptTable
    <3>2. \A s \in 0 .. max - 1 : s # 0 => db'.EntryID_arr_htidx[s] = db.EntryID_arr_htidx[s]
      BY <1>9, <1>11, <2>3
    <3>3. PICK none : none = {}
      OBVIOUS
    <3>4. /\ Slots({"ENTRY_USED"})' = Slots({"ENTRY_USED"}) \ none
          /\ \A s \in none : hash_entry_arr[s].key = recs[id + 1].key
          /\ entry_count' <= K
      BY <2>1, <3>1, <3>3
    <3> QED BY <1>5, <1>6, <1>7, <2>2, <3>1, <3>2, <3>4, TableShrinks
  <2>4. ASSUME Sound(max)', Exact', entry_count' = entry_count - 1, h = 0,
               NEW g \in Slots({"ENTRY_USED"}), hash_entry_arr[g].key = key,
               Slots({"ENTRY_USED"})' = Slots({"ENTRY_USED"}) \ {g},
               \A s \in 0 .. max - 1 : s # g => hash_entry_arr'[s] = hash_entry_arr[s]
        PROVE  TableInv(max, K)'
    <3>1. \A s \in 0 .. max - 1 : s # 0 => db'.EntryID_arr_htidx[s] = db.EntryID_arr_htidx[s]
      BY <1>9, <1>11, <2>4
    <3>2. PICK gone : gone = {g}
      OBVIOUS
    <3>3. /\ Slots({"ENTRY_USED"})' = Slots({"ENTRY_USED"}) \ gone
          /\ \A s \in gone : hash_entry_arr[s].key = recs[id + 1].key
          /\ entry_count' <= K
      BY <1>6, <1>8, <2>1, <2>4, <3>2
    <3>4. \A s \in Slots({"ENTRY_USED"})' : hash_entry_arr'[s] = hash_entry_arr[s]
      <4>1. \A s \in Slots({"ENTRY_USED"}) : s \in 0 .. max - 1
        BY <2>1 DEF Sound, Table, Slots
      <4> QED BY <2>4, <4>1
    <3> QED BY <1>5, <1>6, <1>7, <2>2, <2>4, <3>1, <3>3, <3>4, TableShrinks
  <2> QED BY <1>3, <1>5, <1>8, <2>1, <2>3, <2>4, KeyDeleted
<1> QED BY <1>1, <1>5, <1>14, <1>15, <1>17, <1>18 DEF InSession, LoadingInv, Known

\* Every operation keeps the invariant.
LEMMA V31Step == V31Inv /\ [V31Next]_<<v31, probeVars>> => V31Inv'
<1> SUFFICES ASSUME V31Inv, [V31Next]_<<v31, probeVars>> PROVE V31Inv'
  OBVIOUS
<1>1. ASSUME NEW max \in MaxCounts, DBInit(max) PROVE V31Inv'
  <2>1. InSession(max)' /\ pc' = "open"
    BY <1>1, InitInSession DEF DBInit
  <2> QED BY <2>1 DEF V31Inv
<1>2. CASE DBOpen
  <2>1. pc = "closed" /\ disk.hdr # NULL /\ pc' = "load" /\ appended' = appended
    BY <1>2 DEF DBOpen
  <2>2. ASSUME ~appended PROVE \E max : InSession(max)'
    <3>1. PICK max : FileInv(max) /\ HeaderInv(max)
      BY <2>1, <2>2 DEF V31Inv
    <3>2. InSession(max)'
      BY <1>2, <3>1, OpenInSession
    <3> QED BY <3>2
  <2> QED BY <2>1, <2>2 DEF V31Inv
<1>3. ASSUME pc' = "garbage" PROVE V31Inv'
  BY <1>3 DEF V31Inv
<1>4. ASSUME pc \in {"load", "open"}, pc' \in {"load", "open"}, ~appended' => ~appended,
             \A max : InSession(max) /\ ~appended' => InSession(max)'
      PROVE  V31Inv'
  <2>1. ASSUME ~appended' PROVE \E max : InSession(max)'
    <3>1. PICK max : InSession(max)
      BY <1>4, <2>1 DEF V31Inv
    <3>2. InSession(max)'
      BY <1>4, <2>1, <3>1
    <3> QED BY <3>2
  <2> QED BY <1>4, <2>1 DEF V31Inv
<1>5. CASE LoadKey
  <2>1. /\ pc = "load" /\ pc' = "load" /\ appended' = appended
        /\ \A max : InSession(max) /\ ~appended' => InSession(max)'
    BY <1>5, LoadKeyInSession DEF LoadKey
  <2> QED BY <1>4, <2>1
<1>6. CASE LoadDone
  <2>1. /\ pc = "load" /\ pc' = "open" /\ appended' = appended
        /\ \A max : InSession(max) /\ ~appended' => InSession(max)'
    BY <1>6, LoadDoneInSession DEF LoadDone
  <2> QED BY <1>4, <2>1
<1>7. ASSUME NEW key \in Key, NEW val \in Val, InsertEntry(key, val) PROVE V31Inv'
  <2>1. /\ pc = "open" /\ pc' = "open" /\ (~appended' => ~appended /\ ~db.opened)
    BY <1>7 DEF InsertEntry
  <2>2. \A max : InSession(max) /\ ~appended' => InSession(max)'
    BY <1>7, <2>1, InsertInSession
  <2> QED BY <1>4, <2>1, <2>2
<1>8. ASSUME NEW id \in DOMAIN disk.idx, DeleteEntry(id) PROVE V31Inv'
  <2>1. /\ pc = "open" /\ pc' = "open" /\ appended' = appended
        /\ \A max : InSession(max) /\ ~appended' => InSession(max)'
    BY <1>8, DeleteInSession DEF DeleteEntry
  <2> QED BY <1>4, <2>1
<1>9. CASE WriteDBHeader
  <2>1. /\ pc = "open" /\ pc' = "open" /\ appended' = appended
        /\ \A max : InSession(max) /\ ~appended' => InSession(max)'
    BY <1>9, WriteHeaderInSession DEF WriteDBHeader
  <2> QED BY <1>4, <2>1
<1>10. ASSUME disk' = disk, recs' = recs
       PROVE  \A max : FileInv(max) /\ HeaderInv(max) => FileInv(max)' /\ HeaderInv(max)'
  BY <1>10 DEF FileInv, Laid, OffsetOf, HeaderInv
<1>11. CASE CloseDB
  <2>1. /\ pc = "open" /\ pc' = "closed" /\ appended' = appended /\ disk' = disk /\ recs' = recs
    BY <1>11 DEF CloseDB
  <2> QED BY <1>10, <2>1 DEF V31Inv, InSession
<1>12. CASE UNCHANGED <<v31, probeVars>>
  <2>1. /\ pc' = pc /\ appended' = appended /\ disk' = disk /\ recs' = recs
        /\ db' = db /\ loaded' = loaded /\ TableKept
    BY <1>12 DEF v31, probeVars, TableKept
  <2>2. ASSUME NEW max, InSession(max) PROVE InSession(max)'
    <3>1. FileInv(max)' /\ HeaderInv(max)'
      BY <1>10, <2>1, <2>2 DEF InSession
    <3>2. SessionInv(max)' /\ LoadingInv'
      BY <2>1, <2>2 DEF InSession, SessionInv, LoadingInv, EndOfRecords, OffsetOf
    <3>3. PICK K : K = Known
      OBVIOUS
    <3>4. TableInv(max, K) /\ Sound(max) /\ Exact /\ entry_count <= K
      BY <2>2, <3>3, EntryCountIs DEF InSession
    <3>5. TableInv(max, K)'
      BY <2>1, <3>4, KeptTable, TableStays
    <3>6. Known' = K
      BY <2>1, <3>3 DEF Known
    <3> QED BY <3>1, <3>2, <3>5, <3>6 DEF InSession
  <2> QED BY <1>10, <2>1, <2>2 DEF V31Inv
<1>13. CASE DBOpenAstray \/ \E id \in DOMAIN disk.idx : DeleteEntryOutside(id)
  BY <1>3, <1>13 DEF DBOpenAstray, DeleteEntryOutside
<1> QED BY <1>1, <1>2, <1>5, <1>6, <1>7, <1>8, <1>9, <1>11, <1>12, <1>13 DEF V31Next

(* In every state the engine can be in, header, index table, records, session  *)
(* and hash table agree, until an opened database with entries gets another    *)
(* one: the header counts no entry that is not there, every entry points at    *)
(* its record and they lie one behind the other, the session has the key of    *)
(* every entry it did not delete, every slot of the table but 0 leads to an    *)
(* entry with its key, and no malloc has cut a walk                            *)
(* (db_lib.c 230-236, 326-412, 460-566, 583-586).                              *)
THEOREM V31Invariant == V31Spec => []V31Inv
<1>1. V31Init => V31Inv
  BY DEF V31Init, V31Inv
<1> QED BY <1>1, V31Step, PTL DEF V31Spec

(* Until an opened database with entries gets another one, every entry points  *)
(* at its record and DBOpen gives each its key (db_lib.c 326-412, 460-566).    *)
THEOREM RecordsAreKept == V31Spec => []RecordsKeptUntilAppended
<1>1. V31Inv => RecordsKeptUntilAppended
  <2> SUFFICES ASSUME V31Inv, pc \in {"load", "open"}, ~appended, NEW n \in IDs
               PROVE  /\ Holds(disk.data, db.IndexTable[n].Offset, "record")
                      /\ disk.data[db.IndexTable[n].Offset] = recs[n + 1]
                      /\ db.key_arr[n] \in {recs[n + 1].key, NULL}
    BY DEF RecordsKeptUntilAppended
  <2>1. PICK max : InSession(max)
    BY DEF V31Inv
  <2>2. FileInv(max) /\ SessionInv(max) /\ db.EntryCount = Len(recs)
    BY <2>1, SessionParts DEF InSession
  <2>3. n \in 0 .. Len(recs) - 1
    BY <2>2 DEF IDs
  <2>4. OffsetOf(n) \in DOMAIN disk.data /\ disk.data[OffsetOf(n)] = recs[n + 1]
    BY <2>2, <2>3 DEF FileInv, Laid
  <2>5. db.IndexTable[n].Offset = OffsetOf(n) /\ db.key_arr[n] \in {recs[n + 1].key, NULL}
    BY <2>2, <2>3 DEF SessionInv
  <2>6. recs[n + 1].kind = "record"
    BY <2>2, <2>3, BelowEnd DEF Cells
  <2> QED BY <2>4, <2>5, <2>6 DEF Holds
<1> QED BY <1>1, V31Invariant, PTL

(* A lookup by key finds an entry with that key, if none of its entries was    *)
(* deleted in this session; only the key in slot 0 is lost by the deletion of  *)
(* another (db_lib.c 230-236, 402-406, 523-526, 583-586).                      *)
THEOREM LookupsFind == V31Spec => []LookupFindsAnEntry
<1>1. V31Inv => LookupFindsAnEntry
  <2> SUFFICES ASSUME V31Inv, pc = "open", ~appended,
                      NEW n0 \in IDs, NEW key, key = recs[n0 + 1].key,
                      NEW mine, mine = {n \in IDs : recs[n + 1].key = key},
                      NULL \notin {db.key_arr[n] : n \in mine}
               PROVE  /\ Search(key) >= 0
                      /\ \/ kvdb_search_key_id(key) \in mine
                         \/ Search(key) = 0 /\ NULL \in {db.key_arr[n] : n \in IDs}
    BY DEF LookupFindsAnEntry
  <2>1. PICK max : InSession(max)
    BY DEF V31Inv
  <2>2. PICK K : K = Len(recs)
    OBVIOUS
  <2>3. /\ FileInv(max) /\ SessionInv(max) /\ TableInv(max, K) /\ db.EntryCount = K
        /\ Sound(max) /\ Exact
    BY <2>1, <2>2, SessionParts, EntryCountIs DEF InSession, Known
  <2>4. IDs = 0 .. K - 1
    BY <2>3 DEF IDs
  <2>5. PICK s \in Slots({"ENTRY_USED"}) : hash_entry_arr[s].key = key
    <3>1. Listed(n0, K)
      BY <2>3, <2>4 DEF TableInv
    <3>2. \A m \in 0 .. K - 1 : recs[m + 1].key = key => db.key_arr[m] # NULL
      BY <2>4
    <3> QED BY <3>1, <3>2 DEF Listed
  <2>6. Table(max) /\ Reached(s)
    BY <2>3 DEF Sound, Exact
  <2>7. key \in ProbeKeys
    BY <2>5, <2>6 DEF Table, Slots
  <2>8. Search(key) >= 0
    BY <2>5, <2>6, ReachedFound
  <2>9. PICK g : g = Search(key)
    OBVIOUS
  <2>10. g \in Slots({"ENTRY_USED"}) /\ hash_entry_arr[g].key = key /\ g \in 0 .. max - 1
    <3>1. ~(Search(key) < 0)
      <4>1. Search(key) \in Int
        BY <2>6, <2>7, SearchIsNumber
      <4> QED BY <2>8, <4>1
    <3>2. g \in Slots({"ENTRY_USED"}) /\ hash_entry_arr[g].key = key
      BY <2>6, <2>7, <2>9, <3>1, FoundHolds
    <3> QED BY <2>6, <3>2 DEF Table, Slots
  <2>11. Leads(g, K)
    BY <2>3, <2>10 DEF TableInv
  <2>12. CASE /\ db.EntryID_arr_htidx[g] \in 0 .. K - 1
              /\ recs[db.EntryID_arr_htidx[g] + 1].key = hash_entry_arr[g].key
    <3>1. kvdb_search_key_id(key) = db.EntryID_arr_htidx[g]
      BY <2>9 DEF kvdb_search_key_id
    <3>2. db.EntryID_arr_htidx[g] \in mine
      BY <2>4, <2>10, <2>12
    <3> QED BY <2>8, <3>1, <3>2
  <2>13. CASE g = 0 /\ DeletedBelow(K)
    BY <2>4, <2>8, <2>9, <2>13 DEF DeletedBelow
  <2> QED BY <2>11, <2>12, <2>13 DEF Leads
<1> QED BY <1>1, V31Invariant, PTL
=============================================================================
