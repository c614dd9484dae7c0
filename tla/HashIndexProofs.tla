--------------------------- MODULE HashIndexProofs --------------------------
(***************************************************************************)
(* The hash index for every set of hashes and ids and every capacity, with *)
(* any allocation failing: its tables are well formed, every entry is in   *)
(* the slot of its hash, a copy keeps the pairs, the counters are exact,   *)
(* a copy is given up only for a full table or a failed allocation, and    *)
(* the ids of a hash keep their order: the index implements the multimap.  *)
(***************************************************************************)
EXTENDS HashIndex, HashTableProofs, FiniteSetTheorems, SequenceTheorems

USE IndexAssumption, BucketCapAssumption

-----------------------------------------------------------------------------
(* What a table is, slot by slot. *)

\* A slot that is in bounds and whose entries in use belong into slot at.
SlotGood(slot, at, cap) ==
    /\ slot \in HashTableSlot
    /\ INIT_BUCKET_CAP <= slot.bucket_cap
    /\ Len(slot.bucket) <= slot.bucket_cap
    /\ \A p \in DOMAIN slot.bucket :
          slot.bucket[p].state = "HT_ENTRY_INUSE" => at = slot.bucket[p].key_hash % cap

Good(t) == TableOK(t) /\ OwnSlots(t)

LEMMA GoodSlots ==
    ASSUME NEW t
    PROVE  Good(t) <=> /\ t.ht_cap \in Nat
                       /\ t \in HTObject(t.ht_cap)
                       /\ t.ht_cap = 0 => t.ht_entry_cnt = 0
                       /\ \A s \in 0 .. t.ht_cap - 1 : SlotGood(t.ht[s], s, t.ht_cap)
<1>1. ASSUME Good(t)
      PROVE  /\ t.ht_cap \in Nat
             /\ t \in HTObject(t.ht_cap)
             /\ t.ht_cap = 0 => t.ht_entry_cnt = 0
             /\ \A s \in 0 .. t.ht_cap - 1 : SlotGood(t.ht[s], s, t.ht_cap)
  BY <1>1 DEF Good, TableOK, OwnSlots, InUse, SlotGood, HTObject
<1>2. ASSUME t.ht_cap \in Nat, t \in HTObject(t.ht_cap),
             t.ht_cap = 0 => t.ht_entry_cnt = 0,
             \A s \in 0 .. t.ht_cap - 1 : SlotGood(t.ht[s], s, t.ht_cap)
      PROVE  Good(t)
  BY <1>2 DEF Good, TableOK, OwnSlots, InUse, SlotGood
<1> QED BY <1>1, <1>2

\* Table t with another slot and other counters.
WithSlot(t, at, slot, used, cnt, del) ==
    [ht_cap |-> t.ht_cap, ht |-> [t.ht EXCEPT ![at] = slot],
     ht_slot_used_cnt |-> used, ht_entry_cnt |-> cnt, ht_del_cnt |-> del]

Replaced(t, at, slot, g) ==
    /\ Good(g)
    /\ g.ht_cap = t.ht_cap
    /\ \A s \in 0 .. t.ht_cap - 1 : g.ht[s] = IF s = at THEN slot ELSE t.ht[s]

(* A table in which one slot is replaced by a good one is a good table. *)
LEMMA GoodReplace ==
    ASSUME NEW t, Good(t), NEW at \in 0 .. t.ht_cap - 1, NEW slot,
           SlotGood(slot, at, t.ht_cap), NEW used \in Nat, NEW cnt \in Int, NEW del \in Nat,
           NEW g, g = WithSlot(t, at, slot, used, cnt, del)
    PROVE  Replaced(t, at, slot, g)
<1>1. /\ t.ht_cap \in Nat
      /\ t.ht \in [0 .. t.ht_cap - 1 -> HashTableSlot]
      /\ \A s \in 0 .. t.ht_cap - 1 : SlotGood(t.ht[s], s, t.ht_cap)
  BY GoodSlots DEF HTObject
<1>2. /\ g.ht_cap = t.ht_cap
      /\ g.ht = [t.ht EXCEPT ![at] = slot]
  BY DEF WithSlot
<1>3. g.ht \in [0 .. t.ht_cap - 1 -> HashTableSlot]
  BY <1>1, <1>2 DEF SlotGood
<1>4. g \in HTObject(g.ht_cap)
  <2> DEFINE slots == [t.ht EXCEPT ![at] = slot]
  <2>1. slots \in [0 .. t.ht_cap - 1 -> HashTableSlot]
    BY <1>2, <1>3
  <2>2. g = [ht_cap |-> t.ht_cap, ht |-> slots, ht_slot_used_cnt |-> used,
             ht_entry_cnt |-> cnt, ht_del_cnt |-> del]
    BY DEF WithSlot
  <2> HIDE DEF slots
  <2> QED BY <2>1, <2>2 DEF HTObject
<1>5. ASSUME NEW s \in 0 .. t.ht_cap - 1
      PROVE  g.ht[s] = IF s = at THEN slot ELSE t.ht[s]
  BY <1>1, <1>2
<1>6. \A s \in 0 .. g.ht_cap - 1 : SlotGood(g.ht[s], s, g.ht_cap)
  BY <1>1, <1>2, <1>5
<1>7. Good(g)
  <2>1. g.ht_cap # 0
    BY <1>1, <1>2
  <2> QED BY <1>1, <1>2, <1>4, <1>6, <2>1, GoodSlots
<1> QED BY <1>2, <1>5, <1>7 DEF Replaced

(* The parts of a good table. *)
LEMMA GoodParts ==
    ASSUME NEW t, Good(t)
    PROVE  /\ t.ht_cap \in Nat
           /\ t.ht_slot_used_cnt \in Nat /\ t.ht_entry_cnt \in Int /\ t.ht_del_cnt \in Nat
           /\ t = [ht_cap |-> t.ht_cap, ht |-> t.ht, ht_slot_used_cnt |-> t.ht_slot_used_cnt,
                   ht_entry_cnt |-> t.ht_entry_cnt, ht_del_cnt |-> t.ht_del_cnt]
           /\ t.ht_cap = 0 => t.ht_entry_cnt = 0
           /\ \A s \in 0 .. t.ht_cap - 1 : SlotGood(t.ht[s], s, t.ht_cap)
<1>1. /\ t.ht_cap \in Nat /\ t \in HTObject(t.ht_cap)
      /\ t.ht_cap = 0 => t.ht_entry_cnt = 0
      /\ \A s \in 0 .. t.ht_cap - 1 : SlotGood(t.ht[s], s, t.ht_cap)
  BY GoodSlots
<1> QED BY <1>1 DEF HTObject

LEMMA SlotParts ==
    ASSUME NEW slot, NEW at, NEW cap, SlotGood(slot, at, cap)
    PROVE  /\ slot.bucket \in Seq(HashTableEntry)
           /\ slot.bucket_cap \in Nat
           /\ Len(slot.bucket) \in Nat
           /\ DOMAIN slot.bucket = 1 .. Len(slot.bucket)
           /\ slot.slot_state \in {"HT_SLOT_EMPTY", "HT_SLOT_INUSE"}
           /\ slot = [bucket |-> slot.bucket, bucket_cap |-> slot.bucket_cap,
                      slot_state |-> slot.slot_state]
           /\ \A p \in DOMAIN slot.bucket : slot.bucket[p] \in HashTableEntry
BY DEF SlotGood, HashTableSlot

(* Membership in the live pairs, without set constructors. *)
LEMMA LivePairsOf ==
    ASSUME NEW t, NEW x
    PROVE  x \in LivePairs(t) <=>
              \E s \in 0 .. t.ht_cap - 1 : \E p \in DOMAIN t.ht[s].bucket :
                 InUse(t, s, p) /\ x = Pair(t.ht[s].bucket[p])
BY DEF LivePairs

-----------------------------------------------------------------------------
(* The operations on one table. *)

LEMMA CreateGood ==
    ASSUME NEW cap \in Nat
    PROVE  /\ Good(HTCreate(cap))
           /\ HTCreate(cap).ht_cap = cap
           /\ \A x : x \notin LivePairs(HTCreate(cap))
<1> DEFINE t == HTCreate(cap)
           slot == [bucket |-> <<>>, bucket_cap |-> INIT_BUCKET_CAP,
                    slot_state |-> "HT_SLOT_EMPTY"]
<1>1. /\ t \in HTObject(cap)
      /\ t.ht_cap = cap
      /\ \A s \in 0 .. cap - 1 : t.ht[s].bucket = <<>>
  BY CreateType
<1>2. \A s \in 0 .. cap - 1 : t.ht[s] = slot
  BY DEF HTCreate
<1>3. ASSUME NEW s PROVE SlotGood(slot, s, cap)
  BY DEF SlotGood, HashTableSlot
<1>4. Good(t)
  <2>1. t.ht_entry_cnt = 0
    BY DEF HTCreate
  <2> HIDE DEF t, slot
  <2>2. \A s \in 0 .. cap - 1 : SlotGood(t.ht[s], s, cap)
    BY <1>2, <1>3
  <2> QED BY <1>1, <2>1, <2>2, GoodSlots
<1>5. ASSUME NEW x PROVE x \notin LivePairs(t)
  <2> HIDE DEF t
  <2>1. \A s \in 0 .. t.ht_cap - 1 : DOMAIN t.ht[s].bucket = {}
    BY <1>1
  <2> QED BY <2>1, LivePairsOf
<1> QED BY <1>1, <1>4, <1>5

\* What an insertion leaves: the table it was given, or that table with the pair.
Inserted(t, key_hash, id, ins) ==
    /\ ins.ret \in Int
    /\ Good(ins.htObj)
    /\ ins.htObj.ht_cap = t.ht_cap
    /\ ins.ret < 0 => ins.htObj = t
    /\ ins.ret >= 0 =>
         \A x : x \in LivePairs(ins.htObj) <=> x \in LivePairs(t) \/ x = <<key_hash, id>>

LEMMA InsertGood ==
    ASSUME NEW t, Good(t), NEW key_hash \in Nat, NEW id \in Nat \cup {-1}, NEW ok \in BOOLEAN,
           NEW ins, ins = HTInsert(t, key_hash, id, ok)
    PROVE  Inserted(t, key_hash, id, ins)
<1> DEFINE at    == key_hash % t.ht_cap
           B     == t.ht[at].bucket
           full  == Len(t.ht[at].bucket) >= t.ht[at].bucket_cap
           entry == [key_hash |-> key_hash, entry_id |-> id, state |-> "HT_ENTRY_INUSE"]
           room  == IF full THEN 2 * t.ht[at].bucket_cap ELSE t.ht[at].bucket_cap
           slot  == [bucket |-> Append(B, entry), bucket_cap |-> room,
                     slot_state |-> "HT_SLOT_INUSE"]
           used  == IF t.ht[at].slot_state = "HT_SLOT_INUSE" THEN t.ht_slot_used_cnt
                                                             ELSE t.ht_slot_used_cnt + 1
           g     == ins.htObj
<1>1. /\ t.ht_cap \in Nat
      /\ t.ht_slot_used_cnt \in Nat /\ t.ht_entry_cnt \in Int /\ t.ht_del_cnt \in Nat
      /\ \A s \in 0 .. t.ht_cap - 1 : SlotGood(t.ht[s], s, t.ht_cap)
  BY GoodParts
<1>2. CASE t.ht_slot_used_cnt >= t.ht_cap \/ (full /\ ~ok)
  <2>1. ins = [ret |-> -1, htObj |-> t]
    BY <1>2 DEF HTInsert
  <2> QED BY <2>1 DEF Inserted
<1>3. CASE ~(t.ht_slot_used_cnt >= t.ht_cap \/ (full /\ ~ok))
  <2>1. t.ht_cap > 0 /\ at \in 0 .. t.ht_cap - 1
    BY <1>1, <1>3, SlotIndex
  <2>2. SlotGood(t.ht[at], at, t.ht_cap)
    BY <1>1, <2>1
  <2>3. /\ B \in Seq(HashTableEntry)
        /\ t.ht[at].bucket_cap \in Nat
        /\ INIT_BUCKET_CAP <= t.ht[at].bucket_cap
        /\ Len(B) <= t.ht[at].bucket_cap
        /\ \A p \in DOMAIN B :
              B[p].state = "HT_ENTRY_INUSE" => at = B[p].key_hash % t.ht_cap
    <3> HIDE DEF at
    <3>1. B \in Seq(HashTableEntry) /\ t.ht[at].bucket_cap \in Nat
      BY <2>2 DEF SlotGood, HashTableSlot
    <3> QED BY <2>2, <3>1 DEF SlotGood
  <2>4. entry \in HashTableEntry
    BY DEF HashTableEntry
  <2>5. /\ Append(B, entry) \in Seq(HashTableEntry)
        /\ Len(Append(B, entry)) = Len(B) + 1
        /\ Len(B) \in Nat
    <3> HIDE DEF B, entry
    <3> QED BY <2>3, <2>4
  <2>6. /\ DOMAIN B \subseteq DOMAIN Append(B, entry)
        /\ \A p \in DOMAIN B : Append(B, entry)[p] = B[p]
        /\ \A p \in DOMAIN Append(B, entry) : p \in DOMAIN B \/ Append(B, entry)[p] = entry
        /\ Len(B) + 1 \in DOMAIN Append(B, entry)
        /\ Append(B, entry)[Len(B) + 1] = entry
    <3> HIDE DEF B, entry
    <3> QED BY <2>3, <2>4, AppendKeeps
  <2>7. room \in Nat /\ Len(B) + 1 <= room
    <3> HIDE DEF at
    <3>1. CASE full
      BY SMTT(30), <2>3, <2>5, <3>1
    <3>2. CASE ~full
      BY <2>3, <2>5, <3>2
    <3> QED BY <3>1, <3>2
  <2>8. SlotGood(slot, at, t.ht_cap)
    <3>1. slot \in HashTableSlot
      <4> HIDE DEF B, entry, room
      <4> QED BY <2>5, <2>7 DEF HashTableSlot
    <3>2. ASSUME NEW p \in DOMAIN slot.bucket, slot.bucket[p].state = "HT_ENTRY_INUSE"
          PROVE  at = slot.bucket[p].key_hash % t.ht_cap
      <4>1. slot.bucket = Append(B, entry)
        OBVIOUS
      <4>2. p \in DOMAIN B \/ slot.bucket[p] = entry
        <5> HIDE DEF B, entry, slot
        <5> QED BY <2>6, <4>1
      <4>3. CASE p \in DOMAIN B
        <5>1. slot.bucket[p] = B[p]
          <6> HIDE DEF B, entry, slot
          <6> QED BY <2>6, <4>1, <4>3
        <5> HIDE DEF B, slot, at
        <5> QED BY <2>3, <3>2, <4>3, <5>1
      <4>4. CASE slot.bucket[p] = entry
        <5>1. entry.key_hash = key_hash
          OBVIOUS
        <5> HIDE DEF slot, entry
        <5> QED BY <4>4, <5>1
      <4> QED BY <4>2, <4>3, <4>4
    <3>3. /\ INIT_BUCKET_CAP <= room
          /\ Len(slot.bucket) <= room
      <4>1. slot.bucket = Append(B, entry)
        OBVIOUS
      <4>2. INIT_BUCKET_CAP <= room
        <5> HIDE DEF at
        <5> QED BY <2>3
      <4> HIDE DEF B, entry, room, slot
      <4> QED BY <2>5, <2>7, <4>1, <4>2
    <3>4. slot.bucket_cap = room
      OBVIOUS
    <3> HIDE DEF slot, room, at
    <3> QED BY <3>1, <3>2, <3>3, <3>4 DEF SlotGood
  <2>9. ins = [ret |-> at,
               htObj |-> [ht_cap |-> t.ht_cap, ht |-> [t.ht EXCEPT ![at] = slot],
                          ht_slot_used_cnt |-> used,
                          ht_entry_cnt |-> t.ht_entry_cnt + 1,
                          ht_del_cnt |-> t.ht_del_cnt]]
    BY <1>3 DEF HTInsert
  <2>10. used \in Nat /\ t.ht_entry_cnt + 1 \in Int
    BY <1>1
  <2>11. /\ Good(g)
         /\ g.ht_cap = t.ht_cap
         /\ \A s \in 0 .. t.ht_cap - 1 : g.ht[s] = IF s = at THEN slot ELSE t.ht[s]
    <3>1. g = WithSlot(t, at, slot, used, t.ht_entry_cnt + 1, t.ht_del_cnt)
      BY <2>9 DEF WithSlot
    <3>2. Replaced(t, at, slot, g)
      <4> HIDE DEF g, slot, used, at
      <4> QED BY <1>1, <2>1, <2>8, <2>10, <3>1, GoodReplace
    <3> HIDE DEF g, slot, used, at
    <3> QED BY <3>2 DEF Replaced
  <2>12. ASSUME NEW s \in 0 .. t.ht_cap - 1, NEW p
         PROVE  /\ p \in DOMAIN t.ht[s].bucket =>
                      p \in DOMAIN g.ht[s].bucket /\ g.ht[s].bucket[p] = t.ht[s].bucket[p]
                /\ p \in DOMAIN g.ht[s].bucket =>
                      \/ p \in DOMAIN t.ht[s].bucket
                      \/ g.ht[s].bucket[p] = entry
    <3>1. slot.bucket = Append(B, entry)
      OBVIOUS
    <3>2. s = at => g.ht[s].bucket = Append(B, entry) /\ t.ht[s].bucket = B
      <4> HIDE DEF g, slot, entry
      <4> QED BY <2>11, <3>1
    <3>3. s # at => g.ht[s] = t.ht[s]
      <4> HIDE DEF g, slot, at
      <4> QED BY <2>11
    <3> HIDE DEF g, slot, at, B, entry
    <3> QED BY <2>6, <3>2, <3>3
  <2>13. /\ Len(B) + 1 \in DOMAIN g.ht[at].bucket
         /\ g.ht[at].bucket[Len(B) + 1] = entry
    <3>1. g.ht[at].bucket = Append(B, entry)
      <4>1. slot.bucket = Append(B, entry)
        OBVIOUS
      <4> HIDE DEF g, slot, at, B, entry
      <4> QED BY <2>1, <2>11, <4>1
    <3> HIDE DEF g, slot, at, B, entry
    <3> QED BY <2>6, <3>1
  <2>14. entry.state = "HT_ENTRY_INUSE" /\ Pair(entry) = <<key_hash, id>>
    BY DEF Pair
  <2>15. ASSUME NEW x
         PROVE  x \in LivePairs(g) <=> x \in LivePairs(t) \/ x = <<key_hash, id>>
    <3> HIDE DEF g, slot, at, B, entry
    <3>1. ASSUME x \in LivePairs(t) PROVE x \in LivePairs(g)
      <4>1. PICK s \in 0 .. t.ht_cap - 1 : \E p \in DOMAIN t.ht[s].bucket :
               InUse(t, s, p) /\ x = Pair(t.ht[s].bucket[p])
        BY <3>1, LivePairsOf
      <4>2. PICK p \in DOMAIN t.ht[s].bucket : InUse(t, s, p) /\ x = Pair(t.ht[s].bucket[p])
        BY <4>1
      <4>3. p \in DOMAIN g.ht[s].bucket /\ g.ht[s].bucket[p] = t.ht[s].bucket[p]
        BY <2>12
      <4>4. InUse(g, s, p) /\ x = Pair(g.ht[s].bucket[p])
        BY <4>2, <4>3 DEF InUse
      <4> QED BY <2>11, <4>3, <4>4, LivePairsOf
    <3>2. ASSUME x = <<key_hash, id>> PROVE x \in LivePairs(g)
      <4>1. InUse(g, at, Len(B) + 1) /\ x = Pair(g.ht[at].bucket[Len(B) + 1])
        BY <2>13, <2>14, <3>2 DEF InUse
      <4> QED BY <2>1, <2>11, <2>13, <4>1, LivePairsOf
    <3>3. ASSUME x \in LivePairs(g) PROVE x \in LivePairs(t) \/ x = <<key_hash, id>>
      <4>1. PICK s \in 0 .. t.ht_cap - 1 : \E p \in DOMAIN g.ht[s].bucket :
               InUse(g, s, p) /\ x = Pair(g.ht[s].bucket[p])
        BY <2>11, <3>3, LivePairsOf
      <4>2. PICK p \in DOMAIN g.ht[s].bucket : InUse(g, s, p) /\ x = Pair(g.ht[s].bucket[p])
        BY <4>1
      <4>3. CASE p \in DOMAIN t.ht[s].bucket
        <5>1. g.ht[s].bucket[p] = t.ht[s].bucket[p]
          BY <2>12, <4>3
        <5>2. InUse(t, s, p) /\ x = Pair(t.ht[s].bucket[p])
          BY <4>2, <5>1 DEF InUse
        <5> QED BY <4>3, <5>2, LivePairsOf
      <4>4. CASE g.ht[s].bucket[p] = entry
        BY <2>14, <4>2, <4>4
      <4> QED BY <2>12, <4>3, <4>4
    <3> QED BY <3>1, <3>2, <3>3
  <2>16. ins.ret = at /\ ins.ret \in Int /\ ~(ins.ret < 0)
    BY <2>1, <2>9
  <2> HIDE DEF at
  <2> QED BY <2>11, <2>15, <2>16 DEF Inserted
<1> QED BY <1>2, <1>3

(* A slot whose bucket has one element replaced is good if that element is. *)
LEMMA SlotReplace ==
    ASSUME NEW slot, NEW at, NEW cap, SlotGood(slot, at, cap), NEW q \in DOMAIN slot.bucket,
           NEW e \in HashTableEntry, e.state = "HT_ENTRY_INUSE" => at = e.key_hash % cap,
           NEW new, new = [bucket |-> [slot.bucket EXCEPT ![q] = e],
                           bucket_cap |-> slot.bucket_cap, slot_state |-> slot.slot_state]
    PROVE  SlotGood(new, at, cap)
<1> DEFINE B == slot.bucket
           C == [B EXCEPT ![q] = e]
<1>1. /\ B \in Seq(HashTableEntry)
      /\ slot.bucket_cap \in Nat
      /\ slot.slot_state \in {"HT_SLOT_EMPTY", "HT_SLOT_INUSE"}
      /\ Len(B) \in Nat /\ DOMAIN B = 1 .. Len(B)
  BY SlotParts
<1>2. /\ INIT_BUCKET_CAP <= slot.bucket_cap
      /\ Len(B) <= slot.bucket_cap
      /\ \A p \in DOMAIN B : B[p].state = "HT_ENTRY_INUSE" => at = B[p].key_hash % cap
  BY DEF SlotGood
<1>3. /\ C \in Seq(HashTableEntry)
      /\ Len(C) = Len(B)
      /\ DOMAIN C = DOMAIN B
      /\ \A p \in DOMAIN B : C[p] = IF p = q THEN e ELSE B[p]
  <2>1. q \in DOMAIN B
    OBVIOUS
  <2> HIDE DEF B
  <2> QED BY <1>1, <2>1
<1>4. /\ new.bucket = C
      /\ new.bucket_cap = slot.bucket_cap
      /\ new = [bucket |-> C, bucket_cap |-> slot.bucket_cap, slot_state |-> slot.slot_state]
  OBVIOUS
<1>5. new \in HashTableSlot
  <2> HIDE DEF B, C
  <2> QED BY <1>1, <1>3, <1>4 DEF HashTableSlot
<1> HIDE DEF B, C
<1> QED BY <1>2, <1>3, <1>4, <1>5 DEF SlotGood

LEMMA DeleteGood ==
    ASSUME NEW t, Good(t), t.ht_cap > 0, NEW key_hash \in Nat, NEW id \in Nat,
           NEW del, del = HTDelete(t, key_hash, id)
    PROVE  Good(del.htObj)
<1> DEFINE at    == key_hash % t.ht_cap
           found == Holding(t, key_hash, id)
           q     == FirstOf(found)
           slot  == [bucket     |-> [t.ht[at].bucket EXCEPT ![q] = Tombstone],
                     bucket_cap |-> t.ht[at].bucket_cap,
                     slot_state |-> t.ht[at].slot_state]
           g     == del.htObj
<1>1. CASE found = {}
  BY <1>1 DEF HTDelete
<1>2. CASE found # {}
  <2>1. /\ t.ht_cap \in Nat
        /\ t.ht_slot_used_cnt \in Nat /\ t.ht_entry_cnt \in Int /\ t.ht_del_cnt \in Nat
        /\ \A s \in 0 .. t.ht_cap - 1 : SlotGood(t.ht[s], s, t.ht_cap)
    BY GoodParts
  <2>2. at \in 0 .. t.ht_cap - 1
    BY <2>1, SlotIndex
  <2>3. SlotGood(t.ht[at], at, t.ht_cap)
    <3> HIDE DEF at
    <3> QED BY <2>1, <2>2
  <2>4. found \subseteq DOMAIN t.ht[at].bucket
    BY DEF Holding, SlotOf
  <2>5. DOMAIN t.ht[at].bucket \subseteq Nat
    <3> HIDE DEF at
    <3>1. DOMAIN t.ht[at].bucket = 1 .. Len(t.ht[at].bucket) /\ Len(t.ht[at].bucket) \in Nat
      BY <2>3, SlotParts
    <3> QED BY <3>1
  <2>6. q \in DOMAIN t.ht[at].bucket
    <3> HIDE DEF found, at
    <3> QED BY <1>2, <2>4, <2>5, FirstOfIsLeast
  <2>7. Tombstone \in HashTableEntry /\ Tombstone.state # "HT_ENTRY_INUSE"
    BY DEF Tombstone, HashTableEntry
  <2>8. SlotGood(slot, at, t.ht_cap)
    <3> HIDE DEF q, at
    <3> QED BY <2>3, <2>6, <2>7, SlotReplace
  <2>9. g = WithSlot(t, at, slot, t.ht_slot_used_cnt, t.ht_entry_cnt - 1, t.ht_del_cnt + 1)
    BY <1>2 DEF HTDelete, WithSlot
  <2>10. t.ht_entry_cnt - 1 \in Int /\ t.ht_del_cnt + 1 \in Nat
    BY <2>1
  <2>11. Replaced(t, at, slot, g)
    <3> HIDE DEF g, slot, at
    <3> QED BY <2>1, <2>2, <2>8, <2>9, <2>10, GoodReplace
  <2> QED BY <2>11 DEF Replaced
<1> QED BY <1>1, <1>2

LEMMA UpdateGood ==
    ASSUME NEW t, Good(t), NEW key_hash \in Nat, NEW id \in Nat,
           NEW upd, upd = HTUpdate(t, key_hash, id)
    PROVE  Good(upd.htObj)
<1> DEFINE at    == key_hash % t.ht_cap
           found == Under(t, key_hash)
           q     == FirstOf(found)
           old   == t.ht[at].bucket[q]
           new   == [old EXCEPT !.entry_id = id]
           slot  == [bucket     |-> [t.ht[at].bucket EXCEPT ![q] = new],
                     bucket_cap |-> t.ht[at].bucket_cap,
                     slot_state |-> t.ht[at].slot_state]
           g     == upd.htObj
           refused == \/ t.ht_entry_cnt >= t.ht_cap
                      \/ Len(SlotOf(t, key_hash).bucket) >= SlotOf(t, key_hash).bucket_cap
                      \/ found = {}
<1>1. CASE refused
  BY <1>1 DEF HTUpdate
<1>2. CASE ~refused
  <2>1. /\ t.ht_cap \in Nat
        /\ t.ht_slot_used_cnt \in Nat /\ t.ht_entry_cnt \in Int /\ t.ht_del_cnt \in Nat
        /\ t.ht_cap = 0 => t.ht_entry_cnt = 0
        /\ t = [ht_cap |-> t.ht_cap, ht |-> t.ht, ht_slot_used_cnt |-> t.ht_slot_used_cnt,
                ht_entry_cnt |-> t.ht_entry_cnt, ht_del_cnt |-> t.ht_del_cnt]
        /\ \A s \in 0 .. t.ht_cap - 1 : SlotGood(t.ht[s], s, t.ht_cap)
    BY GoodParts
  <2>2. t.ht_cap > 0 /\ at \in 0 .. t.ht_cap - 1
    <3>1. t.ht_cap > 0
      BY <1>2, <2>1
    <3> QED BY <2>1, <3>1, SlotIndex
  <2>3. SlotGood(t.ht[at], at, t.ht_cap)
    <3> HIDE DEF at
    <3> QED BY <2>1, <2>2
  <2>4. found = {p \in DOMAIN t.ht[at].bucket :
                   /\ t.ht[at].bucket[p].state = "HT_ENTRY_INUSE"
                   /\ t.ht[at].bucket[p].key_hash = key_hash}
    BY DEF Under, SlotOf
  <2>5. /\ DOMAIN t.ht[at].bucket \subseteq Nat
        /\ \A p \in DOMAIN t.ht[at].bucket : t.ht[at].bucket[p] \in HashTableEntry
        /\ t.ht[at] = [bucket |-> t.ht[at].bucket, bucket_cap |-> t.ht[at].bucket_cap,
                       slot_state |-> t.ht[at].slot_state]
    <3> HIDE DEF at
    <3>1. DOMAIN t.ht[at].bucket = 1 .. Len(t.ht[at].bucket) /\ Len(t.ht[at].bucket) \in Nat
      BY <2>3, SlotParts
    <3>2. DOMAIN t.ht[at].bucket \subseteq Nat
      BY <3>1
    <3> QED BY <2>3, <3>2, SlotParts
  <2>6. q \in found
    <3>1. found # {}
      BY <1>2
    <3>2. found \subseteq Nat
      <4> HIDE DEF found, at
      <4> QED BY <2>4, <2>5
    <3> HIDE DEF found, at
    <3> QED BY <3>1, <3>2, FirstOfIsLeast
  <2>7. q \in DOMAIN t.ht[at].bucket /\ old.key_hash = key_hash
    <3> HIDE DEF found, at, q
    <3> QED BY <2>4, <2>6
  <2>8. new \in HashTableEntry /\ new.key_hash = key_hash
    <3>1. old \in HashTableEntry
      <4> HIDE DEF at, q
      <4> QED BY <2>5, <2>7
    <3>2. old.key_hash = key_hash
      BY <2>7
    <3> HIDE DEF old
    <3> QED BY <3>1, <3>2 DEF HashTableEntry
  <2>9. SlotGood(slot, at, t.ht_cap)
    <3>1. at = new.key_hash % t.ht_cap
      <4> HIDE DEF new
      <4> QED BY <2>8
    <3> HIDE DEF q, at, new
    <3> QED BY <2>3, <2>7, <2>8, <3>1, SlotReplace
  <2>10. g = WithSlot(t, at, slot, t.ht_slot_used_cnt, t.ht_entry_cnt, t.ht_del_cnt)
    <3>1. g = [t EXCEPT !.ht[at].bucket[q].entry_id = id]
      BY <1>2 DEF HTUpdate
    <3>2. [t.ht[at] EXCEPT !.bucket[q].entry_id = id] = slot
      <4> HIDE DEF at, q
      <4> QED BY <2>5
    <3>3. g = [t EXCEPT !.ht = [t.ht EXCEPT ![at] = slot]]
      BY <3>1, <3>2
    <3> HIDE DEF g, slot, at
    <3> QED BY <2>1, <3>3 DEF WithSlot
  <2>11. Replaced(t, at, slot, g)
    <3> HIDE DEF g, slot, at
    <3> QED BY <2>1, <2>2, <2>9, <2>10, GoodReplace
  <2> QED BY <2>11 DEF Replaced
<1> QED BY <1>1, <1>2

-----------------------------------------------------------------------------
(* The inductive invariant and its preservation, one lemma per kind of step. *)

IndexIInv == TypeOK /\ EntriesInOwnSlot /\ CopiedSoFar

LEMMA PassedPairsOf ==
    ASSUME NEW x
    PROVE  x \in PassedPairs <=>
              \E s \in 0 .. htObj.ht_cap - 1 : \E p \in DOMAIN htObj.ht[s].bucket :
                 Passed(s, p) /\ InUse(htObj, s, p) /\ x = Pair(htObj.ht[s].bucket[p])
BY DEF PassedPairs

LEMMA GoodTables ==
    ASSUME IndexIInv
    PROVE  /\ htObj # NULL => Good(htObj)
           /\ pc = "copy" => Good(htObj) /\ Good(htNew)
BY DEF IndexIInv, TypeOK, EntriesInOwnSlot, Good

(* Outside a copy only the caller's table matters. *)
LEMMA OutsideCopy ==
    ASSUME pc' \in {"ready", "dead"}, htNew' = NULL, i' = 0, j' = 0, ret'.ok \in BOOLEAN,
           (htObj # NULL => Good(htObj))'
    PROVE  IndexIInv'
BY DEF IndexIInv, TypeOK, EntriesInOwnSlot, CopiedSoFar, Good

LEMMA OutsideUnchanged ==
    ASSUME IndexIInv, pc = "ready", NEW op, NEW ok \in BOOLEAN, OnlyReturns(op, ok)
    PROVE  IndexIInv'
<1>1. /\ pc' = "ready" /\ htNew' = NULL /\ i' = 0 /\ j' = 0 /\ htObj' = htObj
      /\ ret'.ok = ok
  BY DEF OnlyReturns, Returns, IndexIInv, TypeOK
<1>2. htObj # NULL => Good(htObj)
  BY GoodTables
<1> QED BY <1>1, <1>2, OutsideCopy DEF Good, TableOK, OwnSlots, InUse

(* An operation that gives the caller a good table. *)
LEMMA OutsideApplies ==
    ASSUME IndexIInv, pc = "ready", NEW op, NEW result, result.ret \in Int,
           Good(result.htObj), Applies(op, result)
    PROVE  IndexIInv'
<1>1. /\ pc' = "ready" /\ htNew' = NULL /\ i' = 0 /\ j' = 0 /\ htObj' = result.htObj
      /\ ret'.ok \in BOOLEAN
  BY DEF Applies, Returns, IndexIInv, TypeOK
<1> QED BY <1>1, OutsideCopy DEF Good, TableOK, OwnSlots, InUse

LEMMA SafeCreateDestroy ==
    ASSUME IndexIInv,
           \/ HTObject_destroy
           \/ \E cap \in Caps, ok \in AllocOutcome : HTObject_create(cap, ok)
    PROVE  IndexIInv'
<1>1. CASE HTObject_destroy
  <2>1. /\ pc' = "ready" /\ htNew' = NULL /\ i' = 0 /\ j' = 0 /\ htObj' = NULL
        /\ ret'.ok = TRUE
    BY <1>1 DEF HTObject_destroy, Returns, IndexIInv, TypeOK
  <2> QED BY <2>1, OutsideCopy
<1>2. ASSUME NEW cap \in Caps, NEW ok \in AllocOutcome, HTObject_create(cap, ok)
      PROVE  IndexIInv'
  <2>1. ok \in BOOLEAN
    BY DEF AllocOutcome
  <2>2. /\ pc' = "ready" /\ htNew' = NULL /\ i' = 0 /\ j' = 0
        /\ ret'.ok = ok
        /\ htObj' = HTCreate(cap) \/ htObj' = NULL
    BY <1>2 DEF HTObject_create, Returns, IndexIInv, TypeOK
  <2>3. Good(HTCreate(cap))
    BY CreateGood
  <2>4. (htObj # NULL => Good(htObj))'
    BY <2>2, <2>3 DEF Good, TableOK, OwnSlots, InUse
  <2> QED BY <2>1, <2>2, <2>4, OutsideCopy
<1> QED BY <1>1, <1>2

LEMMA SafeInsert ==
    ASSUME IndexIInv, NEW h \in Hashes, NEW id \in Ids, NEW ok \in AllocOutcome,
           HTObject_insert(h, id, ok)
    PROVE  IndexIInv'
<1>1. pc = "ready" /\ ok \in BOOLEAN /\ h \in Nat /\ id \in Nat
  BY DEF HTObject_insert, AllocOutcome
<1>2. CASE htObj = NULL
  BY <1>1, <1>2, OutsideUnchanged DEF HTObject_insert
<1>3. CASE htObj # NULL
  <2> SUFFICES ASSUME NEW ins, ins = HTInsert(htObj, h, id, ok)
               PROVE  IndexIInv'
    OBVIOUS
  <2>1. Applies("insert", ins)
    BY <1>3 DEF HTObject_insert
  <2>2. Good(htObj)
    BY <1>3, GoodTables
  <2>3. Inserted(htObj, h, id, ins)
    BY <1>1, <2>2, InsertGood
  <2> QED BY <1>1, <2>1, <2>3, OutsideApplies DEF Inserted
<1> QED BY <1>2, <1>3

LEMMA SafeUpdate ==
    ASSUME IndexIInv, NEW h \in Hashes, NEW id \in Ids, HTObject_update(h, id)
    PROVE  IndexIInv'
<1>1. pc = "ready" /\ h \in Nat /\ id \in Nat
  BY DEF HTObject_update
<1>2. CASE htObj = NULL
  BY <1>1, <1>2, OutsideUnchanged DEF HTObject_update
<1>3. CASE htObj # NULL
  <2> SUFFICES ASSUME NEW upd, upd = HTUpdate(htObj, h, id)
               PROVE  IndexIInv'
    OBVIOUS
  <2>1. Applies("update", upd)
    BY <1>3 DEF HTObject_update
  <2>2. Good(htObj)
    BY <1>3, GoodTables
  <2>3. Good(upd.htObj)
    BY <1>1, <2>2, UpdateGood
  <2>4. upd.ret \in Int
    <3>1. htObj.ht_cap \in Nat /\ (htObj.ht_cap = 0 => htObj.ht_entry_cnt = 0)
      BY <2>2, GoodParts
    <3> DEFINE refused == \/ htObj.ht_entry_cnt >= htObj.ht_cap
                          \/ Len(SlotOf(htObj, h).bucket) >= SlotOf(htObj, h).bucket_cap
                          \/ Under(htObj, h) = {}
    <3>2. CASE refused
      <4>1. upd.ret = -1
        BY <3>2 DEF HTUpdate
      <4> QED BY <4>1
    <3>3. CASE ~refused
      <4>1. upd.ret = h % htObj.ht_cap
        BY <3>3 DEF HTUpdate
      <4>2. htObj.ht_cap > 0
        BY <3>1, <3>3
      <4> HIDE DEF refused
      <4> QED BY <1>1, <3>1, <4>1, <4>2
    <3> QED BY <3>2, <3>3
  <2> QED BY <1>1, <2>1, <2>3, <2>4, OutsideApplies
<1> QED BY <1>2, <1>3

LEMMA SafeDeleteHT ==
    ASSUME IndexIInv, NEW h \in Hashes, NEW id \in Ids, HTObject_delete(h, id)
    PROVE  IndexIInv'
<1>1. pc = "ready" /\ h \in Nat /\ id \in Nat
  BY DEF HTObject_delete
<1>2. CASE htObj = NULL /\ OnlyReturns("delete", FALSE)
  BY <1>1, <1>2, OutsideUnchanged
<1>3. CASE htObj # NULL /\ htObj.ht_cap > 0 /\ Applies("delete", HTDelete(htObj, h, id))
  <2> SUFFICES ASSUME NEW del, del = HTDelete(htObj, h, id)
               PROVE  IndexIInv'
    OBVIOUS
  <2>1. Good(htObj)
    BY <1>3, GoodTables
  <2>2. Good(del.htObj)
    BY <1>1, <1>3, <2>1, DeleteGood
  <2>3. del.ret \in Int
    <3>1. htObj.ht_cap \in Nat
      BY <2>1, GoodParts
    <3>2. del.ret = -1 \/ del.ret = h % htObj.ht_cap
      BY DEF HTDelete
    <3> QED BY <1>1, <1>3, <3>1, <3>2
  <2> QED BY <1>1, <1>3, <2>2, <2>3, OutsideApplies
<1>4. CASE /\ htObj # NULL /\ htObj.ht_cap = 0
           /\ pc' = "dead"
           /\ Returns("delete", FALSE)
           /\ UNCHANGED <<htObj, htNew, i, j>>
  <2>1. /\ htNew' = NULL /\ i' = 0 /\ j' = 0 /\ ret'.ok = FALSE
    BY <1>1, <1>4 DEF IndexIInv, TypeOK, Returns
  <2>2. (htObj # NULL => Good(htObj))'
    BY <1>4, GoodTables DEF Good, TableOK, OwnSlots, InUse
  <2> QED BY <1>4, <2>1, <2>2, OutsideCopy
<1> QED BY <1>2, <1>3, <1>4 DEF HTObject_delete

(* A copy begins with an empty table and has passed nothing. *)
LEMMA SafeStartCopy ==
    ASSUME IndexIInv, pc = "ready", NEW cap, htObj # NULL => cap \in Nat, NEW ok \in BOOLEAN,
           StartCopy(cap, ok)
    PROVE  IndexIInv'
<1>1. CASE htObj = NULL \/ ~ok
  BY <1>1, OutsideUnchanged DEF StartCopy
<1>2. CASE ~(htObj = NULL \/ ~ok)
  <2> SUFFICES ASSUME NEW t, t = HTCreate(cap)
               PROVE  IndexIInv'
    OBVIOUS
  <2>1. /\ pc' = "copy" /\ htNew' = t /\ htObj' = htObj /\ i' = 0 /\ j' = 0 /\ ret' = ret
    BY <1>2 DEF StartCopy
  <2>2. Good(htObj) /\ Good(t) /\ \A x : x \notin LivePairs(t)
    BY <1>2, GoodTables, CreateGood
  <2>3. Good(htObj)' /\ Good(htNew)'
    BY <2>1, <2>2 DEF Good, TableOK, OwnSlots, InUse
  <2>4. ASSUME NEW s \in 0 .. htObj.ht_cap - 1
        PROVE  Len(htObj.ht[s].bucket) \in Nat /\ DOMAIN htObj.ht[s].bucket \subseteq Nat \ {0}
    <3>1. DOMAIN htObj.ht[s].bucket = 1 .. Len(htObj.ht[s].bucket)
          /\ Len(htObj.ht[s].bucket) \in Nat
      BY <2>2, GoodParts, SlotParts
    <3> QED BY <3>1
  <2>5. htObj.ht_cap \in Nat /\ ret.ok \in BOOLEAN
    BY <2>2, GoodParts DEF IndexIInv, TypeOK
  <2>6. TypeOK'
    BY <2>1, <2>3, <2>4, <2>5 DEF TypeOK, Good
  <2>7. CopiedSoFar'
    <3>1. ASSUME NEW s \in 0 .. htObj.ht_cap - 1, NEW p \in DOMAIN htObj.ht[s].bucket
          PROVE  ~(s < 0) /\ ~(s = 0 /\ p <= 0)
      BY <2>4, <2>5
    <3>2. PassedPairs' = {}
      BY <2>1, <3>1 DEF PassedPairs, Passed
    <3>3. LivePairs(htNew)' = {}
      BY <2>1, <2>2 DEF LivePairs, InUse
    <3> QED BY <3>2, <3>3 DEF CopiedSoFar
  <2> QED BY <2>1, <2>3, <2>6, <2>7 DEF IndexIInv, EntriesInOwnSlot, Good
<1> QED BY <1>1, <1>2

\* What every step inside a copy has at hand.
CopyFacts ==
    /\ Good(htObj) /\ Good(htNew)
    /\ htObj.ht_cap \in Nat
    /\ i \in Nat /\ j \in Nat /\ i <= htObj.ht_cap
    /\ i < htObj.ht_cap => j <= Len(htObj.ht[i].bucket)
    /\ i = htObj.ht_cap => j = 0
    /\ ret.ok \in BOOLEAN
    /\ LivePairs(htNew) = PassedPairs
    /\ \A s \in 0 .. htObj.ht_cap - 1 :
          /\ Len(htObj.ht[s].bucket) \in Nat
          /\ DOMAIN htObj.ht[s].bucket = 1 .. Len(htObj.ht[s].bucket)
          /\ \A p \in DOMAIN htObj.ht[s].bucket : htObj.ht[s].bucket[p] \in HashTableEntry

LEMMA InsideCopy ==
    ASSUME IndexIInv, pc = "copy"
    PROVE  CopyFacts
<1>1. Good(htObj) /\ Good(htNew)
  BY GoodTables
<1>2. /\ i \in Nat /\ j \in Nat /\ i <= htObj.ht_cap
      /\ i < htObj.ht_cap => j <= Len(htObj.ht[i].bucket)
      /\ i = htObj.ht_cap => j = 0
      /\ ret.ok \in BOOLEAN
  BY DEF IndexIInv, TypeOK
<1>3. LivePairs(htNew) = PassedPairs
  BY DEF IndexIInv, CopiedSoFar
<1>4. htObj.ht_cap \in Nat
  BY <1>1, GoodParts
<1>5. ASSUME NEW s \in 0 .. htObj.ht_cap - 1
      PROVE  /\ Len(htObj.ht[s].bucket) \in Nat
             /\ DOMAIN htObj.ht[s].bucket = 1 .. Len(htObj.ht[s].bucket)
             /\ \A p \in DOMAIN htObj.ht[s].bucket :
                   htObj.ht[s].bucket[p] \in HashTableEntry
  BY <1>1, GoodParts, SlotParts
<1> QED BY <1>1, <1>2, <1>3, <1>4, <1>5 DEF CopyFacts

(* A step that stays in the copy and keeps what CopiedSoFar needs. *)
LEMMA StaysInCopy ==
    ASSUME CopyFacts, pc' = "copy", htObj' = htObj, Good(htNew)', ret' = ret,
           i' \in Nat, j' \in Nat, i' <= htObj.ht_cap,
           i' < htObj.ht_cap => j' <= Len(htObj.ht[i'].bucket),
           i' = htObj.ht_cap => j' = 0,
           LivePairs(htNew)' = PassedPairs'
    PROVE  IndexIInv'
<1>1. Good(htObj)'
  BY DEF CopyFacts, Good, TableOK, OwnSlots, InUse
<1>2. TypeOK'
  BY <1>1 DEF TypeOK, Good, CopyFacts
<1> QED BY <1>1, <1>2 DEF IndexIInv, EntriesInOwnSlot, CopiedSoFar, Good

(* The end of a copy gives the caller a good table. *)
LEMMA SafeEndCopy ==
    ASSUME NEW t, Good(t), NEW ok \in BOOLEAN, EndCopy(t, ok)
    PROVE  IndexIInv'
<1>1. /\ pc' = "ready" /\ htNew' = NULL /\ i' = 0 /\ j' = 0 /\ htObj' = t /\ ret'.ok = ok
  BY DEF EndCopy, Returns
<1> QED BY <1>1, OutsideCopy DEF Good, TableOK, OwnSlots, InUse

LEMMA SafeCopyNextSlot ==
    ASSUME IndexIInv, CopyNextSlot
    PROVE  IndexIInv'
<1>1. /\ pc = "copy" /\ ~InBucket /\ i < htObj.ht_cap
      /\ i' = i + 1 /\ j' = 0
      /\ htObj' = htObj /\ htNew' = htNew /\ pc' = pc /\ ret' = ret
  BY DEF CopyNextSlot
<1>2. CopyFacts
  BY <1>1, InsideCopy
<1>3. ~(j < Len(htObj.ht[i].bucket))
  BY <1>1 DEF InBucket
<1>4. ASSUME NEW s \in 0 .. htObj.ht_cap - 1, NEW p \in DOMAIN htObj.ht[s].bucket
      PROVE  (s < i \/ (s = i /\ p <= j)) <=> (s < i + 1 \/ (s = i + 1 /\ p <= 0))
  BY <1>2, <1>3 DEF CopyFacts
<1>5. PassedPairs' = PassedPairs
  BY <1>1, <1>4 DEF PassedPairs, Passed, InUse
<1>6. LivePairs(htNew)' = PassedPairs'
  BY <1>1, <1>2, <1>5 DEF CopyFacts, LivePairs, InUse
<1>7. Good(htNew)'
  BY <1>1, <1>2 DEF CopyFacts, Good, TableOK, OwnSlots, InUse
<1>8. /\ i + 1 \in Nat /\ 0 \in Nat /\ i + 1 <= htObj.ht_cap
      /\ i + 1 < htObj.ht_cap => 0 <= Len(htObj.ht[i + 1].bucket)
  BY <1>1, <1>2 DEF CopyFacts
<1> QED BY <1>1, <1>2, <1>6, <1>7, <1>8, StaysInCopy

(* One entry: a tombstone is passed, an entry in use is inserted or ends the copy. *)
LEMMA SafeCopyEntry ==
    ASSUME IndexIInv, NEW ok \in AllocOutcome, CopyEntry(ok)
    PROVE  IndexIInv'
<1> SUFFICES ASSUME NEW e, e = htObj.ht[i].bucket[j + 1],
                    NEW ins, ins = HTInsert(htNew, e.key_hash, e.entry_id, ok)
             PROVE  IndexIInv'
  OBVIOUS
<1>1. /\ pc = "copy" /\ i < htObj.ht_cap /\ j < Len(htObj.ht[i].bucket)
      /\ ok \in BOOLEAN
  BY DEF CopyEntry, InBucket, AllocOutcome
<1>2. CopyFacts
  BY <1>1, InsideCopy
<1>3. /\ i \in 0 .. htObj.ht_cap - 1
      /\ j + 1 \in DOMAIN htObj.ht[i].bucket
      /\ j \in Nat /\ j + 1 <= Len(htObj.ht[i].bucket)
  BY <1>1, <1>2 DEF CopyFacts
<1>4. e.key_hash \in Nat /\ e.entry_id \in Nat \cup {-1}
  <2>1. e \in HashTableEntry
    BY <1>2, <1>3 DEF CopyFacts
  <2> QED BY <2>1 DEF HashTableEntry
<1>5. Inserted(htNew, e.key_hash, e.entry_id, ins)
  BY <1>1, <1>2, <1>4, InsertGood DEF CopyFacts
<1>6. ASSUME NEW s \in 0 .. htObj.ht_cap - 1, NEW p \in DOMAIN htObj.ht[s].bucket
      PROVE  (s < i \/ (s = i /\ p <= j + 1)) <=>
                (s < i \/ (s = i /\ p <= j)) \/ (s = i /\ p = j + 1)
  <2>1. p \in Nat
    <3>1. DOMAIN htObj.ht[s].bucket = 1 .. Len(htObj.ht[s].bucket)
          /\ Len(htObj.ht[s].bucket) \in Nat
      BY <1>2 DEF CopyFacts
    <3> QED BY <3>1
  <2>2. p <= j + 1 <=> p <= j \/ p = j + 1
    BY <1>3, <2>1
  <2> QED BY <2>2
\* What the pairs passed gain when the copy steps over this position.
<1>7. ASSUME htObj' = htObj, i' = i, j' = j + 1, NEW x
      PROVE  x \in PassedPairs' <=>
                x \in PassedPairs \/ (e.state = "HT_ENTRY_INUSE" /\ x = Pair(e))
  <2>1. x \in PassedPairs' <=>
           \E s \in 0 .. htObj.ht_cap - 1 : \E p \in DOMAIN htObj.ht[s].bucket :
              /\ s < i \/ (s = i /\ p <= j + 1)
              /\ InUse(htObj, s, p) /\ x = Pair(htObj.ht[s].bucket[p])
    BY <1>7 DEF PassedPairs, Passed, InUse
  <2>2. x \in PassedPairs <=>
           \E s \in 0 .. htObj.ht_cap - 1 : \E p \in DOMAIN htObj.ht[s].bucket :
              /\ s < i \/ (s = i /\ p <= j)
              /\ InUse(htObj, s, p) /\ x = Pair(htObj.ht[s].bucket[p])
    BY PassedPairsOf DEF Passed
  <2>3. (e.state = "HT_ENTRY_INUSE" /\ x = Pair(e)) <=>
           \E s \in 0 .. htObj.ht_cap - 1 : \E p \in DOMAIN htObj.ht[s].bucket :
              /\ s = i /\ p = j + 1
              /\ InUse(htObj, s, p) /\ x = Pair(htObj.ht[s].bucket[p])
    BY <1>3 DEF InUse
  <2> QED BY <1>6, <2>1, <2>2, <2>3
<1>8. CASE /\ e.state # "HT_ENTRY_INUSE"
           /\ j' = j + 1
           /\ UNCHANGED <<htObj, htNew, pc, i, ret>>
  <2>1. PassedPairs' = PassedPairs
    BY <1>7, <1>8
  <2>2. LivePairs(htNew)' = PassedPairs'
    BY <1>2, <1>8, <2>1 DEF CopyFacts, LivePairs, InUse
  <2>3. Good(htNew)'
    BY <1>2, <1>8 DEF CopyFacts, Good, TableOK, OwnSlots, InUse
  <2>4. i \in Nat /\ j + 1 \in Nat /\ i <= htObj.ht_cap /\ i # htObj.ht_cap
    BY <1>2, <1>3 DEF CopyFacts
  <2> QED BY <1>1, <1>2, <1>3, <1>8, <2>2, <2>3, <2>4, StaysInCopy
<1>9. CASE /\ e.state = "HT_ENTRY_INUSE" /\ ins.ret >= 0
           /\ htNew' = ins.htObj
           /\ j' = j + 1
           /\ UNCHANGED <<htObj, pc, i, ret>>
  <2>1. \A x : x \in PassedPairs' <=> x \in PassedPairs \/ x = Pair(e)
    BY <1>7, <1>9
  <2>2. \A x : x \in LivePairs(ins.htObj) <=> x \in LivePairs(htNew) \/ x = Pair(e)
    BY <1>5, <1>9 DEF Inserted, Pair
  <2>3. LivePairs(ins.htObj) = PassedPairs'
    <3>1. \A x : x \in LivePairs(ins.htObj) <=> x \in PassedPairs'
      BY <1>2, <2>1, <2>2 DEF CopyFacts
    <3> HIDE DEF PassedPairs
    <3> QED BY <3>1 DEF LivePairs, PassedPairs
  <2>4. LivePairs(htNew)' = PassedPairs'
    BY <1>9, <2>3
  <2>5. Good(htNew)'
    BY <1>5, <1>9 DEF Inserted
  <2>6. i \in Nat /\ j + 1 \in Nat /\ i <= htObj.ht_cap /\ i # htObj.ht_cap
    BY <1>2, <1>3 DEF CopyFacts
  <2> QED BY <1>1, <1>2, <1>3, <1>9, <2>4, <2>5, <2>6, StaysInCopy
<1>10. CASE ins.ret < 0 /\ EndCopy(htObj, FALSE)
  <2>1. Good(htObj)
    BY <1>2 DEF CopyFacts
  <2> QED BY <1>10, <2>1, SafeEndCopy
<1> QED BY <1>8, <1>9, <1>10 DEF CopyEntry

LEMMA SafeCopyDone ==
    ASSUME IndexIInv, CopyDone
    PROVE  IndexIInv'
<1>1. pc = "copy" /\ EndCopy(htNew, TRUE)
  BY DEF CopyDone
<1>2. Good(htNew)
  BY <1>1, GoodTables
<1> QED BY <1>1, <1>2, SafeEndCopy

LEMMA IndexStep == IndexIInv /\ [Next]_vars => IndexIInv'
<1> SUFFICES ASSUME IndexIInv, [Next]_vars
             PROVE  IndexIInv'
  OBVIOUS
<1>1. CASE \/ HTObject_destroy
           \/ \E cap \in Caps, ok \in AllocOutcome : HTObject_create(cap, ok)
  BY <1>1, SafeCreateDestroy
<1>2. ASSUME NEW h \in Hashes, NEW id \in Ids, NEW ok \in AllocOutcome,
             HTObject_insert(h, id, ok)
      PROVE  IndexIInv'
  BY <1>2, SafeInsert
<1>3. ASSUME NEW h \in Hashes, NEW id \in Ids,
             HTObject_update(h, id) \/ HTObject_delete(h, id)
      PROVE  IndexIInv'
  BY <1>3, SafeUpdate, SafeDeleteHT
<1>4. ASSUME NEW cap \in Caps, NEW ok \in AllocOutcome, HTObject_resize(cap, ok)
      PROVE  IndexIInv'
  <2>1. pc = "ready" /\ StartCopy(cap, ok) /\ cap \in Nat /\ ok \in BOOLEAN
    BY <1>4 DEF HTObject_resize, AllocOutcome
  <2> QED BY <2>1, SafeStartCopy
<1>5. ASSUME NEW ok \in AllocOutcome, HTObject_compact(ok)
      PROVE  IndexIInv'
  <2> SUFFICES ASSUME NEW cap, cap = IF htObj = NULL THEN 0 ELSE htObj.ht_cap
               PROVE  IndexIInv'
    OBVIOUS
  <2>1. pc = "ready" /\ StartCopy(cap, ok) /\ ok \in BOOLEAN
    BY <1>5 DEF HTObject_compact, AllocOutcome
  <2>2. htObj # NULL => cap \in Nat
    BY GoodTables, GoodParts
  <2> QED BY <2>1, <2>2, SafeStartCopy
<1>6. CASE CopyStep
  BY <1>6, SafeCopyEntry, SafeCopyNextSlot, SafeCopyDone DEF CopyStep
<1>7. CASE UNCHANGED vars
  <2>1. PassedPairs' = PassedPairs
    BY <1>7 DEF vars, PassedPairs, Passed, InUse
  <2>2. CopiedSoFar'
    BY <1>7, <2>1 DEF vars, IndexIInv, CopiedSoFar
  <2>3. TypeOK' /\ EntriesInOwnSlot'
    BY <1>7 DEF vars, IndexIInv, TypeOK, EntriesInOwnSlot
  <2> QED BY <2>2, <2>3 DEF IndexIInv
<1> QED BY <1>1, <1>2, <1>3, <1>4, <1>5, <1>6, <1>7 DEF Next

LEMMA IndexInit == Init => IndexIInv
<1> SUFFICES ASSUME Init PROVE IndexIInv
  OBVIOUS
<1> QED BY DEF Init, IndexIInv, TypeOK, EntriesInOwnSlot, CopiedSoFar

-----------------------------------------------------------------------------
(* The tables of the hash index are well formed in every reachable state: no   *)
(* write of insert is behind the end of a bucket, and the loops of resize and  *)
(* compact stay inside the table they read.                                    *)
THEOREM IndexTypeCorrect == Spec => []TypeOK
<1>1. IndexIInv => TypeOK
  BY DEF IndexIInv
<1> QED BY <1>1, IndexInit, IndexStep, PTL DEF Spec

(* Every entry in use is always in the slot of its hash, across resizes. *)
THEOREM EntriesStayInTheirSlots == Spec => []EntriesInOwnSlot
<1>1. IndexIInv => EntriesInOwnSlot
  BY DEF IndexIInv
<1> QED BY <1>1, IndexInit, IndexStep, PTL DEF Spec

(* At every point of a copy the new table holds the pairs passed, no other. *)
THEOREM CopyIsExact == Spec => []CopiedSoFar
<1>1. IndexIInv => CopiedSoFar
  BY DEF IndexIInv
<1> QED BY <1>1, IndexInit, IndexStep, PTL DEF Spec

(* A resize or compaction that ends well has kept every pair, and one that is  *)
(* given up, by a full table or a failed allocation, has changed nothing.      *)
THEOREM CopyLosesNothing == Spec => CopyKeepsPairs
<1> DEFINE Kept == pc = "copy" /\ pc' = "ready" =>
                      /\ LivePairs(htObj') = LivePairs(htObj)
                      /\ ~ret'.ok => htObj' = htObj
<1>1. IndexIInv /\ [Next]_vars => [Kept]_vars
  <2> SUFFICES ASSUME IndexIInv, Next, pc = "copy", pc' = "ready"
               PROVE  /\ LivePairs(htObj') = LivePairs(htObj)
                      /\ ~ret'.ok => htObj' = htObj
    OBVIOUS
  <2>1. CopyFacts
    BY InsideCopy
  <2>2. CASE EndCopy(htObj, FALSE)
    BY <2>2 DEF EndCopy
  <2>3. CASE CopyDone
    <3>1. i >= htObj.ht_cap /\ htObj' = htNew /\ ret'.ok = TRUE
      BY <2>3 DEF CopyDone, EndCopy, Returns
    <3>2. \A s \in 0 .. htObj.ht_cap - 1 : s < i
      BY <2>1, <3>1 DEF CopyFacts
    <3>3. LivePairs(htObj) = PassedPairs
      BY <3>2 DEF LivePairs, PassedPairs, Passed
    <3> QED BY <2>1, <3>1, <3>3 DEF CopyFacts
  <2>4. EndCopy(htObj, FALSE) \/ CopyDone
    BY DEF Next, HTObject_create, HTObject_destroy, HTObject_insert, HTObject_update,
           HTObject_delete, HTObject_resize, HTObject_compact, CopyStep, CopyEntry,
           CopyNextSlot
  <2> QED BY <2>2, <2>3, <2>4
<1> QED BY <1>1, IndexInit, IndexStep, PTL DEF Spec, CopyKeepsPairs

-----------------------------------------------------------------------------
(* The counters. *)

(* Membership in the positions of a state, without set constructors. *)
LEMMA InStateOf ==
    ASSUME NEW t, NEW state, NEW x
    PROVE  x \in InState(t, state) <=>
              \E s \in 0 .. t.ht_cap - 1 : \E p \in DOMAIN t.ht[s].bucket :
                 x = <<s, p>> /\ t.ht[s].bucket[p].state = state
<1>1. ASSUME x \in InState(t, state)
      PROVE  \E s \in 0 .. t.ht_cap - 1 : \E p \in DOMAIN t.ht[s].bucket :
                x = <<s, p>> /\ t.ht[s].bucket[p].state = state
  <2>1. x \in Positions(t) /\ t.ht[x[1]].bucket[x[2]].state = state
    BY <1>1 DEF InState
  <2>2. PICK s \in 0 .. t.ht_cap - 1 : x \in {s} \X DOMAIN t.ht[s].bucket
    BY <2>1 DEF Positions
  <2>3. PICK p \in DOMAIN t.ht[s].bucket : x = <<s, p>>
    BY <2>2
  <2> QED BY <2>1, <2>3
<1>2. ASSUME NEW s \in 0 .. t.ht_cap - 1, NEW p \in DOMAIN t.ht[s].bucket,
             x = <<s, p>>, t.ht[s].bucket[p].state = state
      PROVE  x \in InState(t, state)
  <2>1. x \in {s} \X DOMAIN t.ht[s].bucket
    BY <1>2
  <2>2. x \in Positions(t)
    BY <2>1 DEF Positions
  <2> QED BY <1>2, <2>2 DEF InState
<1> QED BY <1>1, <1>2

(* There are finitely many positions, and finitely many slots. *)
LEMMA FinitePositions ==
    ASSUME NEW t, Good(t)
    PROVE  /\ \A state : IsFiniteSet(InState(t, state))
           /\ IsFiniteSet(EverUsed(t)) /\ EverUsed(t) \subseteq 0 .. t.ht_cap - 1
           /\ IsFiniteSet(0 .. t.ht_cap - 1) /\ Cardinality(0 .. t.ht_cap - 1) = t.ht_cap
<1> DEFINE S == 0 .. t.ht_cap - 1
           Of == [s \in S |-> {s} \X DOMAIN t.ht[s].bucket]
           T == {{s} \X DOMAIN t.ht[s].bucket : s \in S}
<1>1. t.ht_cap \in Nat
  BY GoodParts
<1>2. IsFiniteSet(S) /\ Cardinality(S) = t.ht_cap
  <2>1. 0 \in Int /\ t.ht_cap - 1 \in Int
    BY <1>1
  <2>2. IsFiniteSet(S) /\ Cardinality(S) = IF 0 > t.ht_cap - 1 THEN 0 ELSE t.ht_cap - 1 - 0 + 1
    BY <2>1, FS_Interval, Zenon
  <2> QED BY <1>1, <2>2
<1>3. IsFiniteSet(T)
  <2>1. Of \in Surjection(S, T)
    BY DEF Surjection
  <2> HIDE DEF S, T, Of
  <2> QED BY <1>2, <2>1, FS_Surjection
<1>4. ASSUME NEW s \in S PROVE IsFiniteSet({s} \X DOMAIN t.ht[s].bucket)
  <2>1. DOMAIN t.ht[s].bucket = 1 .. Len(t.ht[s].bucket) /\ Len(t.ht[s].bucket) \in Nat
    BY GoodParts, SlotParts
  <2>2. IsFiniteSet(DOMAIN t.ht[s].bucket)
    <3>1. 1 \in Int /\ Len(t.ht[s].bucket) \in Int
      BY <2>1
    <3> QED BY <2>1, <3>1, FS_Interval
  <2>3. IsFiniteSet({s})
    BY FS_Singleton
  <2> QED BY <2>2, <2>3, FS_Product
<1>5. IsFiniteSet(Positions(t))
  <2>1. \A U \in T : IsFiniteSet(U)
    BY <1>4
  <2>2. Positions(t) = UNION T
    BY DEF Positions
  <2> HIDE DEF T
  <2> QED BY <1>3, <2>1, <2>2, FS_UNION
<1>6. ASSUME NEW state PROVE IsFiniteSet(InState(t, state))
  <2>1. InState(t, state) \in SUBSET Positions(t)
    BY DEF InState
  <2> QED BY <1>5, <2>1, FS_Subset
<1>7. EverUsed(t) \in SUBSET S
  BY DEF EverUsed
<1>8. IsFiniteSet(EverUsed(t))
  <2> HIDE DEF S
  <2> QED BY <1>2, <1>7, FS_Subset
<1> QED BY <1>2, <1>6, <1>7, <1>8

(* A new table counts nothing. *)
LEMMA CreateCounts ==
    ASSUME NEW cap \in Nat
    PROVE  Counts(HTCreate(cap)) /\ HTCreate(cap).ht_del_cnt = 0
<1> DEFINE t == HTCreate(cap)
<1>1. /\ t.ht_cap = cap /\ t.ht_entry_cnt = 0 /\ t.ht_del_cnt = 0 /\ t.ht_slot_used_cnt = 0
      /\ \A s \in 0 .. cap - 1 : t.ht[s].bucket = <<>> /\ t.ht[s].slot_state = "HT_SLOT_EMPTY"
  BY DEF HTCreate
<1> HIDE DEF t
<1>2. \A state : InState(t, state) = {}
  <2>1. \A s \in 0 .. t.ht_cap - 1 : DOMAIN t.ht[s].bucket = {}
    BY <1>1
  <2>2. ASSUME NEW state, NEW x PROVE x \notin InState(t, state)
    BY <2>1, InStateOf
  <2> QED BY <2>2
<1>3. EverUsed(t) = {}
  BY <1>1 DEF EverUsed
<1>4. {s \in 0 .. t.ht_cap - 1 : t.ht[s].slot_state = "HT_SLOT_INUSE"} = {}
  BY <1>1
<1>5. Counts(t)
  BY <1>1, <1>2, <1>3, <1>4, FS_EmptySet DEF Counts
<1> QED BY <1>1, <1>5 DEF t

\* Table g is table t with another entry at the end of the bucket of slot at.
Appended(t, at, entry, g) ==
    /\ at \in 0 .. t.ht_cap - 1
    /\ g.ht_cap = t.ht_cap
    /\ \A s \in 0 .. t.ht_cap - 1 : s # at => g.ht[s] = t.ht[s]
    /\ g.ht[at].slot_state = "HT_SLOT_INUSE"
    /\ Len(t.ht[at].bucket) \in Nat
    /\ DOMAIN t.ht[at].bucket = 1 .. Len(t.ht[at].bucket)
    /\ DOMAIN g.ht[at].bucket = 1 .. Len(t.ht[at].bucket) + 1
    /\ \A p \in DOMAIN t.ht[at].bucket : g.ht[at].bucket[p] = t.ht[at].bucket[p]
    /\ g.ht[at].bucket[Len(t.ht[at].bucket) + 1] = entry

LEMMA InsertAppends ==
    ASSUME NEW t, Good(t), NEW key_hash \in Nat, NEW id \in Nat \cup {-1}, NEW ok \in BOOLEAN,
           NEW ins, ins = HTInsert(t, key_hash, id, ok), ins.ret >= 0,
           NEW at, at = key_hash % t.ht_cap
    PROVE  /\ Appended(t, at, [key_hash |-> key_hash, entry_id |-> id,
                               state |-> "HT_ENTRY_INUSE"], ins.htObj)
           /\ ins.htObj.ht_entry_cnt = t.ht_entry_cnt + 1
           /\ ins.htObj.ht_del_cnt = t.ht_del_cnt
           /\ ins.htObj.ht_slot_used_cnt = IF t.ht[at].slot_state = "HT_SLOT_INUSE"
                                           THEN t.ht_slot_used_cnt
                                           ELSE t.ht_slot_used_cnt + 1
<1> DEFINE B     == t.ht[at].bucket
           full  == Len(t.ht[at].bucket) >= t.ht[at].bucket_cap
           entry == [key_hash |-> key_hash, entry_id |-> id, state |-> "HT_ENTRY_INUSE"]
           room  == IF full THEN 2 * t.ht[at].bucket_cap ELSE t.ht[at].bucket_cap
           slot  == [bucket |-> Append(B, entry), bucket_cap |-> room,
                     slot_state |-> "HT_SLOT_INUSE"]
           used  == IF t.ht[at].slot_state = "HT_SLOT_INUSE" THEN t.ht_slot_used_cnt
                                                             ELSE t.ht_slot_used_cnt + 1
           g     == ins.htObj
           C     == Append(B, entry)
<1>1. /\ t.ht_cap \in Nat /\ t.ht_slot_used_cnt \in Nat
      /\ t.ht \in [0 .. t.ht_cap - 1 -> HashTableSlot]
      /\ \A s \in 0 .. t.ht_cap - 1 : SlotGood(t.ht[s], s, t.ht_cap)
  BY GoodSlots, GoodParts DEF HTObject
<1>2. ~(t.ht_slot_used_cnt >= t.ht_cap \/ (full /\ ~ok))
  BY DEF HTInsert
<1>3. t.ht_cap > 0 /\ at \in 0 .. t.ht_cap - 1
  BY <1>1, <1>2, SlotIndex
<1>4. ins = [ret |-> at,
             htObj |-> [ht_cap |-> t.ht_cap, ht |-> [t.ht EXCEPT ![at] = slot],
                        ht_slot_used_cnt |-> used,
                        ht_entry_cnt |-> t.ht_entry_cnt + 1,
                        ht_del_cnt |-> t.ht_del_cnt]]
  BY <1>2 DEF HTInsert
<1>5. B \in Seq(HashTableEntry) /\ Len(B) \in Nat /\ DOMAIN B = 1 .. Len(B)
  BY <1>1, <1>3, SlotParts
<1>6. entry \in HashTableEntry
  BY DEF HashTableEntry
<1>7. /\ DOMAIN C = 1 .. Len(B) + 1
      /\ \A p \in DOMAIN B : C[p] = B[p]
      /\ C[Len(B) + 1] = entry
  <2> HIDE DEF B, entry
  <2> QED BY <1>5, <1>6
<1>8. /\ g.ht_cap = t.ht_cap /\ g.ht = [t.ht EXCEPT ![at] = slot]
      /\ g.ht_slot_used_cnt = used /\ g.ht_entry_cnt = t.ht_entry_cnt + 1
      /\ g.ht_del_cnt = t.ht_del_cnt
  <2> HIDE DEF slot, used
  <2> QED BY <1>4
<1>9. slot.bucket = C /\ slot.slot_state = "HT_SLOT_INUSE"
  OBVIOUS
<1>10. g.ht[at] = slot /\ \A s \in 0 .. t.ht_cap - 1 : s # at => g.ht[s] = t.ht[s]
  <2> HIDE DEF slot, g
  <2> QED BY <1>1, <1>3, <1>8
<1>11. Appended(t, at, entry, g)
  <2> HIDE DEF slot, g, entry, C
  <2> QED BY <1>3, <1>5, <1>7, <1>8, <1>9, <1>10 DEF Appended
<1> QED BY <1>8, <1>11

(* An insertion that is accepted is counted, its slot too if it was never used. *)
LEMMA InsertCounts ==
    ASSUME NEW t, Good(t), Counts(t), NEW key_hash \in Nat, NEW id \in Nat \cup {-1},
           NEW ok \in BOOLEAN, NEW ins, ins = HTInsert(t, key_hash, id, ok)
    PROVE  Counts(ins.htObj) /\ ins.htObj.ht_del_cnt = t.ht_del_cnt
<1> DEFINE at    == key_hash % t.ht_cap
           entry == [key_hash |-> key_hash, entry_id |-> id, state |-> "HT_ENTRY_INUSE"]
           g     == ins.htObj
           n     == Len(t.ht[at].bucket) + 1
<1>1. CASE ins.ret < 0
  <2>1. ins.htObj = t
    BY <1>1, InsertGood DEF Inserted
  <2> QED BY <2>1
<1>2. CASE ~(ins.ret < 0)
  <2>1. /\ Appended(t, at, entry, g)
        /\ g.ht_entry_cnt = t.ht_entry_cnt + 1
        /\ g.ht_del_cnt = t.ht_del_cnt
        /\ g.ht_slot_used_cnt = IF t.ht[at].slot_state = "HT_SLOT_INUSE"
                                THEN t.ht_slot_used_cnt ELSE t.ht_slot_used_cnt + 1
    <3>1. ins.ret >= 0
      BY <1>2, InsertGood DEF Inserted
    <3> QED BY <3>1, InsertAppends
  <2>2. entry.state = "HT_ENTRY_INUSE"
    OBVIOUS
  <2> HIDE DEF at, entry, g
  <2>3. ASSUME NEW state, NEW x
        PROVE  x \in InState(g, state) <=>
                  \/ x \in InState(t, state)
                  \/ x = <<at, n>> /\ state = "HT_ENTRY_INUSE"
    <3>1. ASSUME x \in InState(g, state)
          PROVE  \/ x \in InState(t, state)
                 \/ x = <<at, n>> /\ state = "HT_ENTRY_INUSE"
      <4>0. PICK s \in 0 .. t.ht_cap - 1 : \E p \in DOMAIN g.ht[s].bucket :
               x = <<s, p>> /\ g.ht[s].bucket[p].state = state
        BY <2>1, <3>1, InStateOf DEF Appended
      <4>1. PICK p \in DOMAIN g.ht[s].bucket :
               x = <<s, p>> /\ g.ht[s].bucket[p].state = state
        BY <4>0
      <4>2. CASE s # at \/ p # n
        <5>1. p \in DOMAIN t.ht[s].bucket /\ t.ht[s].bucket[p] = g.ht[s].bucket[p]
          <6>1. CASE s # at
            BY <2>1, <4>1, <6>1 DEF Appended
          <6>2. CASE s = at /\ p # n
            <7>1. p \in 1 .. Len(t.ht[at].bucket) + 1 /\ Len(t.ht[at].bucket) \in Nat
              BY <2>1, <4>1, <6>2 DEF Appended
            <7>2. p \in 1 .. Len(t.ht[at].bucket)
              BY <6>2, <7>1
            <7> HIDE DEF n
            <7> QED BY <2>1, <6>2, <7>2 DEF Appended
          <6> QED BY <4>2, <6>1, <6>2
        <5> QED BY <4>1, <5>1, InStateOf
      <4>3. CASE s = at /\ p = n
        BY <2>1, <2>2, <4>1, <4>3 DEF Appended
      <4> QED BY <4>2, <4>3
    <3>2. ASSUME x \in InState(t, state) PROVE x \in InState(g, state)
      <4>0. PICK s \in 0 .. t.ht_cap - 1 : \E p \in DOMAIN t.ht[s].bucket :
               x = <<s, p>> /\ t.ht[s].bucket[p].state = state
        BY <3>2, InStateOf
      <4>1. PICK p \in DOMAIN t.ht[s].bucket :
               x = <<s, p>> /\ t.ht[s].bucket[p].state = state
        BY <4>0
      <4>2. p \in DOMAIN g.ht[s].bucket /\ g.ht[s].bucket[p] = t.ht[s].bucket[p]
        <5>1. CASE s # at
          BY <2>1, <4>1, <5>1 DEF Appended
        <5>2. CASE s = at
          <6>1. p \in DOMAIN t.ht[at].bucket
            BY <4>1, <5>2
          <6>2. p \in DOMAIN g.ht[at].bucket
            BY <2>1, <6>1 DEF Appended
          <6> QED BY <2>1, <5>2, <6>1, <6>2 DEF Appended
        <5> QED BY <5>1, <5>2
      <4>3. s \in 0 .. g.ht_cap - 1
        BY <2>1 DEF Appended
      <4> QED BY <4>1, <4>2, <4>3, InStateOf
    <3>3. ASSUME x = <<at, n>>, state = "HT_ENTRY_INUSE" PROVE x \in InState(g, state)
      <4>1. /\ at \in 0 .. g.ht_cap - 1 /\ n \in DOMAIN g.ht[at].bucket
            /\ g.ht[at].bucket[n].state = state
        BY <2>1, <2>2, <3>3 DEF Appended
      <4> QED BY <3>3, <4>1, InStateOf
    <3> QED BY <3>1, <3>2, <3>3
  <2>4. <<at, n>> \notin InState(t, "HT_ENTRY_INUSE")
    <3>1. n \notin DOMAIN t.ht[at].bucket
      BY <2>1 DEF Appended
    <3> QED BY <3>1, InStateOf
  <2>5. g.ht_entry_cnt = Cardinality(InState(g, "HT_ENTRY_INUSE"))
    <3>1. InState(g, "HT_ENTRY_INUSE") = InState(t, "HT_ENTRY_INUSE") \cup {<<at, n>>}
      <4> HIDE DEF n
      <4> QED BY <2>3
    <3>2. IsFiniteSet(InState(t, "HT_ENTRY_INUSE"))
      BY FinitePositions
    <3>3. Cardinality(InState(t, "HT_ENTRY_INUSE") \cup {<<at, n>>})
             = Cardinality(InState(t, "HT_ENTRY_INUSE")) + 1
      <4> HIDE DEF n
      <4> QED BY <2>4, <3>2, FS_AddElement
    <3> HIDE DEF n
    <3> QED BY <2>1, <3>1, <3>3 DEF Counts
  <2>6. InState(g, "HT_ENTRY_DELETED") = InState(t, "HT_ENTRY_DELETED")
    <3>1. \A x : x \in InState(g, "HT_ENTRY_DELETED") <=> x \in InState(t, "HT_ENTRY_DELETED")
      BY <2>3
    <3> QED BY <3>1 DEF InState
  <2>7. \A sp \in InState(g, "HT_ENTRY_DELETED") : g.ht[sp[1]].bucket[sp[2]] = Tombstone
    <3> SUFFICES ASSUME NEW sp \in InState(g, "HT_ENTRY_DELETED")
                 PROVE  g.ht[sp[1]].bucket[sp[2]] = Tombstone
      OBVIOUS
    <3>1. sp \in InState(t, "HT_ENTRY_DELETED")
      BY <2>6
    <3>0. PICK s \in 0 .. t.ht_cap - 1 : \E p \in DOMAIN t.ht[s].bucket : sp = <<s, p>>
      BY <3>1, InStateOf
    <3>2. PICK p \in DOMAIN t.ht[s].bucket : sp = <<s, p>>
      BY <3>0
    <3>3. g.ht[s].bucket[p] = t.ht[s].bucket[p]
      BY <2>1 DEF Appended
    <3>4. t.ht[s].bucket[p] = Tombstone
      BY <3>1, <3>2 DEF Counts
    <3> QED BY <3>2, <3>3, <3>4
  <2>8. EverUsed(g) = EverUsed(t) \cup {at}
    <3>1. ASSUME NEW s \in 0 .. t.ht_cap - 1
          PROVE  g.ht[s].bucket # <<>> <=> t.ht[s].bucket # <<>> \/ s = at
      <4>1. CASE s # at
        BY <2>1, <4>1 DEF Appended
      <4>2. CASE s = at
        <5>1. n \in DOMAIN g.ht[at].bucket
          BY <2>1 DEF Appended
        <5>2. g.ht[at].bucket # <<>>
          BY <5>1
        <5> QED BY <4>2, <5>2
      <4> QED BY <4>1, <4>2
    <3>2. g.ht_cap = t.ht_cap /\ at \in 0 .. t.ht_cap - 1
      BY <2>1 DEF Appended
    <3> QED BY <3>1, <3>2 DEF EverUsed
  <2>9. EverUsed(g) = {s \in 0 .. g.ht_cap - 1 : g.ht[s].slot_state = "HT_SLOT_INUSE"}
    <3>1. EverUsed(t) = {s \in 0 .. t.ht_cap - 1 : t.ht[s].slot_state = "HT_SLOT_INUSE"}
      BY DEF Counts
    <3>2. \A s \in 0 .. t.ht_cap - 1 :
             g.ht[s].slot_state = "HT_SLOT_INUSE" <=>
                t.ht[s].slot_state = "HT_SLOT_INUSE" \/ s = at
      BY <2>1 DEF Appended
    <3>3. g.ht_cap = t.ht_cap /\ at \in 0 .. t.ht_cap - 1
      BY <2>1 DEF Appended
    <3> QED BY <2>8, <3>1, <3>2, <3>3
  <2>10. g.ht_slot_used_cnt = Cardinality(EverUsed(g))
    <3>1. at \in EverUsed(t) <=> t.ht[at].slot_state = "HT_SLOT_INUSE"
      BY <2>1 DEF Counts, Appended
    <3>2. IsFiniteSet(EverUsed(t))
      BY FinitePositions
    <3>3. Cardinality(EverUsed(t) \cup {at}) =
             IF at \in EverUsed(t) THEN Cardinality(EverUsed(t))
                                   ELSE Cardinality(EverUsed(t)) + 1
      BY <3>2, FS_AddElement
    <3> QED BY <2>1, <2>8, <3>1, <3>3 DEF Counts
  <2>11. g.ht_del_cnt = Cardinality(InState(g, "HT_ENTRY_DELETED"))
    BY <2>1, <2>6 DEF Counts
  <2>12. Counts(g)
    BY <2>5, <2>7, <2>9, <2>10, <2>11 DEF Counts
  <2> QED BY <2>1, <2>12 DEF g
<1> QED BY <1>1, <1>2

\* Table g is table t with entry e at position q of slot at.
Rewritten(t, at, q, e, g) ==
    /\ at \in 0 .. t.ht_cap - 1
    /\ q \in DOMAIN t.ht[at].bucket
    /\ g.ht_cap = t.ht_cap
    /\ g.ht_slot_used_cnt = t.ht_slot_used_cnt
    /\ \A s \in 0 .. t.ht_cap - 1 :
          /\ g.ht[s].slot_state = t.ht[s].slot_state
          /\ DOMAIN g.ht[s].bucket = DOMAIN t.ht[s].bucket
          /\ g.ht[s].bucket = <<>> <=> t.ht[s].bucket = <<>>
          /\ \A p \in DOMAIN t.ht[s].bucket :
                g.ht[s].bucket[p] = IF s = at /\ p = q THEN e ELSE t.ht[s].bucket[p]

LEMMA RewrittenSlots ==
    ASSUME NEW t, Good(t), NEW g, NEW at \in 0 .. t.ht_cap - 1,
           NEW q \in DOMAIN t.ht[at].bucket, NEW e \in HashTableEntry, NEW slot,
           slot.bucket = [t.ht[at].bucket EXCEPT ![q] = e],
           slot.slot_state = t.ht[at].slot_state,
           g.ht_cap = t.ht_cap, g.ht = [t.ht EXCEPT ![at] = slot],
           g.ht_slot_used_cnt = t.ht_slot_used_cnt
    PROVE  Rewritten(t, at, q, e, g)
<1> DEFINE B == t.ht[at].bucket
<1>1. /\ t.ht_cap \in Nat
      /\ t.ht \in [0 .. t.ht_cap - 1 -> HashTableSlot]
      /\ \A s \in 0 .. t.ht_cap - 1 : SlotGood(t.ht[s], s, t.ht_cap)
  BY GoodSlots DEF HTObject
<1>2. g.ht[at] = slot /\ \A s \in 0 .. t.ht_cap - 1 : s # at => g.ht[s] = t.ht[s]
  BY <1>1
<1>3. B \in Seq(HashTableEntry) /\ DOMAIN B = 1 .. Len(B) /\ Len(B) \in Nat
  BY <1>1, SlotParts
<1>4. /\ DOMAIN slot.bucket = DOMAIN B
      /\ \A p \in DOMAIN B : slot.bucket[p] = IF p = q THEN e ELSE B[p]
      /\ slot.bucket # <<>> /\ B # <<>>
  <2>1. slot.bucket = [B EXCEPT ![q] = e] /\ q \in DOMAIN B
    OBVIOUS
  <2>2. DOMAIN slot.bucket = DOMAIN B
        /\ \A p \in DOMAIN B : slot.bucket[p] = IF p = q THEN e ELSE B[p]
    <3> HIDE DEF B
    <3> QED BY <1>3, <2>1
  <2>3. \A f : q \in DOMAIN f => f # <<>>
    OBVIOUS
  <2> HIDE DEF B
  <2> QED BY <2>1, <2>2, <2>3
<1>5. ASSUME NEW s \in 0 .. t.ht_cap - 1
      PROVE  /\ g.ht[s].slot_state = t.ht[s].slot_state
             /\ DOMAIN g.ht[s].bucket = DOMAIN t.ht[s].bucket
             /\ g.ht[s].bucket = <<>> <=> t.ht[s].bucket = <<>>
             /\ \A p \in DOMAIN t.ht[s].bucket :
                   g.ht[s].bucket[p] = IF s = at /\ p = q THEN e ELSE t.ht[s].bucket[p]
  <2>1. CASE s = at
    BY <1>2, <1>4, <2>1
  <2>2. CASE s # at
    BY <1>2, <2>2
  <2> QED BY <2>1, <2>2
<1> QED BY <1>5 DEF Rewritten

(* A rewritten entry leaves its position in its old state, or moves it to another. *)
LEMMA RewrittenStates ==
    ASSUME NEW t, Good(t), NEW at, NEW q, NEW e, NEW g, Rewritten(t, at, q, e, g)
    PROVE  /\ EverUsed(g) = EverUsed(t)
           /\ {s \in 0 .. g.ht_cap - 1 : g.ht[s].slot_state = "HT_SLOT_INUSE"}
                 = {s \in 0 .. t.ht_cap - 1 : t.ht[s].slot_state = "HT_SLOT_INUSE"}
           /\ \A state, x : x \in InState(g, state) <=>
                 \/ x # <<at, q>> /\ x \in InState(t, state)
                 \/ x = <<at, q>> /\ state = e.state
<1>1. EverUsed(g) = EverUsed(t)
  BY DEF Rewritten, EverUsed
<1>2. {s \in 0 .. g.ht_cap - 1 : g.ht[s].slot_state = "HT_SLOT_INUSE"}
         = {s \in 0 .. t.ht_cap - 1 : t.ht[s].slot_state = "HT_SLOT_INUSE"}
  BY DEF Rewritten
<1>3. ASSUME NEW state, NEW x
      PROVE  x \in InState(g, state) <=>
                 \/ x # <<at, q>> /\ x \in InState(t, state)
                 \/ x = <<at, q>> /\ state = e.state
  <2>1. x \in InState(g, state) <=>
           \E s \in 0 .. t.ht_cap - 1 : \E p \in DOMAIN t.ht[s].bucket :
              x = <<s, p>> /\ g.ht[s].bucket[p].state = state
    <3>1. g.ht_cap = t.ht_cap
          /\ \A s \in 0 .. t.ht_cap - 1 : DOMAIN g.ht[s].bucket = DOMAIN t.ht[s].bucket
      BY DEF Rewritten
    <3> QED BY <3>1, InStateOf
  <2>2. \A s \in 0 .. t.ht_cap - 1 : \A p \in DOMAIN t.ht[s].bucket :
           g.ht[s].bucket[p] = IF s = at /\ p = q THEN e ELSE t.ht[s].bucket[p]
    BY DEF Rewritten
  <2>3. x \in InState(t, state) <=>
           \E s \in 0 .. t.ht_cap - 1 : \E p \in DOMAIN t.ht[s].bucket :
              x = <<s, p>> /\ t.ht[s].bucket[p].state = state
    BY InStateOf
  <2>4. at \in 0 .. t.ht_cap - 1 /\ q \in DOMAIN t.ht[at].bucket
    BY DEF Rewritten
  <2>5. CASE x = <<at, q>>
    <3>1. ASSUME NEW s, NEW p, x = <<s, p>> PROVE s = at /\ p = q
      BY <2>5, <3>1
    <3>2. x \in InState(g, state) <=> g.ht[at].bucket[q].state = state
      BY <2>1, <2>4, <2>5, <3>1
    <3> QED BY <2>2, <2>4, <2>5, <3>2
  <2>6. CASE x # <<at, q>>
    <3>1. ASSUME NEW s \in 0 .. t.ht_cap - 1, NEW p \in DOMAIN t.ht[s].bucket, x = <<s, p>>
          PROVE  g.ht[s].bucket[p] = t.ht[s].bucket[p]
      BY <2>2, <2>6, <3>1
    <3> QED BY <2>1, <2>3, <2>6, <3>1
  <2> QED BY <2>5, <2>6
<1> QED BY <1>1, <1>2, <1>3

(* An entry that gets another id is counted as before. *)
LEMMA UpdateCounts ==
    ASSUME NEW t, Good(t), Counts(t), NEW key_hash \in Nat, NEW id \in Nat,
           NEW upd, upd = HTUpdate(t, key_hash, id)
    PROVE  Counts(upd.htObj)
<1> DEFINE at    == key_hash % t.ht_cap
           found == Under(t, key_hash)
           q     == FirstOf(found)
           old   == t.ht[at].bucket[q]
           new   == [old EXCEPT !.entry_id = id]
           slot  == [bucket     |-> [t.ht[at].bucket EXCEPT ![q] = new],
                     bucket_cap |-> t.ht[at].bucket_cap,
                     slot_state |-> t.ht[at].slot_state]
           g     == upd.htObj
           refused == \/ t.ht_entry_cnt >= t.ht_cap
                      \/ Len(SlotOf(t, key_hash).bucket) >= SlotOf(t, key_hash).bucket_cap
                      \/ found = {}
<1>1. CASE refused
  <2>1. upd.htObj = t
    BY <1>1 DEF HTUpdate
  <2> QED BY <2>1
<1>2. CASE ~refused
  <2>1. /\ t.ht_cap \in Nat /\ t.ht_entry_cnt \in Int
        /\ t.ht_cap = 0 => t.ht_entry_cnt = 0
        /\ t = [ht_cap |-> t.ht_cap, ht |-> t.ht, ht_slot_used_cnt |-> t.ht_slot_used_cnt,
                ht_entry_cnt |-> t.ht_entry_cnt, ht_del_cnt |-> t.ht_del_cnt]
        /\ \A s \in 0 .. t.ht_cap - 1 : SlotGood(t.ht[s], s, t.ht_cap)
    BY GoodParts
  <2>2. at \in 0 .. t.ht_cap - 1
    <3>1. t.ht_cap > 0
      BY <1>2, <2>1
    <3> QED BY <2>1, <3>1, SlotIndex
  <2>3. /\ DOMAIN t.ht[at].bucket \subseteq Nat
        /\ \A p \in DOMAIN t.ht[at].bucket : t.ht[at].bucket[p] \in HashTableEntry
        /\ t.ht[at] = [bucket |-> t.ht[at].bucket, bucket_cap |-> t.ht[at].bucket_cap,
                       slot_state |-> t.ht[at].slot_state]
    <3> HIDE DEF at
    <3>1. DOMAIN t.ht[at].bucket = 1 .. Len(t.ht[at].bucket) /\ Len(t.ht[at].bucket) \in Nat
      BY <2>1, <2>2, SlotParts
    <3>2. DOMAIN t.ht[at].bucket \subseteq Nat
      BY <3>1
    <3> QED BY <2>1, <2>2, <3>2, SlotParts
  <2>4. found = {p \in DOMAIN t.ht[at].bucket :
                   /\ t.ht[at].bucket[p].state = "HT_ENTRY_INUSE"
                   /\ t.ht[at].bucket[p].key_hash = key_hash}
    BY DEF Under, SlotOf
  <2>5. q \in found
    <3>1. found # {}
      BY <1>2
    <3>2. found \subseteq Nat
      <4> HIDE DEF found, at
      <4> QED BY <2>3, <2>4
    <3> HIDE DEF found, at
    <3> QED BY <3>1, <3>2, FirstOfIsLeast
  <2>6. q \in DOMAIN t.ht[at].bucket /\ old.state = "HT_ENTRY_INUSE" /\ old \in HashTableEntry
    <3>1. q \in DOMAIN t.ht[at].bucket /\ old.state = "HT_ENTRY_INUSE"
      <4> HIDE DEF found, at, q
      <4> QED BY <2>4, <2>5
    <3> HIDE DEF found, at, q
    <3> QED BY <2>3, <3>1
  <2>7. new \in HashTableEntry /\ new.state = "HT_ENTRY_INUSE"
    <3> HIDE DEF old
    <3> QED BY <2>6 DEF HashTableEntry
  <2>8. /\ g.ht_cap = t.ht_cap /\ g.ht = [t.ht EXCEPT ![at] = slot]
        /\ g.ht_slot_used_cnt = t.ht_slot_used_cnt
        /\ g.ht_entry_cnt = t.ht_entry_cnt /\ g.ht_del_cnt = t.ht_del_cnt
    <3>1. g = [t EXCEPT !.ht[at].bucket[q].entry_id = id]
      BY <1>2 DEF HTUpdate
    <3>2. [t.ht[at] EXCEPT !.bucket[q].entry_id = id] = slot
      <4> HIDE DEF at, q
      <4> QED BY <2>3
    <3>3. g = [t EXCEPT !.ht = [t.ht EXCEPT ![at] = slot]]
      BY <3>1, <3>2
    <3> HIDE DEF g, slot, at
    <3> QED BY <2>1, <3>3
  <2>9. Rewritten(t, at, q, new, g)
    <3>1. /\ slot.bucket = [t.ht[at].bucket EXCEPT ![q] = new]
          /\ slot.slot_state = t.ht[at].slot_state
      OBVIOUS
    <3> HIDE DEF g, slot, at, q, new
    <3> QED BY <2>2, <2>6, <2>7, <2>8, <3>1, RewrittenSlots
  <2>10. <<at, q>> \in InState(t, "HT_ENTRY_INUSE")
    <3> HIDE DEF at, q
    <3> QED BY <2>2, <2>6, InStateOf DEF old
  <2> HIDE DEF g, slot, at, q, new, old
  <2>11. ASSUME NEW state PROVE InState(g, state) = InState(t, state)
    <3>1. <<at, q>> \in InState(t, state) <=> state = "HT_ENTRY_INUSE"
      BY <2>10 DEF InState
    <3>2. \A x : x \in InState(g, state) <=> x \in InState(t, state)
      BY <2>7, <2>9, <3>1, RewrittenStates
    <3> QED BY <3>2 DEF InState
  <2>12. \A sp \in InState(g, "HT_ENTRY_DELETED") : g.ht[sp[1]].bucket[sp[2]] = Tombstone
    <3> SUFFICES ASSUME NEW sp \in InState(g, "HT_ENTRY_DELETED")
                 PROVE  g.ht[sp[1]].bucket[sp[2]] = Tombstone
      OBVIOUS
    <3>1. sp \in InState(t, "HT_ENTRY_DELETED") /\ sp # <<at, q>>
      BY <2>7, <2>9, <2>11, RewrittenStates
    <3>2. PICK s \in 0 .. t.ht_cap - 1 : \E p \in DOMAIN t.ht[s].bucket : sp = <<s, p>>
      BY <3>1, InStateOf
    <3>3. PICK p \in DOMAIN t.ht[s].bucket : sp = <<s, p>>
      BY <3>2
    <3>4. g.ht[s].bucket[p] = t.ht[s].bucket[p]
      BY <2>9, <3>1, <3>3 DEF Rewritten
    <3>5. t.ht[s].bucket[p] = Tombstone
      BY <3>1, <3>3 DEF Counts
    <3> QED BY <3>3, <3>4, <3>5
  <2>13. g.ht_slot_used_cnt = t.ht_slot_used_cnt /\ EverUsed(g) = EverUsed(t)
         /\ EverUsed(g) = {s \in 0 .. g.ht_cap - 1 : g.ht[s].slot_state = "HT_SLOT_INUSE"}
    <3>1. /\ EverUsed(g) = EverUsed(t)
          /\ {s \in 0 .. g.ht_cap - 1 : g.ht[s].slot_state = "HT_SLOT_INUSE"}
                = {s \in 0 .. t.ht_cap - 1 : t.ht[s].slot_state = "HT_SLOT_INUSE"}
      BY <2>9, RewrittenStates
    <3>2. EverUsed(t) = {s \in 0 .. t.ht_cap - 1 : t.ht[s].slot_state = "HT_SLOT_INUSE"}
      BY DEF Counts
    <3> QED BY <2>8, <3>1, <3>2
  <2>14. Counts(g)
    BY <2>8, <2>11, <2>12, <2>13 DEF Counts
  <2> QED BY <2>14 DEF g
<1> QED BY <1>1, <1>2

(* A deleted entry goes from one counter to the other: what matches an id is in use. *)
LEMMA DeleteCounts ==
    ASSUME NEW t, Good(t), Counts(t), t.ht_cap > 0, NEW key_hash \in Nat, NEW id \in Nat,
           NEW del, del = HTDelete(t, key_hash, id)
    PROVE  Counts(del.htObj)
<1> DEFINE at    == key_hash % t.ht_cap
           found == Holding(t, key_hash, id)
           q     == FirstOf(found)
           old   == t.ht[at].bucket[q]
           slot  == [bucket     |-> [t.ht[at].bucket EXCEPT ![q] = Tombstone],
                     bucket_cap |-> t.ht[at].bucket_cap,
                     slot_state |-> t.ht[at].slot_state]
           g     == del.htObj
           Used  == InState(t, "HT_ENTRY_INUSE")
           Gone  == InState(t, "HT_ENTRY_DELETED")
<1>1. CASE found = {}
  <2>1. del.htObj = t
    BY <1>1 DEF HTDelete
  <2> QED BY <2>1
<1>2. CASE found # {}
  <2>1. /\ t.ht_cap \in Nat
        /\ \A s \in 0 .. t.ht_cap - 1 : SlotGood(t.ht[s], s, t.ht_cap)
    BY GoodParts
  <2>2. at \in 0 .. t.ht_cap - 1
    BY <2>1, SlotIndex
  <2>3. /\ DOMAIN t.ht[at].bucket \subseteq Nat
        /\ \A p \in DOMAIN t.ht[at].bucket : t.ht[at].bucket[p] \in HashTableEntry
    <3> HIDE DEF at
    <3>1. DOMAIN t.ht[at].bucket = 1 .. Len(t.ht[at].bucket) /\ Len(t.ht[at].bucket) \in Nat
      BY <2>1, <2>2, SlotParts
    <3>2. DOMAIN t.ht[at].bucket \subseteq Nat
      BY <3>1
    <3> QED BY <2>1, <2>2, <3>2, SlotParts
  <2>4. found = {p \in DOMAIN t.ht[at].bucket : /\ t.ht[at].bucket[p].entry_id = id
                                                /\ t.ht[at].bucket[p].key_hash = key_hash}
    BY DEF Holding, SlotOf
  <2>5. q \in found
    <3>1. found \subseteq Nat
      <4> HIDE DEF found, at
      <4> QED BY <2>3, <2>4
    <3> HIDE DEF found, at
    <3> QED BY <1>2, <3>1, FirstOfIsLeast
  <2>6. q \in DOMAIN t.ht[at].bucket /\ old.entry_id = id /\ old \in HashTableEntry
    <3>1. q \in DOMAIN t.ht[at].bucket /\ old.entry_id = id
      <4> HIDE DEF found, at, q
      <4> QED BY <2>4, <2>5
    <3> HIDE DEF found, at, q
    <3> QED BY <2>3, <3>1
  <2>7. <<at, q>> \in Used /\ <<at, q>> \notin Gone
    <3> HIDE DEF at, q, old
    <3>1. old # Tombstone
      BY <2>6 DEF Tombstone
    <3>2. <<at, q>> \notin Gone
      <4> SUFFICES ASSUME <<at, q>> \in Gone PROVE FALSE
        OBVIOUS
      <4>1. t.ht[at].bucket[q] = Tombstone
        BY DEF Counts
      <4> QED BY <3>1, <4>1 DEF old
    <3>3. old.state # "HT_ENTRY_DELETED"
      BY <2>2, <2>6, <3>2, InStateOf DEF old
    <3>4. old.state = "HT_ENTRY_INUSE"
      BY <2>6, <3>3 DEF HashTableEntry
    <3>5. <<at, q>> \in Used
      BY <2>2, <2>6, <3>4, InStateOf DEF old
    <3> QED BY <3>2, <3>5
  <2>8. /\ g.ht_cap = t.ht_cap /\ g.ht = [t.ht EXCEPT ![at] = slot]
        /\ g.ht_slot_used_cnt = t.ht_slot_used_cnt
        /\ g.ht_entry_cnt = t.ht_entry_cnt - 1 /\ g.ht_del_cnt = t.ht_del_cnt + 1
    BY <1>2 DEF HTDelete
  <2>9. Tombstone \in HashTableEntry /\ Tombstone.state = "HT_ENTRY_DELETED"
    BY DEF Tombstone, HashTableEntry
  <2>10. Rewritten(t, at, q, Tombstone, g)
    <3>1. /\ slot.bucket = [t.ht[at].bucket EXCEPT ![q] = Tombstone]
          /\ slot.slot_state = t.ht[at].slot_state
      OBVIOUS
    <3> HIDE DEF g, slot, at, q
    <3> QED BY <2>2, <2>6, <2>8, <2>9, <3>1, RewrittenSlots
  <2> HIDE DEF g, slot, at, q, old
  <2>11. InState(g, "HT_ENTRY_INUSE") = Used \ {<<at, q>>}
    <3>1. \A x : x \in InState(g, "HT_ENTRY_INUSE") <=> x \in Used /\ x # <<at, q>>
      BY <2>9, <2>10, RewrittenStates
    <3> QED BY <3>1 DEF InState
  <2>12. InState(g, "HT_ENTRY_DELETED") = Gone \cup {<<at, q>>}
    <3>1. \A x : x \in InState(g, "HT_ENTRY_DELETED") <=> x \in Gone \/ x = <<at, q>>
      BY <2>9, <2>10, RewrittenStates
    <3> QED BY <3>1 DEF InState
  <2>13. /\ Cardinality(Used \ {<<at, q>>}) = Cardinality(Used) - 1
         /\ Cardinality(Gone \cup {<<at, q>>}) = Cardinality(Gone) + 1
    <3>1. IsFiniteSet(Used) /\ IsFiniteSet(Gone)
      BY FinitePositions
    <3> HIDE DEF Used, Gone
    <3> QED BY <2>7, <3>1, FS_RemoveElement, FS_AddElement
  <2>14. /\ g.ht_entry_cnt = Cardinality(InState(g, "HT_ENTRY_INUSE"))
         /\ g.ht_del_cnt = Cardinality(InState(g, "HT_ENTRY_DELETED"))
    BY <2>8, <2>11, <2>12, <2>13 DEF Counts
  <2>15. \A sp \in InState(g, "HT_ENTRY_DELETED") : g.ht[sp[1]].bucket[sp[2]] = Tombstone
    <3> SUFFICES ASSUME NEW sp \in InState(g, "HT_ENTRY_DELETED")
                 PROVE  g.ht[sp[1]].bucket[sp[2]] = Tombstone
      OBVIOUS
    <3>1. CASE sp = <<at, q>>
      <4>1. g.ht[at].bucket[q] = Tombstone
        BY <2>10 DEF Rewritten
      <4> QED BY <3>1, <4>1
    <3>2. CASE sp # <<at, q>>
      <4>1. sp \in Gone
        BY <2>12, <3>2
      <4>2. PICK s \in 0 .. t.ht_cap - 1 : \E p \in DOMAIN t.ht[s].bucket : sp = <<s, p>>
        BY <4>1, InStateOf
      <4>3. PICK p \in DOMAIN t.ht[s].bucket : sp = <<s, p>>
        BY <4>2
      <4>4. g.ht[s].bucket[p] = t.ht[s].bucket[p]
        BY <2>10, <3>2, <4>3 DEF Rewritten
      <4>5. t.ht[s].bucket[p] = Tombstone
        BY <4>1, <4>3 DEF Counts
      <4> QED BY <4>3, <4>4, <4>5
    <3> QED BY <3>1, <3>2
  <2>16. g.ht_slot_used_cnt = t.ht_slot_used_cnt /\ EverUsed(g) = EverUsed(t)
         /\ EverUsed(g) = {s \in 0 .. g.ht_cap - 1 : g.ht[s].slot_state = "HT_SLOT_INUSE"}
    <3>1. /\ EverUsed(g) = EverUsed(t)
          /\ {s \in 0 .. g.ht_cap - 1 : g.ht[s].slot_state = "HT_SLOT_INUSE"}
                = {s \in 0 .. t.ht_cap - 1 : t.ht[s].slot_state = "HT_SLOT_INUSE"}
      BY <2>10, RewrittenStates
    <3>2. EverUsed(t) = {s \in 0 .. t.ht_cap - 1 : t.ht[s].slot_state = "HT_SLOT_INUSE"}
      BY DEF Counts
    <3> QED BY <2>8, <3>1, <3>2
  <2>17. Counts(g)
    BY <2>14, <2>15, <2>16 DEF Counts
  <2> QED BY <2>17 DEF g
<1> QED BY <1>1, <1>2

(* The counters in the next state. *)
LEMMA CountsOf ==
    ASSUME NEW t, Counts(t)
    PROVE  /\ htObj' = t => Counts(htObj)'
           /\ htNew' = t => Counts(htNew)'
<1>1. ASSUME htObj' = t PROVE Counts(htObj)'
  <2>1. \A state : InState(htObj, state)' = InState(t, state)
    BY <1>1 DEF InState, Positions
  <2>2. EverUsed(htObj)' = EverUsed(t)
    BY <1>1 DEF EverUsed
  <2>3. {s \in 0 .. htObj.ht_cap - 1 : htObj.ht[s].slot_state = "HT_SLOT_INUSE"}'
           = {s \in 0 .. t.ht_cap - 1 : t.ht[s].slot_state = "HT_SLOT_INUSE"}
    BY <1>1
  <2> QED BY <1>1, <2>1, <2>2, <2>3 DEF Counts
<1>2. ASSUME htNew' = t PROVE Counts(htNew)'
  <2>1. \A state : InState(htNew, state)' = InState(t, state)
    BY <1>2 DEF InState, Positions
  <2>2. EverUsed(htNew)' = EverUsed(t)
    BY <1>2 DEF EverUsed
  <2>3. {s \in 0 .. htNew.ht_cap - 1 : htNew.ht[s].slot_state = "HT_SLOT_INUSE"}'
           = {s \in 0 .. t.ht_cap - 1 : t.ht[s].slot_state = "HT_SLOT_INUSE"}
    BY <1>2
  <2> QED BY <1>2, <2>1, <2>2, <2>3 DEF Counts
<1> QED BY <1>1, <1>2

(* Outside a copy only the counters of the caller's table matter. *)
LEMMA CountsOutside ==
    ASSUME NEW t, t # NULL => Counts(t), htObj' = t, pc' # "copy"
    PROVE  CountsAgree'
<1>1. CASE t = NULL
  BY <1>1 DEF CountsAgree
<1>2. CASE t # NULL
  BY <1>2, CountsOf DEF CountsAgree
<1> QED BY <1>1, <1>2

LEMMA CountsInside ==
    ASSUME NEW t, Counts(htObj), htObj' = htObj, Counts(t), t.ht_del_cnt = 0, htNew' = t
    PROVE  CountsAgree'
BY CountsOf DEF CountsAgree

LEMMA CountsStartCopy ==
    ASSUME IndexIInv, CountsAgree, pc = "ready", NEW cap, htObj # NULL => cap \in Nat,
           NEW ok, StartCopy(cap, ok)
    PROVE  CountsAgree'
<1>1. CASE htObj = NULL \/ ~ok
  <2>1. htObj' = htObj /\ pc' # "copy"
    BY <1>1 DEF StartCopy, OnlyReturns
  <2> QED BY <2>1, CountsOutside DEF CountsAgree
<1>2. CASE ~(htObj = NULL \/ ~ok)
  <2>1. htNew' = HTCreate(cap) /\ htObj' = htObj /\ htObj # NULL
    BY <1>2 DEF StartCopy
  <2>2. Counts(HTCreate(cap)) /\ HTCreate(cap).ht_del_cnt = 0
    BY <2>1, CreateCounts
  <2> QED BY <2>1, <2>2, CountsInside DEF CountsAgree
<1> QED BY <1>1, <1>2

LEMMA CountsCopyEntry ==
    ASSUME IndexIInv, CountsAgree, NEW ok \in AllocOutcome, CopyEntry(ok)
    PROVE  CountsAgree'
<1> SUFFICES ASSUME NEW e, e = htObj.ht[i].bucket[j + 1],
                    NEW ins, ins = HTInsert(htNew, e.key_hash, e.entry_id, ok)
             PROVE  CountsAgree'
  OBVIOUS
<1>1. /\ pc = "copy" /\ i < htObj.ht_cap /\ j < Len(htObj.ht[i].bucket)
      /\ ok \in BOOLEAN
  BY DEF CopyEntry, InBucket, AllocOutcome
<1>2. CopyFacts
  BY <1>1, InsideCopy
<1>3. Counts(htObj) /\ Counts(htNew) /\ htNew.ht_del_cnt = 0
  BY <1>1 DEF CountsAgree
<1>4. e.key_hash \in Nat /\ e.entry_id \in Nat \cup {-1}
  <2>1. i \in 0 .. htObj.ht_cap - 1 /\ j + 1 \in DOMAIN htObj.ht[i].bucket
    BY <1>1, <1>2 DEF CopyFacts
  <2>2. e \in HashTableEntry
    BY <1>2, <2>1 DEF CopyFacts
  <2> QED BY <2>2 DEF HashTableEntry
<1>5. Counts(ins.htObj) /\ ins.htObj.ht_del_cnt = 0
  <2>1. Good(htNew)
    BY <1>2 DEF CopyFacts
  <2>2. Counts(ins.htObj) /\ ins.htObj.ht_del_cnt = htNew.ht_del_cnt
    <3>1. \A h \in Nat, id \in Nat \cup {-1} :
             LET r == HTInsert(htNew, h, id, ok)
             IN  Counts(r.htObj) /\ r.htObj.ht_del_cnt = htNew.ht_del_cnt
      BY <1>1, <1>3, <2>1, InsertCounts
    <3> QED BY <1>4, <3>1
  <2> QED BY <1>3, <2>2
<1>6. CASE UNCHANGED <<htObj, htNew>>
  BY <1>3, <1>6, CountsInside
<1>7. CASE htObj' = htObj /\ htNew' = ins.htObj
  BY <1>3, <1>5, <1>7, CountsInside
<1>8. CASE EndCopy(htObj, FALSE)
  BY <1>3, <1>8, CountsOutside DEF EndCopy
<1> QED BY <1>6, <1>7, <1>8 DEF CopyEntry

LEMMA CountsStep == IndexIInv /\ CountsAgree /\ [Next]_vars => CountsAgree'
<1> SUFFICES ASSUME IndexIInv, CountsAgree, [Next]_vars
             PROVE  CountsAgree'
  OBVIOUS
<1>0. /\ htObj # NULL => Good(htObj) /\ Counts(htObj)
      /\ pc = "copy" => /\ Good(htObj) /\ Good(htNew)
                        /\ Counts(htObj) /\ Counts(htNew) /\ htNew.ht_del_cnt = 0
  BY GoodTables DEF CountsAgree
<1>1. CASE HTObject_destroy
  BY <1>1, CountsOutside DEF HTObject_destroy
<1>2. ASSUME NEW cap \in Caps, NEW ok, HTObject_create(cap, ok)
      PROVE  CountsAgree'
  <2>1. pc' # "copy" /\ (htObj' = HTCreate(cap) \/ htObj' = NULL)
    BY <1>2 DEF HTObject_create
  <2>2. Counts(HTCreate(cap))
    BY CreateCounts
  <2> QED BY <2>1, <2>2, CountsOutside
<1>3. ASSUME NEW h \in Hashes, NEW id \in Ids, NEW ok \in AllocOutcome,
             HTObject_insert(h, id, ok)
      PROVE  CountsAgree'
  <2>1. ok \in BOOLEAN /\ h \in Nat /\ id \in Nat /\ pc = "ready"
    BY <1>3 DEF AllocOutcome, HTObject_insert
  <2>2. CASE htObj = NULL
    <3>1. htObj' = htObj /\ pc' # "copy"
      BY <1>3, <2>2 DEF HTObject_insert, OnlyReturns
    <3> QED BY <1>0, <3>1, CountsOutside
  <2>3. CASE htObj # NULL
    <3>1. htObj' = HTInsert(htObj, h, id, ok).htObj /\ pc' # "copy"
      BY <1>3, <2>1, <2>3 DEF HTObject_insert, Applies
    <3>2. Counts(HTInsert(htObj, h, id, ok).htObj)
      BY <1>0, <2>1, <2>3, InsertCounts
    <3> QED BY <3>1, <3>2, CountsOutside
  <2> QED BY <2>2, <2>3
<1>4. ASSUME NEW h \in Hashes, NEW id \in Ids, HTObject_update(h, id)
      PROVE  CountsAgree'
  <2>1. h \in Nat /\ id \in Nat /\ pc = "ready"
    BY <1>4 DEF HTObject_update
  <2>2. CASE htObj = NULL
    <3>1. htObj' = htObj /\ pc' # "copy"
      BY <1>4, <2>2 DEF HTObject_update, OnlyReturns
    <3> QED BY <1>0, <3>1, CountsOutside
  <2>3. CASE htObj # NULL
    <3>1. htObj' = HTUpdate(htObj, h, id).htObj /\ pc' # "copy"
      BY <1>4, <2>1, <2>3 DEF HTObject_update, Applies
    <3>2. Counts(HTUpdate(htObj, h, id).htObj)
      BY <1>0, <2>1, <2>3, UpdateCounts
    <3> QED BY <3>1, <3>2, CountsOutside
  <2> QED BY <2>2, <2>3
<1>5. ASSUME NEW h \in Hashes, NEW id \in Ids, HTObject_delete(h, id)
      PROVE  CountsAgree'
  <2>1. h \in Nat /\ id \in Nat /\ pc = "ready"
    BY <1>5 DEF HTObject_delete
  <2>2. CASE htObj' = htObj /\ pc' # "copy"
    BY <1>0, <2>2, CountsOutside
  <2>3. CASE /\ htObj # NULL /\ htObj.ht_cap > 0
             /\ Applies("delete", HTDelete(htObj, h, id))
    <3>1. htObj' = HTDelete(htObj, h, id).htObj /\ pc' # "copy"
      BY <2>1, <2>3 DEF Applies
    <3>2. Counts(HTDelete(htObj, h, id).htObj)
      BY <1>0, <2>1, <2>3, DeleteCounts
    <3> QED BY <3>1, <3>2, CountsOutside
  <2>4. \/ htObj' = htObj /\ pc' # "copy"
        \/ /\ htObj # NULL /\ htObj.ht_cap > 0
           /\ Applies("delete", HTDelete(htObj, h, id))
    BY <1>5 DEF HTObject_delete, OnlyReturns
  <2> QED BY <2>2, <2>3, <2>4
<1>6. ASSUME NEW cap \in Caps, NEW ok, HTObject_resize(cap, ok)
      PROVE  CountsAgree'
  <2>1. pc = "ready" /\ StartCopy(cap, ok) /\ cap \in Nat
    BY <1>6 DEF HTObject_resize
  <2> QED BY <2>1, CountsStartCopy
<1>7. ASSUME NEW ok, HTObject_compact(ok)
      PROVE  CountsAgree'
  <2> SUFFICES ASSUME NEW cap, cap = IF htObj = NULL THEN 0 ELSE htObj.ht_cap
               PROVE  CountsAgree'
    OBVIOUS
  <2>1. pc = "ready" /\ StartCopy(cap, ok)
    BY <1>7 DEF HTObject_compact
  <2>2. htObj # NULL => cap \in Nat
    BY <1>0, GoodParts
  <2> QED BY <2>1, <2>2, CountsStartCopy
<1>8. CASE CopyNextSlot
  <2>1. pc = "copy" /\ htObj' = htObj /\ htNew' = htNew
    BY <1>8 DEF CopyNextSlot
  <2> QED BY <1>0, <2>1, CountsInside
<1>9. CASE CopyDone
  <2>1. pc = "copy" /\ htObj' = htNew /\ pc' # "copy"
    BY <1>9 DEF CopyDone, EndCopy
  <2> QED BY <1>0, <2>1, CountsOutside
<1>10. CASE UNCHANGED vars
  <2>1. htObj' = htObj /\ htNew' = htNew /\ pc' = pc
    BY <1>10 DEF vars
  <2>2. CASE pc = "copy"
    BY <1>0, <2>1, <2>2, CountsInside
  <2>3. CASE pc # "copy"
    BY <1>0, <2>1, <2>3, CountsOutside
  <2> QED BY <2>2, <2>3
<1> QED BY <1>1, <1>2, <1>3, <1>4, <1>5, <1>6, <1>7, <1>8, <1>9, <1>10, CountsCopyEntry
        DEF Next, CopyStep

(* The counters of every table are exact in every reachable state, for every   *)
(* capacity: ht_del_cnt and ht_entry_cnt never wrap, insert refuses a table as *)
(* full only when every slot was used, and the table that a resize fills has   *)
(* no tombstone.                                                               *)
THEOREM CountsStayExact == Spec => []CountsAgree
<1>1. Init => CountsAgree
  BY DEF Init, CountsAgree
<1> QED BY <1>1, IndexInit, IndexStep, CountsStep, PTL DEF Spec

(* A table without tombstones in which every slot was used has a pair per slot. *)
LEMMA FullHasPairs ==
    ASSUME NEW t, Good(t), Counts(t), t.ht_del_cnt = 0, t.ht_slot_used_cnt >= t.ht_cap,
           NEW s \in 0 .. t.ht_cap - 1
    PROVE  \E pair \in LivePairs(t) : s = pair[1] % t.ht_cap
<1> DEFINE S == 0 .. t.ht_cap - 1
           p == 1
<1>1. EverUsed(t) = S
  <2>1. /\ IsFiniteSet(S) /\ Cardinality(S) = t.ht_cap /\ IsFiniteSet(EverUsed(t))
        /\ EverUsed(t) \in SUBSET S /\ t.ht_cap \in Nat
    BY FinitePositions, GoodParts
  <2>2. Cardinality(EverUsed(t)) >= t.ht_cap
    BY DEF Counts
  <2>3. /\ Cardinality(EverUsed(t)) <= Cardinality(S)
        /\ Cardinality(S) = Cardinality(EverUsed(t)) => S = EverUsed(t)
    <3> HIDE DEF S
    <3> QED BY <2>1, FS_Subset
  <2>4. Cardinality(EverUsed(t)) \in Nat
    BY <2>1, FS_CardinalityType
  <2> HIDE DEF S
  <2> QED BY <2>1, <2>2, <2>3, <2>4
<1>2. /\ t.ht[s].bucket \in Seq(HashTableEntry) /\ t.ht[s].bucket # <<>>
  BY <1>1, GoodParts, SlotParts DEF EverUsed
<1>3. p \in DOMAIN t.ht[s].bucket /\ t.ht[s].bucket[p] \in HashTableEntry
  BY <1>2
<1>4. InState(t, "HT_ENTRY_DELETED") = {}
  <2>1. IsFiniteSet(InState(t, "HT_ENTRY_DELETED"))
    BY FinitePositions
  <2>2. Cardinality(InState(t, "HT_ENTRY_DELETED")) = 0
    BY DEF Counts
  <2> QED BY <2>1, <2>2, FS_EmptySet
<1>5. t.ht[s].bucket[p].state # "HT_ENTRY_DELETED"
  BY <1>3, <1>4, InStateOf
<1>6. InUse(t, s, p)
  BY <1>3, <1>5 DEF InUse, HashTableEntry
<1>7. Pair(t.ht[s].bucket[p]) \in LivePairs(t)
  BY <1>3, <1>6, LivePairsOf
<1>8. s = Pair(t.ht[s].bucket[p])[1] % t.ht_cap
  BY <1>3, <1>6 DEF Good, OwnSlots, Pair
<1> QED BY <1>7, <1>8

(* With allocations that succeed, only a table that the entries in use fill    *)
(* slot by slot makes a resize or compaction fail.                             *)
THEOREM CopyFailsOnlyFull == Spec => CopyFailsOnlyWhenFull
<1> DEFINE FullEnd == pc = "copy" /\ pc' = "ready" /\ ~ret'.ok /\ ~AllocFails =>
                         \A s \in 0 .. htNew.ht_cap - 1 :
                            \E pair \in LivePairs(htObj) : s = pair[1] % htNew.ht_cap
<1>1. IndexIInv /\ CountsAgree /\ [Next]_vars => [FullEnd]_vars
  <2> SUFFICES ASSUME IndexIInv, CountsAgree, Next,
                      pc = "copy", pc' = "ready", ~ret'.ok, ~AllocFails,
                      NEW s \in 0 .. htNew.ht_cap - 1
               PROVE  \E pair \in LivePairs(htObj) : s = pair[1] % htNew.ht_cap
    OBVIOUS
  <2>1. CopyFacts /\ Counts(htNew) /\ htNew.ht_del_cnt = 0
    BY InsideCopy DEF CountsAgree
  <2>2. ~CopyDone
    BY DEF CopyDone, EndCopy, Returns
  <2>3. CopyEntry(TRUE)
    BY <2>2 DEF Next, HTObject_create, HTObject_destroy, HTObject_insert, HTObject_update,
           HTObject_delete, HTObject_resize, HTObject_compact, CopyStep, CopyNextSlot,
           AllocOutcome
  <2> DEFINE e == htObj.ht[i].bucket[j + 1]
             ins == HTInsert(htNew, e.key_hash, e.entry_id, TRUE)
  <2>4. ins.ret < 0
    BY <2>3 DEF CopyEntry
  <2>5. e.key_hash \in Nat /\ e.entry_id \in Nat \cup {-1}
    <3>1. i \in 0 .. htObj.ht_cap - 1 /\ j + 1 \in DOMAIN htObj.ht[i].bucket
      BY <2>1, <2>3 DEF CopyFacts, CopyEntry, InBucket
    <3>2. e \in HashTableEntry
      BY <2>1, <3>1 DEF CopyFacts
    <3> QED BY <3>2 DEF HashTableEntry
  <2>6. htNew.ht_slot_used_cnt >= htNew.ht_cap
    <3> SUFFICES ASSUME ~(htNew.ht_slot_used_cnt >= htNew.ht_cap) PROVE FALSE
      OBVIOUS
    <3>1. ins.ret = e.key_hash % htNew.ht_cap
      BY DEF HTInsert
    <3>2. htNew.ht_cap \in Nat /\ htNew.ht_slot_used_cnt \in Nat
      BY <2>1, GoodParts DEF CopyFacts
    <3> HIDE DEF ins, e
    <3> QED BY <2>4, <2>5, <3>1, <3>2
  <2>7. PICK pair \in LivePairs(htNew) : s = pair[1] % htNew.ht_cap
    BY <2>1, <2>6, FullHasPairs DEF CopyFacts
  <2>8. pair \in LivePairs(htObj)
    <3>1. pair \in PassedPairs
      BY <2>1, <2>7 DEF CopyFacts
    <3> QED BY <3>1, PassedPairsOf, LivePairsOf
  <2> QED BY <2>7, <2>8
<1>2. Init => CountsAgree
  BY DEF Init, CountsAgree
<1> QED BY <1>1, <1>2, IndexInit, IndexStep, CountsStep, PTL DEF Spec, CopyFailsOnlyWhenFull

-----------------------------------------------------------------------------
(* The ids of a bucket, in their order. *)

\* A set of numbers that holds m, and n + 1 whenever it holds n.
LEMMA Onwards ==
    ASSUME NEW m \in Nat, NEW L \in Nat, NEW B, m \in B,
           \A n \in m .. L - 1 : n \in B => n + 1 \in B
    PROVE  m .. L \subseteq B
<1> PICK C : C = (m .. L) \ B
  OBVIOUS
<1>1. SUFFICES ASSUME C # {} PROVE FALSE
  OBVIOUS
<1>2. C \subseteq Nat
  OBVIOUS
<1>3. PICK c \in C : \A x \in C : c <= x
  BY <1>1, <1>2, FirstOfIsLeast
<1>4. c \in m .. L /\ c # m /\ c \notin B
  OBVIOUS
<1>5. c - 1 \in m .. L - 1 /\ c - 1 \in m .. L /\ (c - 1) + 1 = c /\ ~(c <= c - 1)
  BY <1>4
<1>6. c - 1 \in B
  BY <1>3, <1>5
<1> QED BY <1>4, <1>5, <1>6

Id == Nat \cup {-1}

\* The ids after one more entry.
WithEntry(ids, entry, key_hash) ==
    IF UnderHash(entry, key_hash) THEN Append(ids, entry.entry_id) ELSE ids

\* f gives the ids in the first n entries of a bucket, for n up to m.
Collects(f, B, key_hash, m) ==
    f = [n \in 0 .. m |-> IF n = 0 THEN <<>> ELSE WithEntry(f[n - 1], B[n], key_hash)]

\* There are ids of every first n entries, though they are defined by recursion.
LEMMA Collected ==
    ASSUME NEW B, NEW key_hash, NEW L \in Nat
    PROVE  \E f : Collects(f, B, key_hash, L)
<1> DEFINE S == {m \in 0 .. L : \E f : Collects(f, B, key_hash, m)}
<1>1. 0 \in S
  <2>1. Collects([n \in 0 .. 0 |-> <<>>], B, key_hash, 0)
    BY DEF Collects
  <2> QED BY <2>1
<1>2. ASSUME NEW m \in 0 .. L - 1, m \in S PROVE m + 1 \in S
  <2>1. PICK f : Collects(f, B, key_hash, m)
    BY <1>2
  <2> PICK g : g = [n \in 0 .. m + 1 |->
                      IF n = m + 1 THEN WithEntry(f[m], B[m + 1], key_hash) ELSE f[n]]
    OBVIOUS
  <2>2. \A n \in 0 .. m : g[n] = f[n]
    OBVIOUS
  <2>3. ASSUME NEW n \in 0 .. m + 1
        PROVE  g[n] = IF n = 0 THEN <<>> ELSE WithEntry(g[n - 1], B[n], key_hash)
    <3>1. CASE n = m + 1
      <4>1. m \in 0 .. m /\ n # 0 /\ n - 1 = m
        BY <3>1
      <4>2. g[n] = WithEntry(f[m], B[n], key_hash) /\ g[n - 1] = f[m]
        BY <2>2, <3>1, <4>1
      <4> QED BY <4>1, <4>2
    <3>2. CASE n # m + 1
      <4>1. n \in 0 .. m /\ (n # 0 => n - 1 \in 0 .. m)
        BY <3>2
      <4>2. f[n] = IF n = 0 THEN <<>> ELSE WithEntry(f[n - 1], B[n], key_hash)
        BY <2>1, <4>1 DEF Collects
      <4> QED BY <2>2, <4>1, <4>2
    <3> QED BY <3>1, <3>2
  <2>4. g = [n \in 0 .. m + 1 |-> g[n]]
    OBVIOUS
  <2>5. Collects(g, B, key_hash, m + 1)
    BY <2>3, <2>4 DEF Collects
  <2>6. m + 1 \in 0 .. L
    OBVIOUS
  <2> QED BY <2>5, <2>6
<1>3. 0 .. L \subseteq S
  <2> HIDE DEF S
  <2> QED BY <1>1, <1>2, Onwards
<1>4. L \in S
  <2> HIDE DEF S
  <2> QED BY <1>3
<1> QED BY <1>4

\* IdsIn, entry by entry.
LEMMA IdsFacts ==
    ASSUME NEW B \in Seq(HashTableEntry), NEW key_hash
    PROVE  /\ Len(B) \in Nat /\ DOMAIN B = 1 .. Len(B)
           /\ IdsIn(B, key_hash)[0] = <<>>
           /\ \A n \in 0 .. Len(B) - 1 :
                 /\ n + 1 \in 1 .. Len(B) /\ B[n + 1] \in HashTableEntry
                 /\ IdsIn(B, key_hash)[n + 1] =
                       WithEntry(IdsIn(B, key_hash)[n], B[n + 1], key_hash)
           /\ \A n \in 0 .. Len(B) : IdsIn(B, key_hash)[n] \in Seq(Id)
<1> PICK L, ids : L = Len(B) /\ ids = IdsIn(B, key_hash)
  OBVIOUS
<1>1. L \in Nat /\ DOMAIN B = 1 .. L
  OBVIOUS
<1>2. \E f : Collects(f, B, key_hash, L)
  BY <1>1, Collected
<1>3. ids = CHOOSE f : Collects(f, B, key_hash, L)
  BY DEF IdsIn, Collects, WithEntry
<1>4. Collects(ids, B, key_hash, L)
  BY <1>2, <1>3
<1>5. ids[0] = <<>>
  BY <1>1, <1>4 DEF Collects
<1>6. ASSUME NEW n \in 0 .. L - 1
      PROVE  /\ n + 1 \in 1 .. L /\ B[n + 1] \in HashTableEntry
             /\ ids[n + 1] = WithEntry(ids[n], B[n + 1], key_hash)
  <2>1. n + 1 \in 1 .. L /\ n + 1 \in 0 .. L /\ n + 1 # 0 /\ (n + 1) - 1 = n
    BY <1>1
  <2>2. B[n + 1] \in HashTableEntry
    BY <2>1
  <2>3. ids[n + 1] = WithEntry(ids[(n + 1) - 1], B[n + 1], key_hash)
    BY <1>4, <2>1 DEF Collects
  <2> QED BY <2>1, <2>2, <2>3
<1>7. \A n \in 0 .. L : ids[n] \in Seq(Id)
  <2> DEFINE S == {n \in 0 .. L : ids[n] \in Seq(Id)}
  <2>1. 0 \in S
    <3>1. <<>> \in Seq(Id)
      OBVIOUS
    <3>2. 0 \in 0 .. L
      BY <1>1
    <3>3. ids[0] \in Seq(Id)
      BY <1>5, <3>1
    <3> QED BY <3>2, <3>3
  <2>2. ASSUME NEW n \in 0 .. L - 1, n \in S PROVE n + 1 \in S
    <3>1. B[n + 1].entry_id \in Id
      BY <1>6 DEF HashTableEntry, Id
    <3>2. ids[n + 1] \in Seq(Id)
      <4>1. ids[n] \in Seq(Id)
        BY <2>2
      <4>2. Append(ids[n], B[n + 1].entry_id) \in Seq(Id)
        BY <3>1, <4>1, AppendProperties
      <4>3. WithEntry(ids[n], B[n + 1], key_hash) \in Seq(Id)
        BY <4>1, <4>2 DEF WithEntry
      <4> QED BY <1>6, <4>3
    <3> QED BY <1>1, <3>2
  <2>3. 0 .. L \subseteq S
    <3> HIDE DEF S
    <3> QED BY <1>1, <2>1, <2>2, Onwards
  <2> QED BY <2>3
<1> QED BY <1>1, <1>5, <1>6, <1>7

\* Two buckets with the same ids in the first m entries, and the same entries
\* under the hash from there to L, have the same ids in all of these.
LEMMA IdsAgree ==
    ASSUME NEW B \in Seq(HashTableEntry), NEW C \in Seq(HashTableEntry), NEW key_hash,
           NEW m \in Nat, NEW L \in Nat, m <= L, L <= Len(B), L <= Len(C),
           IdsIn(B, key_hash)[m] = IdsIn(C, key_hash)[m],
           \A n \in m + 1 .. L : /\ UnderHash(B[n], key_hash) <=> UnderHash(C[n], key_hash)
                                 /\ UnderHash(B[n], key_hash) => B[n].entry_id = C[n].entry_id
    PROVE  IdsIn(B, key_hash)[L] = IdsIn(C, key_hash)[L]
<1> PICK f, g : f = IdsIn(B, key_hash) /\ g = IdsIn(C, key_hash)
  OBVIOUS
<1> DEFINE S == {n \in m .. L : f[n] = g[n]}
<1>1. m \in S
  OBVIOUS
<1>2. ASSUME NEW n \in m .. L - 1, n \in S PROVE n + 1 \in S
  <2>1. n \in 0 .. Len(B) - 1 /\ n \in 0 .. Len(C) - 1 /\ n + 1 \in m + 1 .. L /\ n + 1 \in m .. L
    <3>1. Len(B) \in Nat /\ Len(C) \in Nat
      OBVIOUS
    <3> QED BY <3>1
  <2>2. f[n + 1] = WithEntry(f[n], B[n + 1], key_hash)
    BY <2>1, IdsFacts
  <2>3. g[n + 1] = WithEntry(g[n], C[n + 1], key_hash)
    BY <2>1, IdsFacts
  <2>4. f[n] = g[n]
    BY <1>2
  <2>5. WithEntry(f[n], B[n + 1], key_hash) = WithEntry(f[n], C[n + 1], key_hash)
    BY <2>1 DEF WithEntry
  <2> QED BY <2>1, <2>2, <2>3, <2>4, <2>5
<1>3. m .. L \subseteq S
  <2> HIDE DEF S
  <2> QED BY <1>1, <1>2, Onwards
<1>4. L \in S
  <2> HIDE DEF S
  <2> QED BY <1>3
<1> QED BY <1>4
-----------------------------------------------------------------------------
(* Removing the first occurrence from a sequence. *)

\* Where the elements of the second of two sequences are in their concatenation.
LEMMA ConcatBehind ==
    ASSUME NEW T, NEW s \in Seq(T), NEW u \in Seq(T), NEW x \in 1 .. Len(u)
    PROVE  (s \o u)[Len(s) + x] = u[x]
OBVIOUS

\* The first e of s is at k; r is s without what is at k.
FirstAt(s, e, k) == k \in 1 .. Len(s) /\ s[k] = e /\ \A m \in 1 .. k - 1 : s[m] # e

Without(T, s, k, r) ==
    /\ r \in Seq(T) /\ Len(r) = Len(s) - 1
    /\ \A m \in 1 .. Len(s) - 1 : r[m] = IF m < k THEN s[m] ELSE s[m + 1]

\* What is before and what is behind a place, joined, is the sequence without it.
LEMMA Rejoined ==
    ASSUME NEW T, NEW s \in Seq(T), NEW k \in 1 .. Len(s), NEW a \in Seq(T), NEW b \in Seq(T),
           Len(a) = k - 1, \A m \in 1 .. k - 1 : a[m] = s[m],
           Len(b) = Len(s) - k, \A m \in 1 .. Len(s) - k : b[m] = s[k + m]
    PROVE  Without(T, s, k, a \o b)
<1> PICK r, L : r = a \o b /\ L = Len(s)
  OBVIOUS
<1>1. L \in Nat /\ k \in 1 .. L
  OBVIOUS
<1>6. r \in Seq(T) /\ Len(r) = L - 1
  <2>1. Len(r) = Len(a) + Len(b) /\ r \in Seq(T)
    BY ConcatProperties
  <2>2. (k - 1) + (L - k) = L - 1
    BY <1>1
  <2> QED BY <2>1, <2>2
<1>7. ASSUME NEW m \in 1 .. L - 1
      PROVE  r[m] = IF m < k THEN s[m] ELSE s[m + 1]
  <2>1. CASE m < k
    <3>1. m \in 1 .. k - 1
      BY <1>1, <2>1
    <3>2. r[m] = a[m]
      BY <3>1
    <3> QED BY <2>1, <3>1, <3>2
  <2>2. CASE ~(m < k)
    <3> PICK x : x = m - (k - 1)
      OBVIOUS
    <3>1. x \in 1 .. L - k /\ k + x = m + 1 /\ m = (k - 1) + x
      BY <1>1, <2>2
    <3>2. r[m] = b[x]
      BY <3>1, ConcatBehind
    <3>3. b[x] = s[k + x]
      BY <3>1
    <3> QED BY <2>2, <3>1, <3>2, <3>3
  <2> QED BY <2>1, <2>2
<1> QED BY <1>6, <1>7 DEF Without

\* Removing the first of an element is removing at its place.
LEMMA RemovesAt ==
    ASSUME NEW T, NEW s \in Seq(T), NEW e, NEW k, FirstAt(s, e, k)
    PROVE  Without(T, s, k, Multimap!RemoveFirst(s, e))
<1> USE DEF FirstAt
<1> PICK L : L = Len(s)
  OBVIOUS
<1> DEFINE I == {m \in 1 .. L : s[m] = e}
<1>1. L \in Nat /\ k \in 1 .. L
  OBVIOUS
<1>2. k \in I /\ \A m \in I : k <= m
  <2>1. k \in I
    BY <1>1
  <2>2. ASSUME NEW m \in I PROVE k <= m
    <3>1. m \notin 1 .. k - 1 /\ m \in 1 .. L
      OBVIOUS
    <3> QED BY <1>1, <3>1
  <2> QED BY <2>1, <2>2
<1>3. Multimap!Min(I) = k
  <2>1. \A x \in I : (\A m \in I : x <= m) => x = k
    BY <1>1, <1>2
  <2> HIDE DEF I
  <2> QED BY <1>2, <2>1 DEF Multimap!Min
<1>4. Multimap!RemoveFirst(s, e) = SubSeq(s, 1, k - 1) \o SubSeq(s, k + 1, L)
  <2>1. Multimap!SelectInSeq(s, LAMBDA v : v = e) = k
    BY <1>2, <1>3 DEF Multimap!SelectInSeq
  <2> QED BY <2>1 DEF Multimap!RemoveFirst, Multimap!RemoveAt
<1> PICK a, b : a = SubSeq(s, 1, k - 1) /\ b = SubSeq(s, k + 1, L)
  OBVIOUS
<1>5. /\ a \in Seq(T) /\ Len(a) = k - 1 /\ \A m \in 1 .. k - 1 : a[m] = s[m]
      /\ b \in Seq(T) /\ Len(b) = L - k /\ \A m \in 1 .. L - k : b[m] = s[k + m]
  BY <1>1
<1>6. Without(T, s, k, a \o b)
  BY <1>1, <1>5, Rejoined
<1> QED BY <1>4, <1>6

\* The first of the elements e of a sequence.
LEMMA FirstOccurrence ==
    ASSUME NEW T, NEW s \in Seq(T), NEW e, NEW j0 \in 1 .. Len(s), s[j0] = e
    PROVE  \E k : FirstAt(s, e, k)
<1> PICK I : I = {m \in 1 .. Len(s) : s[m] = e}
  OBVIOUS
<1>1. I \subseteq Nat /\ I # {}
  OBVIOUS
<1>2. PICK k \in I : \A m \in I : k <= m
  <2>1. FirstOf(I) \in I /\ \A m \in I : FirstOf(I) <= m
    BY <1>1, FirstOfIsLeast
  <2> QED BY <2>1
<1>3. ASSUME NEW m \in 1 .. k - 1 PROVE s[m] # e
  <2>1. m \in 1 .. Len(s) /\ ~(k <= m)
    <3>1. Len(s) \in Nat /\ k \in 1 .. Len(s)
      OBVIOUS
    <3> QED BY <3>1
  <2> QED BY <1>2, <2>1
<1> QED BY <1>3 DEF FirstAt

\* The last element is removed if it is the only one of its kind.
LEMMA RemovesLast ==
    ASSUME NEW T, NEW s \in Seq(T), NEW e \in T, \A m \in 1 .. Len(s) : s[m] # e
    PROVE  Multimap!RemoveFirst(Append(s, e), e) = s
<1> PICK L, a : L = Len(s) /\ a = Append(s, e)
  OBVIOUS
<1>1. /\ L \in Nat /\ a \in Seq(T) /\ Len(a) = L + 1 /\ a[L + 1] = e
      /\ \A m \in 1 .. L : a[m] = s[m]
  OBVIOUS
<1>2. FirstAt(a, e, L + 1)
  <2>1. L + 1 \in 1 .. Len(a) /\ (L + 1) - 1 = L
    BY <1>1
  <2> QED BY <1>1, <2>1 DEF FirstAt
<1> PICK r : r = Multimap!RemoveFirst(a, e)
  OBVIOUS
<1>3. Without(T, a, L + 1, r)
  BY <1>1, <1>2, RemovesAt
<1>4. r \in Seq(T) /\ Len(r) = L /\ \A m \in 1 .. L : r[m] = s[m]
  BY <1>1, <1>3 DEF Without
<1>5. r = s
  BY <1>4, SeqEqual
<1> QED BY <1>5

\* What is appended behind stays behind.
LEMMA RemovesBefore ==
    ASSUME NEW T, NEW s \in Seq(T), NEW e, NEW x \in T, \E m \in 1 .. Len(s) : s[m] = e
    PROVE  Multimap!RemoveFirst(Append(s, x), e) = Append(Multimap!RemoveFirst(s, e), x)
<1> PICK L, a : L = Len(s) /\ a = Append(s, x)
  OBVIOUS
<1>1. /\ L \in Nat /\ a \in Seq(T) /\ Len(a) = L + 1 /\ a[L + 1] = x
      /\ \A m \in 1 .. L : a[m] = s[m]
  OBVIOUS
<1>2. PICK k : FirstAt(s, e, k)
  BY FirstOccurrence
<1>3. k \in 1 .. L /\ FirstAt(a, e, k)
  BY <1>1, <1>2 DEF FirstAt
<1> PICK r, q : r = Multimap!RemoveFirst(a, e) /\ q = Multimap!RemoveFirst(s, e)
  OBVIOUS
<1>4. /\ r \in Seq(T) /\ Len(r) = Len(a) - 1
      /\ \A m \in 1 .. Len(a) - 1 : r[m] = IF m < k THEN a[m] ELSE a[m + 1]
  <2>1. Without(T, a, k, r)
    BY <1>1, <1>3, RemovesAt
  <2> QED BY <2>1 DEF Without
<1>5. /\ q \in Seq(T) /\ Len(q) = L - 1
      /\ \A m \in 1 .. L - 1 : q[m] = IF m < k THEN s[m] ELSE s[m + 1]
  <2>1. Without(T, s, k, q)
    BY <1>2, RemovesAt
  <2> QED BY <2>1 DEF Without
<1> PICK z : z = Append(q, x)
  OBVIOUS
<1>6. /\ z \in Seq(T) /\ Len(z) = L /\ z[L] = x /\ \A m \in 1 .. L - 1 : z[m] = q[m]
  BY <1>1, <1>5
<1>7. ASSUME NEW m \in 1 .. L PROVE r[m] = z[m]
  <2>1. CASE m = L
    <3>1. m \in 1 .. Len(a) - 1 /\ ~(m < k) /\ m + 1 = L + 1
      BY <1>1, <1>3, <2>1
    <3> QED BY <1>1, <1>4, <1>6, <2>1, <3>1
  <2>2. CASE m # L
    <3>1. m \in 1 .. Len(a) - 1 /\ m \in 1 .. L - 1 /\ m + 1 \in 1 .. L /\ m \in 1 .. L
      BY <1>1, <2>2
    <3> QED BY <1>1, <1>4, <1>5, <1>6, <3>1
  <2> QED BY <2>1, <2>2
<1>8. Len(r) = L
  BY <1>1, <1>4
<1>9. r = z
  <2>1. Len(z) = L /\ Len(r) = Len(z) /\ \A m \in 1 .. Len(r) : r[m] = z[m]
    BY <1>6, <1>7, <1>8
  <2> QED BY <1>4, <1>6, <2>1, SeqEqual
<1> QED BY <1>9
-----------------------------------------------------------------------------
(* What the operations do to the ids of a bucket. *)

Whole(B, key_hash) == IdsIn(B, key_hash)[Len(B)]

\* No id under the hash among entries without it, none at all among entries of others.
LEMMA NotAmong ==
    ASSUME NEW B \in Seq(HashTableEntry), NEW key_hash, NEW id, NEW L \in 0 .. Len(B),
           \A p \in 1 .. L : UnderHash(B[p], key_hash) => B[p].entry_id # id
    PROVE  \A m \in 1 .. Len(IdsIn(B, key_hash)[L]) : IdsIn(B, key_hash)[L][m] # id
<1> PICK f : f = IdsIn(B, key_hash)
  OBVIOUS
<1> DEFINE S == {n \in 0 .. L : \A m \in 1 .. Len(f[n]) : f[n][m] # id}
<1>1. L \in Nat
  OBVIOUS
<1>2. 0 \in S
  <2>1. f[0] = <<>>
    BY IdsFacts
  <2>2. 1 .. Len(f[0]) = {}
    BY <2>1
  <2> QED BY <1>1, <2>2
<1>3. ASSUME NEW n \in 0 .. L - 1, n \in S PROVE n + 1 \in S
  <2>1. n \in 0 .. Len(B) - 1 /\ n + 1 \in 1 .. L /\ n + 1 \in 0 .. L /\ n \in 0 .. Len(B)
    OBVIOUS
  <2>2. /\ f[n + 1] = WithEntry(f[n], B[n + 1], key_hash) /\ f[n] \in Seq(Id)
        /\ B[n + 1].entry_id \in Id
    BY <2>1, IdsFacts DEF HashTableEntry, Id
  <2>3. CASE UnderHash(B[n + 1], key_hash)
    <3>1. PICK x, u : x = B[n + 1].entry_id /\ u = f[n]
      OBVIOUS
    <3>2. f[n + 1] = Append(u, x) /\ u \in Seq(Id) /\ x \in Id /\ x # id
      BY <2>1, <2>2, <2>3, <3>1 DEF WithEntry
    <3>3. \A m \in 1 .. Len(u) : u[m] # id
      BY <1>3, <3>1
    <3>4. \A m \in 1 .. Len(Append(u, x)) : Append(u, x)[m] # id
      <4>1. /\ Len(u) \in Nat /\ Len(Append(u, x)) = Len(u) + 1
            /\ \A m \in 1 .. Len(u) : Append(u, x)[m] = u[m]
            /\ Append(u, x)[Len(u) + 1] = x
        BY <3>2, AppendProperties
      <4>2. \A m \in 1 .. Len(u) + 1 : m \in 1 .. Len(u) \/ m = Len(u) + 1
        BY <4>1
      <4> QED BY <3>2, <3>3, <4>1, <4>2
    <3> QED BY <2>1, <3>2, <3>4
  <2>4. CASE ~UnderHash(B[n + 1], key_hash)
    <3>1. f[n + 1] = f[n]
      BY <2>2, <2>4 DEF WithEntry
    <3> QED BY <1>3, <2>1, <3>1
  <2> QED BY <2>3, <2>4
<1>4. 0 .. L \subseteq S
  <2> HIDE DEF S
  <2> QED BY <1>1, <1>2, <1>3, Onwards
<1>5. L \in S
  <2> HIDE DEF S
  <2> QED BY <1>1, <1>4
<1> QED BY <1>5

\* A bucket with no entry under a hash has no ids for it.
LEMMA NoneUnder ==
    ASSUME NEW B \in Seq(HashTableEntry), NEW key_hash, NEW L \in 0 .. Len(B),
           \A p \in 1 .. L : ~UnderHash(B[p], key_hash)
    PROVE  IdsIn(B, key_hash)[L] = <<>>
<1> PICK f : f = IdsIn(B, key_hash)
  OBVIOUS
<1> DEFINE S == {n \in 0 .. L : f[n] = <<>>}
<1>1. L \in Nat
  OBVIOUS
<1>2. 0 \in S
  <2>1. f[0] = <<>>
    BY IdsFacts
  <2> QED BY <1>1, <2>1
<1>3. ASSUME NEW n \in 0 .. L - 1, n \in S PROVE n + 1 \in S
  <2>1. n \in 0 .. Len(B) - 1 /\ n + 1 \in 1 .. L /\ n + 1 \in 0 .. L
    OBVIOUS
  <2>2. f[n + 1] = WithEntry(f[n], B[n + 1], key_hash)
    BY <2>1, IdsFacts
  <2>3. f[n + 1] = f[n]
    BY <2>1, <2>2 DEF WithEntry
  <2> QED BY <1>3, <2>1, <2>3
<1>4. 0 .. L \subseteq S
  <2> HIDE DEF S
  <2> QED BY <1>1, <1>2, <1>3, Onwards
<1>5. L \in S
  <2> HIDE DEF S
  <2> QED BY <1>1, <1>4
<1> QED BY <1>5

\* C is bucket B and e behind it.
Adds(B, e, C) ==
    /\ B \in Seq(HashTableEntry) /\ C \in Seq(HashTableEntry) /\ Len(C) = Len(B) + 1
    /\ C[Len(B) + 1] = e
    /\ \A n \in 1 .. Len(B) : C[n] = B[n]

\* An insertion puts the id behind the others of its hash.
LEMMA AppendIds ==
    ASSUME NEW B, NEW e, NEW C, Adds(B, e, C), NEW key_hash
    PROVE  Whole(C, key_hash) = WithEntry(Whole(B, key_hash), e, key_hash)
<1> PICK L : L = Len(B)
  OBVIOUS
<1>1. /\ B \in Seq(HashTableEntry) /\ C \in Seq(HashTableEntry) /\ L \in Nat /\ Len(C) = L + 1
      /\ C[L + 1] = e /\ \A n \in 1 .. L : C[n] = B[n]
  BY DEF Adds
<1>2. IdsIn(B, key_hash)[0] = IdsIn(C, key_hash)[0]
  BY <1>1, IdsFacts
<1>3. IdsIn(B, key_hash)[L] = IdsIn(C, key_hash)[L]
  <2>1. 0 \in Nat /\ 0 <= L /\ L <= Len(B) /\ L <= Len(C)
    BY <1>1
  <2>2. \A n \in 0 + 1 .. L : /\ UnderHash(B[n], key_hash) <=> UnderHash(C[n], key_hash)
                              /\ UnderHash(B[n], key_hash) => B[n].entry_id = C[n].entry_id
    BY <1>1
  <2> QED BY <1>1, <1>2, <2>1, <2>2, IdsAgree
<1>4. IdsIn(C, key_hash)[L + 1] = WithEntry(IdsIn(C, key_hash)[L], C[L + 1], key_hash)
  <2>1. L \in 0 .. Len(C) - 1
    BY <1>1
  <2> QED BY <1>1, <2>1, IdsFacts
<1> QED BY <1>1, <1>3, <1>4 DEF Whole

\* C is bucket B with e at position q.
Sets(B, q, e, C) ==
    /\ B \in Seq(HashTableEntry) /\ C \in Seq(HashTableEntry) /\ Len(C) = Len(B)
    /\ q \in 1 .. Len(B) /\ C[q] = e
    /\ \A p \in 1 .. Len(B) : p # q => C[p] = B[p]

\* An entry that was and is not under a hash does not matter to it.
LEMMA OtherIds ==
    ASSUME NEW B, NEW q, NEW e, NEW C, Sets(B, q, e, C), NEW key_hash,
           ~UnderHash(B[q], key_hash), ~UnderHash(e, key_hash)
    PROVE  Whole(C, key_hash) = Whole(B, key_hash)
<1> PICK L : L = Len(B)
  OBVIOUS
<1>1. /\ B \in Seq(HashTableEntry) /\ C \in Seq(HashTableEntry) /\ Len(C) = L /\ L \in Nat
  BY DEF Sets
<1>2. IdsIn(B, key_hash)[0] = IdsIn(C, key_hash)[0]
  BY <1>1, IdsFacts
<1>3. \A n \in 0 + 1 .. L : /\ UnderHash(B[n], key_hash) <=> UnderHash(C[n], key_hash)
                            /\ UnderHash(B[n], key_hash) => B[n].entry_id = C[n].entry_id
  BY <1>1 DEF Sets
<1>4. IdsIn(B, key_hash)[L] = IdsIn(C, key_hash)[L]
  <2>1. 0 \in Nat /\ 0 <= L /\ L <= Len(B) /\ L <= Len(C)
    BY <1>1
  <2> QED BY <1>1, <1>2, <1>3, <2>1, IdsAgree
<1> QED BY <1>1, <1>4 DEF Whole

\* Before position q nothing has changed.
LEMMA SameBefore ==
    ASSUME NEW B, NEW q, NEW e, NEW C, Sets(B, q, e, C), NEW key_hash
    PROVE  IdsIn(C, key_hash)[q - 1] = IdsIn(B, key_hash)[q - 1]
<1> PICK L : L = q - 1
  OBVIOUS
<1>1. /\ B \in Seq(HashTableEntry) /\ C \in Seq(HashTableEntry) /\ L \in Nat
      /\ 0 \in Nat /\ 0 <= L /\ L <= Len(B) /\ L <= Len(C)
  <2>1. /\ B \in Seq(HashTableEntry) /\ C \in Seq(HashTableEntry) /\ Len(C) = Len(B)
        /\ q \in 1 .. Len(B) /\ Len(B) \in Nat
    BY DEF Sets
  <2> QED BY <2>1
<1>2. IdsIn(B, key_hash)[0] = IdsIn(C, key_hash)[0]
  BY <1>1, IdsFacts
<1>3. \A n \in 0 + 1 .. L : n \in 1 .. Len(B) /\ n # q
  BY <1>1
<1>4. \A n \in 0 + 1 .. L : C[n] = B[n]
  BY <1>3 DEF Sets
<1>5. \A n \in 0 + 1 .. L : /\ UnderHash(B[n], key_hash) <=> UnderHash(C[n], key_hash)
                            /\ UnderHash(B[n], key_hash) => B[n].entry_id = C[n].entry_id
  BY <1>4
<1>6. IdsIn(B, key_hash)[L] = IdsIn(C, key_hash)[L]
  BY <1>1, <1>2, <1>5, IdsAgree
<1> QED BY <1>6

\* From position q on: what holds before it is kept by every entry after it.
LEMMA NextIds ==
    ASSUME NEW B \in Seq(HashTableEntry), NEW key_hash, NEW n \in 1 .. Len(B)
    PROVE  /\ IdsIn(B, key_hash)[n] = WithEntry(IdsIn(B, key_hash)[n - 1], B[n], key_hash)
           /\ IdsIn(B, key_hash)[n - 1] \in Seq(Id) /\ IdsIn(B, key_hash)[n] \in Seq(Id)
           /\ B[n] \in HashTableEntry /\ B[n].entry_id \in Id
<1>1. /\ n - 1 \in 0 .. Len(B) - 1 /\ n - 1 \in 0 .. Len(B) /\ n \in 0 .. Len(B)
      /\ (n - 1) + 1 = n
  OBVIOUS
<1>2. B[n] \in HashTableEntry
  OBVIOUS
<1>3. B[n].entry_id \in Id
  BY <1>2 DEF HashTableEntry, Id
<1>4. /\ IdsIn(B, key_hash)[(n - 1) + 1]
            = WithEntry(IdsIn(B, key_hash)[n - 1], B[(n - 1) + 1], key_hash)
      /\ IdsIn(B, key_hash)[n - 1] \in Seq(Id) /\ IdsIn(B, key_hash)[n] \in Seq(Id)
  BY <1>1, IdsFacts
<1> QED BY <1>1, <1>2, <1>3, <1>4

\* q is where delete finds the entry it removes.
Found(B, q, key_hash, id) ==
    /\ UnderHash(B[q], key_hash) /\ B[q].entry_id = id
    /\ \A p \in 1 .. q - 1 : UnderHash(B[p], key_hash) => B[p].entry_id # id

Removes(s, id, r) ==
    (\E m \in 1 .. Len(s) : s[m] = id) /\ r = Multimap!RemoveFirst(s, id)

\* The entries behind a deleted one leave the id removed.
LEMMA RemovesStill ==
    ASSUME NEW s \in Seq(Id), NEW id, NEW r, Removes(s, id, r), NEW entry, entry.entry_id \in Id,
           NEW key_hash
    PROVE  Removes(WithEntry(s, entry, key_hash), id, WithEntry(r, entry, key_hash))
<1>1. (\E m \in 1 .. Len(s) : s[m] = id) /\ r = Multimap!RemoveFirst(s, id)
  BY DEF Removes
<1>2. CASE UnderHash(entry, key_hash)
  <2>1. /\ WithEntry(s, entry, key_hash) = Append(s, entry.entry_id)
        /\ WithEntry(r, entry, key_hash) = Append(r, entry.entry_id)
    BY <1>2 DEF WithEntry
  <2>2. Multimap!RemoveFirst(Append(s, entry.entry_id), id)
          = Append(Multimap!RemoveFirst(s, id), entry.entry_id)
    BY <1>1, RemovesBefore
  <2>3. \E m \in 1 .. Len(Append(s, entry.entry_id)) : Append(s, entry.entry_id)[m] = id
    <3>1. PICK m \in 1 .. Len(s) : s[m] = id
      BY <1>1
    <3>2. m \in 1 .. Len(Append(s, entry.entry_id)) /\ Append(s, entry.entry_id)[m] = s[m]
      OBVIOUS
    <3> QED BY <3>1, <3>2
  <2> QED BY <1>1, <2>1, <2>2, <2>3 DEF Removes
<1>3. CASE ~UnderHash(entry, key_hash)
  BY <1>3 DEF WithEntry
<1> QED BY <1>2, <1>3

Excludes(s, id) == \A m \in 1 .. Len(s) : s[m] # id

\* The entry delete finds is the first with its id.
LEMMA NotBefore ==
    ASSUME NEW B \in Seq(HashTableEntry), NEW key_hash, NEW id, NEW q \in 1 .. Len(B),
           Found(B, q, key_hash, id)
    PROVE  Excludes(IdsIn(B, key_hash)[q - 1], id)
<1>1. q - 1 \in 0 .. Len(B)
  OBVIOUS
<1>2. \A p \in 1 .. q - 1 : UnderHash(B[p], key_hash) => B[p].entry_id # id
  BY DEF Found
<1>3. \A m \in 1 .. Len(IdsIn(B, key_hash)[q - 1]) : IdsIn(B, key_hash)[q - 1][m] # id
  BY <1>1, <1>2, NotAmong
<1> QED BY <1>3 DEF Excludes

\* A deletion takes the first id of that value out of the ids of the hash.
LEMMA DeleteIds ==
    ASSUME NEW B, NEW q, NEW C, Sets(B, q, Tombstone, C), NEW key_hash, NEW id,
           Found(B, q, key_hash, id)
    PROVE  Removes(Whole(B, key_hash), id, Whole(C, key_hash))
<1> PICK L : L = Len(B)
  OBVIOUS
<1>1. /\ B \in Seq(HashTableEntry) /\ C \in Seq(HashTableEntry) /\ Len(C) = L /\ L \in Nat
      /\ q \in 1 .. L /\ C[q] = Tombstone /\ \A p \in 1 .. L : p # q => C[p] = B[p]
  BY DEF Sets
<1>0. /\ UnderHash(B[q], key_hash) /\ B[q].entry_id = id
      /\ \A p \in 1 .. q - 1 : UnderHash(B[p], key_hash) => B[p].entry_id # id
  BY DEF Found
<1> DEFINE S == {n \in q .. L : Removes(IdsIn(B, key_hash)[n], id, IdsIn(C, key_hash)[n])}
<1>2. q \in S
  <2>1. /\ IdsIn(B, key_hash)[q] = WithEntry(IdsIn(B, key_hash)[q - 1], B[q], key_hash)
        /\ IdsIn(B, key_hash)[q - 1] \in Seq(Id) /\ B[q].entry_id \in Id
    BY <1>1, NextIds
  <2>2. IdsIn(C, key_hash)[q] = WithEntry(IdsIn(C, key_hash)[q - 1], C[q], key_hash)
    BY <1>1, NextIds
  <2>3. IdsIn(C, key_hash)[q] = IdsIn(C, key_hash)[q - 1]
    BY <1>1, <2>2 DEF WithEntry, UnderHash, Tombstone
  <2>4. IdsIn(C, key_hash)[q - 1] = IdsIn(B, key_hash)[q - 1]
    BY SameBefore
  <2>5. Excludes(IdsIn(B, key_hash)[q - 1], id)
    BY <1>1, NotBefore
  <2> PICK s : s = IdsIn(B, key_hash)[q - 1]
    OBVIOUS
  <2>6. s \in Seq(Id) /\ id \in Id /\ IdsIn(B, key_hash)[q] = Append(s, id)
    BY <1>0, <2>1 DEF WithEntry
  <2>7. \A m \in 1 .. Len(s) : s[m] # id
    BY <2>5 DEF Excludes
  <2>8. Multimap!RemoveFirst(Append(s, id), id) = s
    BY <2>6, <2>7, RemovesLast
  <2>9. Len(s) + 1 \in 1 .. Len(Append(s, id)) /\ Append(s, id)[Len(s) + 1] = id
    BY <2>6
  <2>10. Removes(Append(s, id), id, s)
    BY <2>8, <2>9 DEF Removes
  <2>11. q \in q .. L
    BY <1>1
  <2> QED BY <2>3, <2>4, <2>6, <2>10, <2>11
<1>3. ASSUME NEW n \in q .. L - 1, n \in S PROVE n + 1 \in S
  <2>1. n + 1 \in 1 .. L /\ n + 1 \in q .. L /\ n + 1 # q /\ (n + 1) - 1 = n
    BY <1>1
  <2>2. /\ IdsIn(B, key_hash)[n + 1]
              = WithEntry(IdsIn(B, key_hash)[(n + 1) - 1], B[n + 1], key_hash)
        /\ IdsIn(B, key_hash)[(n + 1) - 1] \in Seq(Id) /\ B[n + 1].entry_id \in Id
    BY <1>1, <2>1, NextIds
  <2>3. IdsIn(C, key_hash)[n + 1] = WithEntry(IdsIn(C, key_hash)[(n + 1) - 1], C[n + 1], key_hash)
    BY <1>1, <2>1, NextIds
  <2>4. C[n + 1] = B[n + 1]
    BY <1>1, <2>1
  <2>5. Removes(IdsIn(B, key_hash)[n], id, IdsIn(C, key_hash)[n])
    BY <1>3
  <2>6. Removes(WithEntry(IdsIn(B, key_hash)[n], B[n + 1], key_hash), id,
                WithEntry(IdsIn(C, key_hash)[n], B[n + 1], key_hash))
    BY <2>1, <2>2, <2>5, RemovesStill
  <2> QED BY <2>1, <2>2, <2>3, <2>4, <2>6
<1>4. q .. L \subseteq S
  <2>1. q \in Nat
    BY <1>1
  <2> HIDE DEF S
  <2> QED BY <1>1, <1>2, <1>3, <2>1, Onwards
<1>5. L \in S
  <2>1. L \in q .. L
    BY <1>1
  <2> HIDE DEF S
  <2> QED BY <1>4, <2>1
<1>6. Removes(IdsIn(B, key_hash)[L], id, IdsIn(C, key_hash)[L])
  BY <1>5
<1> QED BY <1>1, <1>6 DEF Whole

\* Replacing the first element leaves the others.
LEMMA FirstSet ==
    ASSUME NEW s \in Seq(Id), NEW id \in Id, Len(s) >= 1
    PROVE  /\ [s EXCEPT ![1] = id] \in Seq(Id) /\ Len([s EXCEPT ![1] = id]) = Len(s)
           /\ \A m \in 1 .. Len(s) : [s EXCEPT ![1] = id][m] = IF m = 1 THEN id ELSE s[m]
OBVIOUS

\* u is s and x behind it, c is that with id for the first.
Behind(s, x, u) == /\ u \in Seq(Id) /\ Len(u) = Len(s) + 1 /\ u[Len(s) + 1] = x
                   /\ \A m \in 1 .. Len(s) : u[m] = s[m]

LEMMA SameReplaced ==
    ASSUME NEW s \in Seq(Id), Len(s) >= 1, NEW id \in Id, NEW x \in Id,
           NEW r \in Seq(Id), Len(r) = Len(s),
           \A m \in 1 .. Len(s) : r[m] = IF m = 1 THEN id ELSE s[m],
           NEW u, Behind(s, x, u), NEW c, Behind(r, x, c)
    PROVE  [u EXCEPT ![1] = id] = c
<1>1. Len(s) \in Nat /\ u \in Seq(Id) /\ Len(u) >= 1
  BY DEF Behind
<1>2. /\ [u EXCEPT ![1] = id] \in Seq(Id) /\ Len([u EXCEPT ![1] = id]) = Len(u)
      /\ \A m \in 1 .. Len(u) : [u EXCEPT ![1] = id][m] = IF m = 1 THEN id ELSE u[m]
  BY <1>1, FirstSet
<1>3. ASSUME NEW m \in 1 .. Len(u) PROVE [u EXCEPT ![1] = id][m] = c[m]
  <2>1. m \in 1 .. Len(s) \/ (m = Len(s) + 1 /\ m # 1)
    BY <1>1 DEF Behind
  <2> QED BY <1>2, <2>1 DEF Behind
<1>4. c \in Seq(Id) /\ Len(c) = Len(u)
  BY DEF Behind
<1> QED BY <1>2, <1>3, <1>4, SeqEqual

LEMMA AppendBehind ==
    ASSUME NEW s \in Seq(Id), NEW x \in Id
    PROVE  Behind(s, x, Append(s, x))
BY DEF Behind

LEMMA FirstReplaced ==
    ASSUME NEW s \in Seq(Id), s # <<>>, NEW id \in Id, NEW x \in Id
    PROVE  [Append(s, x) EXCEPT ![1] = id] = Append([s EXCEPT ![1] = id], x)
<1> DEFINE r == [s EXCEPT ![1] = id]
<1>1. Len(s) >= 1
  OBVIOUS
<1>2. r \in Seq(Id) /\ Len(r) = Len(s) /\ \A m \in 1 .. Len(s) : r[m] = IF m = 1 THEN id ELSE s[m]
  BY <1>1, FirstSet
<1>3. Behind(s, x, Append(s, x))
  BY AppendBehind
<1> HIDE DEF r
<1>4. Behind(r, x, Append(r, x))
  BY <1>2, AppendBehind
<1> DEFINE u == Append(s, x)
           c == Append(r, x)
<1>5. Behind(s, x, u) /\ Behind(r, x, c)
  BY <1>3, <1>4
<1> HIDE DEF u, c
<1>6. [u EXCEPT ![1] = id] = c
  BY <1>1, <1>2, <1>5, SameReplaced
<1> QED BY <1>6 DEF r, u, c

Replaces(s, id, r) == s # <<>> /\ r = [s EXCEPT ![1] = id]

\* The entries behind an updated one leave the id replaced.
LEMMA ReplacesStill ==
    ASSUME NEW s \in Seq(Id), NEW id \in Id, NEW r, Replaces(s, id, r), NEW entry,
           entry.entry_id \in Id, NEW key_hash
    PROVE  Replaces(WithEntry(s, entry, key_hash), id, WithEntry(r, entry, key_hash))
<1>1. s # <<>> /\ r = [s EXCEPT ![1] = id]
  BY DEF Replaces
<1>2. CASE UnderHash(entry, key_hash)
  <2>1. /\ WithEntry(s, entry, key_hash) = Append(s, entry.entry_id)
        /\ WithEntry(r, entry, key_hash) = Append(r, entry.entry_id)
    BY <1>2 DEF WithEntry
  <2>2. Append(s, entry.entry_id) # <<>>
    OBVIOUS
  <2>3. [Append(s, entry.entry_id) EXCEPT ![1] = id] = Append([s EXCEPT ![1] = id], entry.entry_id)
    BY <1>1, FirstReplaced
  <2> QED BY <1>1, <2>1, <2>2, <2>3 DEF Replaces
<1>3. CASE ~UnderHash(entry, key_hash)
  BY <1>3 DEF WithEntry
<1> QED BY <1>2, <1>3

\* An update replaces the first id of the hash.
LEMMA UpdateIds ==
    ASSUME NEW B, NEW q, NEW e, NEW C, Sets(B, q, e, C), NEW key_hash,
           UnderHash(B[q], key_hash), UnderHash(e, key_hash), e.entry_id \in Id,
           \A p \in 1 .. q - 1 : ~UnderHash(B[p], key_hash)
    PROVE  Replaces(Whole(B, key_hash), e.entry_id, Whole(C, key_hash))
<1> PICK L, id : L = Len(B) /\ id = e.entry_id
  OBVIOUS
<1>1. /\ B \in Seq(HashTableEntry) /\ C \in Seq(HashTableEntry) /\ Len(C) = L /\ L \in Nat
      /\ q \in 1 .. L /\ C[q] = e /\ \A p \in 1 .. L : p # q => C[p] = B[p]
  BY DEF Sets
<1> DEFINE S == {n \in q .. L : Replaces(IdsIn(B, key_hash)[n], id, IdsIn(C, key_hash)[n])}
<1>2. q \in S
  <2>1. /\ IdsIn(B, key_hash)[q] = WithEntry(IdsIn(B, key_hash)[q - 1], B[q], key_hash)
        /\ B[q].entry_id \in Id
    BY <1>1, NextIds
  <2>2. IdsIn(C, key_hash)[q] = WithEntry(IdsIn(C, key_hash)[q - 1], C[q], key_hash)
    BY <1>1, NextIds
  <2>3. IdsIn(C, key_hash)[q - 1] = IdsIn(B, key_hash)[q - 1]
    BY SameBefore
  <2>4. IdsIn(B, key_hash)[q - 1] = <<>>
    <3>1. q - 1 \in 0 .. Len(B)
      BY <1>1
    <3> QED BY <1>1, <3>1, NoneUnder
  <2>5. IdsIn(B, key_hash)[q] = <<B[q].entry_id>> /\ IdsIn(C, key_hash)[q] = <<id>>
    BY <1>1, <2>1, <2>2, <2>3, <2>4 DEF WithEntry
  <2>6. Replaces(<<B[q].entry_id>>, id, <<id>>)
    BY DEF Replaces
  <2>7. q \in q .. L
    BY <1>1
  <2> QED BY <2>5, <2>6, <2>7
<1>3. ASSUME NEW n \in q .. L - 1, n \in S PROVE n + 1 \in S
  <2>1. n + 1 \in 1 .. L /\ n + 1 \in q .. L /\ n + 1 # q /\ (n + 1) - 1 = n
    BY <1>1
  <2>2. /\ IdsIn(B, key_hash)[n + 1]
              = WithEntry(IdsIn(B, key_hash)[(n + 1) - 1], B[n + 1], key_hash)
        /\ IdsIn(B, key_hash)[(n + 1) - 1] \in Seq(Id) /\ B[n + 1].entry_id \in Id
    BY <1>1, <2>1, NextIds
  <2>3. IdsIn(C, key_hash)[n + 1] = WithEntry(IdsIn(C, key_hash)[(n + 1) - 1], C[n + 1], key_hash)
    BY <1>1, <2>1, NextIds
  <2>4. C[n + 1] = B[n + 1]
    BY <1>1, <2>1
  <2>5. Replaces(IdsIn(B, key_hash)[n], id, IdsIn(C, key_hash)[n])
    BY <1>3
  <2>6. Replaces(WithEntry(IdsIn(B, key_hash)[n], B[n + 1], key_hash), id,
                 WithEntry(IdsIn(C, key_hash)[n], B[n + 1], key_hash))
    BY <2>1, <2>2, <2>5, ReplacesStill
  <2> QED BY <2>1, <2>2, <2>3, <2>4, <2>6
<1>4. q .. L \subseteq S
  <2>1. q \in Nat
    BY <1>1
  <2> HIDE DEF S
  <2> QED BY <1>1, <1>2, <1>3, <2>1, Onwards
<1>5. L \in S
  <2>1. L \in q .. L
    BY <1>1
  <2> HIDE DEF S
  <2> QED BY <1>4, <2>1
<1>6. Replaces(IdsIn(B, key_hash)[L], id, IdsIn(C, key_hash)[L])
  BY <1>5
<1> QED BY <1>1, <1>6 DEF Whole
-----------------------------------------------------------------------------
(* What the operations do to the ids of a table. *)

TableIds(t, h) == IF t.ht_cap = 0 THEN <<>> ELSE Whole(t.ht[h % t.ht_cap].bucket, h)

\* The ids of a hash are those in the bucket of its slot.
LEMMA IdsOfTable ==
    ASSUME NEW t, t # NULL, NEW h
    PROVE  IdsOf(t, h) = TableIds(t, h)
BY DEF IdsOf, TableIds, Whole, SlotOf

LEMMA SameLength ==
    ASSUME NEW a \in Nat, NEW b \in Nat, 1 .. a = 1 .. b
    PROVE  a = b
<1>1. ASSUME a < b PROVE FALSE
  <2>1. b \in 1 .. b /\ b \notin 1 .. a
    BY <1>1
  <2> QED BY <2>1
<1>2. ASSUME b < a PROVE FALSE
  <2>1. a \in 1 .. a /\ a \notin 1 .. b
    BY <1>2
  <2> QED BY <2>1
<1> QED BY <1>1, <1>2

\* The bucket of a hash.
LEMMA GoodBucket ==
    ASSUME NEW t, Good(t), NEW s \in 0 .. t.ht_cap - 1
    PROVE  /\ t.ht[s].bucket \in Seq(HashTableEntry) /\ Len(t.ht[s].bucket) \in Nat
           /\ DOMAIN t.ht[s].bucket = 1 .. Len(t.ht[s].bucket)
           /\ \A p \in DOMAIN t.ht[s].bucket : t.ht[s].bucket[p] \in HashTableEntry
BY GoodParts, SlotParts

\* A table just created has no ids.
LEMMA CreateIds ==
    ASSUME NEW cap \in Nat, NEW h \in Nat
    PROVE  TableIds(HTCreate(cap), h) = <<>>
<1> DEFINE t == HTCreate(cap)
<1>1. t.ht_cap = cap /\ \A s \in 0 .. cap - 1 : t.ht[s].bucket = <<>>
  BY CreateType
<1> HIDE DEF t
<1>2. CASE cap = 0
  BY <1>1, <1>2 DEF TableIds, t
<1>3. CASE cap # 0
  <2>1. h % cap \in 0 .. cap - 1
    BY <1>3, SlotIndex
  <2>2. TableIds(t, h) = Whole(<<>>, h)
    BY <1>1, <1>3, <2>1 DEF TableIds
  <2>3. Whole(<<>>, h) = <<>>
    <3>1. <<>> \in Seq(HashTableEntry) /\ Len(<<>>) = 0
      OBVIOUS
    <3> QED BY <3>1, IdsFacts DEF Whole
  <2> QED BY <2>2, <2>3 DEF t
<1> QED BY <1>2, <1>3

\* Insert adds an entry to the end of a bucket.
LEMMA AppendedAdds ==
    ASSUME NEW t, Good(t), NEW at, NEW entry, NEW g, Good(g), Appended(t, at, entry, g)
    PROVE  Adds(t.ht[at].bucket, entry, g.ht[at].bucket)
<1>1. at \in 0 .. t.ht_cap - 1 /\ at \in 0 .. g.ht_cap - 1
  BY DEF Appended
<1>2. /\ t.ht[at].bucket \in Seq(HashTableEntry) /\ g.ht[at].bucket \in Seq(HashTableEntry)
      /\ Len(t.ht[at].bucket) \in Nat /\ Len(g.ht[at].bucket) \in Nat
      /\ DOMAIN t.ht[at].bucket = 1 .. Len(t.ht[at].bucket)
      /\ DOMAIN g.ht[at].bucket = 1 .. Len(g.ht[at].bucket)
  BY <1>1, GoodBucket
<1>3. Len(g.ht[at].bucket) = Len(t.ht[at].bucket) + 1
  <2>1. 1 .. Len(g.ht[at].bucket) = 1 .. Len(t.ht[at].bucket) + 1
    BY <1>2 DEF Appended
  <2>2. Len(t.ht[at].bucket) + 1 \in Nat
    BY <1>2
  <2> QED BY <1>2, <2>1, <2>2, SameLength
<1> QED BY <1>2, <1>3 DEF Appended, Adds

\* The ids under h grow by id if h is the hash of the insertion.
InsertsId(t, key_hash, id, g) ==
    \A h \in Nat : TableIds(g, h) = IF h = key_hash THEN Append(TableIds(t, h), id)
                                                    ELSE TableIds(t, h)

\* Insert appends an id to those of its hash and leaves the others.
LEMMA AppendedIds ==
    ASSUME NEW t, Good(t), NEW key_hash \in Nat, NEW id \in Id, NEW g, Good(g),
           Appended(t, key_hash % t.ht_cap,
                    [key_hash |-> key_hash, entry_id |-> id, state |-> "HT_ENTRY_INUSE"], g)
    PROVE  InsertsId(t, key_hash, id, g)
<1> SUFFICES ASSUME NEW h \in Nat
             PROVE  TableIds(g, h) = IF h = key_hash THEN Append(TableIds(t, h), id)
                                                     ELSE TableIds(t, h)
  BY DEF InsertsId
<1> DEFINE e  == [key_hash |-> key_hash, entry_id |-> id, state |-> "HT_ENTRY_INUSE"]
           at == key_hash % t.ht_cap
<1>1. /\ e.entry_id = id
      /\ UnderHash(e, h) <=> h = key_hash
  BY DEF UnderHash
<1>2. Appended(t, at, e, g)
  OBVIOUS
<1> HIDE DEF e
<1>3. /\ t.ht_cap \in Nat /\ at \in 0 .. t.ht_cap - 1 /\ g.ht_cap = t.ht_cap
      /\ \A s \in 0 .. t.ht_cap - 1 : s # at => g.ht[s] = t.ht[s]
  BY <1>2, GoodParts DEF Appended
<1>4. t.ht_cap # 0 /\ g.ht_cap # 0
  <2> HIDE DEF at
  <2> QED BY <1>3
<1>5. h % t.ht_cap \in 0 .. t.ht_cap - 1
  BY <1>3, <1>4, SlotIndex
<1>6. /\ TableIds(t, h) = Whole(t.ht[h % t.ht_cap].bucket, h)
      /\ TableIds(g, h) = Whole(g.ht[h % t.ht_cap].bucket, h)
  BY <1>3, <1>4 DEF TableIds
<1>7. Adds(t.ht[at].bucket, e, g.ht[at].bucket)
  <2> HIDE DEF at
  <2> QED BY <1>2, AppendedAdds
<1>8. Whole(g.ht[at].bucket, h) = WithEntry(Whole(t.ht[at].bucket, h), e, h)
  <2> HIDE DEF at
  <2> QED BY <1>7, AppendIds
<1>9. CASE h % t.ht_cap # at
  <2>1. h # key_hash
    BY <1>9
  <2> HIDE DEF at
  <2> QED BY <1>3, <1>5, <1>6, <1>9, <2>1
<1>10. CASE h % t.ht_cap = at
  <2>1. TableIds(g, h) = WithEntry(TableIds(t, h), e, h)
    <3> HIDE DEF at
    <3> QED BY <1>6, <1>8, <1>10
  <2> QED BY <1>1, <2>1 DEF WithEntry
<1> QED BY <1>9, <1>10

InsertTable(t, key_hash, id, ins) ==
    /\ ins.ret \in Int /\ Good(ins.htObj) /\ ins.htObj.ht_cap = t.ht_cap
    /\ ins.ret < 0 => ins.htObj = t
    /\ ins.ret >= 0 => InsertsId(t, key_hash, id, ins.htObj)

\* An insert appends the id or, refused, leaves the table as it was.
LEMMA InsertIds ==
    ASSUME NEW t, Good(t), NEW key_hash \in Nat, NEW id \in Id, NEW ok \in BOOLEAN,
           NEW ins, ins = HTInsert(t, key_hash, id, ok)
    PROVE  InsertTable(t, key_hash, id, ins)
<1>1. id \in Nat \cup {-1}
  BY DEF Id
<1>2. Inserted(t, key_hash, id, ins)
  BY <1>1, InsertGood
<1>3. Good(ins.htObj)
  BY <1>2 DEF Inserted
<1>4. ASSUME ins.ret >= 0 PROVE InsertsId(t, key_hash, id, ins.htObj)
  <2>1. Appended(t, key_hash % t.ht_cap, [key_hash |-> key_hash, entry_id |-> id,
                                          state |-> "HT_ENTRY_INUSE"], ins.htObj)
    BY <1>1, <1>4, InsertAppends
  <2> PICK g : g = ins.htObj
    OBVIOUS
  <2>2. Good(g) /\ Appended(t, key_hash % t.ht_cap,
           [key_hash |-> key_hash, entry_id |-> id, state |-> "HT_ENTRY_INUSE"], g)
    BY <1>3, <2>1
  <2>3. InsertsId(t, key_hash, id, g)
    BY <2>2, AppendedIds
  <2> QED BY <2>3
<1> QED BY <1>2, <1>4 DEF Inserted, InsertTable

\* Update and delete rewrite one entry of a bucket.
LEMMA RewrittenSets ==
    ASSUME NEW t, Good(t), NEW at, NEW q, NEW e \in HashTableEntry, NEW g, Good(g),
           Rewritten(t, at, q, e, g)
    PROVE  /\ at \in 0 .. t.ht_cap - 1 /\ g.ht_cap = t.ht_cap
           /\ Sets(t.ht[at].bucket, q, e, g.ht[at].bucket)
           /\ \A s \in 0 .. t.ht_cap - 1 : s # at => g.ht[s].bucket = t.ht[s].bucket
<1>1. at \in 0 .. t.ht_cap - 1 /\ g.ht_cap = t.ht_cap /\ q \in DOMAIN t.ht[at].bucket
  BY DEF Rewritten
<1>2. ASSUME NEW s \in 0 .. t.ht_cap - 1
      PROVE  /\ t.ht[s].bucket \in Seq(HashTableEntry) /\ g.ht[s].bucket \in Seq(HashTableEntry)
             /\ DOMAIN t.ht[s].bucket = 1 .. Len(t.ht[s].bucket)
             /\ Len(g.ht[s].bucket) = Len(t.ht[s].bucket)
             /\ \A p \in 1 .. Len(t.ht[s].bucket) :
                   g.ht[s].bucket[p] = IF s = at /\ p = q THEN e ELSE t.ht[s].bucket[p]
  <2>1. /\ t.ht[s].bucket \in Seq(HashTableEntry) /\ g.ht[s].bucket \in Seq(HashTableEntry)
        /\ Len(t.ht[s].bucket) \in Nat /\ Len(g.ht[s].bucket) \in Nat
        /\ DOMAIN t.ht[s].bucket = 1 .. Len(t.ht[s].bucket)
        /\ DOMAIN g.ht[s].bucket = 1 .. Len(g.ht[s].bucket)
    BY <1>1, GoodBucket
  <2>2. Len(g.ht[s].bucket) = Len(t.ht[s].bucket)
    <3>1. 1 .. Len(g.ht[s].bucket) = 1 .. Len(t.ht[s].bucket)
      BY <2>1 DEF Rewritten
    <3> QED BY <2>1, <3>1, SameLength
  <2> QED BY <2>1, <2>2 DEF Rewritten
<1>3. Sets(t.ht[at].bucket, q, e, g.ht[at].bucket)
  BY <1>1, <1>2 DEF Sets
<1>4. ASSUME NEW s \in 0 .. t.ht_cap - 1, s # at
      PROVE  g.ht[s].bucket = t.ht[s].bucket
  <2>1. \A p \in 1 .. Len(t.ht[s].bucket) : g.ht[s].bucket[p] = t.ht[s].bucket[p]
    BY <1>2, <1>4
  <2> QED BY <1>2, <2>1, SeqEqual
<1> QED BY <1>1, <1>3, <1>4

\* The ids of the other hashes are the same.
OthersKept(t, key_hash, g) == \A h \in Nat : h # key_hash => TableIds(g, h) = TableIds(t, h)

LEMMA RewrittenOthers ==
    ASSUME NEW t, Good(t), NEW key_hash \in Nat, NEW at, NEW q, NEW e \in HashTableEntry,
           NEW g, Good(g), Rewritten(t, at, q, e, g),
           UnderHash(t.ht[at].bucket[q], key_hash),
           e.state = "HT_ENTRY_INUSE" => e.key_hash = key_hash
    PROVE  OthersKept(t, key_hash, g)
<1> SUFFICES ASSUME NEW h \in Nat, h # key_hash
             PROVE  TableIds(g, h) = TableIds(t, h)
  BY DEF OthersKept
<1>1. /\ at \in 0 .. t.ht_cap - 1 /\ g.ht_cap = t.ht_cap
      /\ Sets(t.ht[at].bucket, q, e, g.ht[at].bucket)
      /\ \A s \in 0 .. t.ht_cap - 1 : s # at => g.ht[s].bucket = t.ht[s].bucket
  BY RewrittenSets
<1>2. t.ht_cap \in Nat /\ t.ht_cap # 0
  BY <1>1, GoodParts
<1>3. h % t.ht_cap \in 0 .. t.ht_cap - 1
  BY <1>2, SlotIndex
<1>4. /\ TableIds(t, h) = Whole(t.ht[h % t.ht_cap].bucket, h)
      /\ TableIds(g, h) = Whole(g.ht[h % t.ht_cap].bucket, h)
  BY <1>1, <1>2 DEF TableIds
<1>5. ~UnderHash(t.ht[at].bucket[q], h) /\ ~UnderHash(e, h)
  BY DEF UnderHash
<1>6. Whole(g.ht[at].bucket, h) = Whole(t.ht[at].bucket, h)
  BY <1>1, <1>5, OtherIds
<1> QED BY <1>1, <1>3, <1>4, <1>6

\* Delete puts its tombstone at the first position that holds the pair.
Deleted(t, key_hash, id, g) ==
    \E q : /\ Rewritten(t, key_hash % t.ht_cap, q, Tombstone, g)
           /\ t.ht[key_hash % t.ht_cap].bucket[q].entry_id = id
           /\ t.ht[key_hash % t.ht_cap].bucket[q].key_hash = key_hash
           /\ \A p \in 1 .. q - 1 :
                 ~(/\ t.ht[key_hash % t.ht_cap].bucket[p].entry_id = id
                   /\ t.ht[key_hash % t.ht_cap].bucket[p].key_hash = key_hash)

LEMMA DeleteRewrites ==
    ASSUME NEW t, Good(t), t.ht_cap > 0, NEW key_hash \in Nat, NEW id \in Nat,
           Holding(t, key_hash, id) # {}, NEW del, del = HTDelete(t, key_hash, id)
    PROVE  del.ret \in Nat /\ Deleted(t, key_hash, id, del.htObj)
<1> DEFINE at    == key_hash % t.ht_cap
           found == Holding(t, key_hash, id)
           q     == FirstOf(found)
           slot  == [bucket     |-> [t.ht[at].bucket EXCEPT ![q] = Tombstone],
                     bucket_cap |-> t.ht[at].bucket_cap,
                     slot_state |-> t.ht[at].slot_state]
           g     == del.htObj
<1>1. t.ht_cap \in Nat
  BY GoodParts
<1>2. at \in 0 .. t.ht_cap - 1
  BY <1>1, SlotIndex
<1>3. /\ Len(t.ht[at].bucket) \in Nat
      /\ DOMAIN t.ht[at].bucket = 1 .. Len(t.ht[at].bucket)
  <2> HIDE DEF at
  <2> QED BY <1>2, GoodBucket
<1>4. found = {p \in DOMAIN t.ht[at].bucket : /\ t.ht[at].bucket[p].entry_id = id
                                              /\ t.ht[at].bucket[p].key_hash = key_hash}
  BY DEF Holding, SlotOf
<1>5. q \in found /\ \A p \in found : q <= p
  <2>1. found \subseteq Nat
    <3> HIDE DEF found, at
    <3> QED BY <1>3, <1>4
  <2>2. found # {}
    OBVIOUS
  <2> HIDE DEF found, at
  <2> QED BY <2>1, <2>2, FirstOfIsLeast
<1>6. /\ q \in DOMAIN t.ht[at].bucket
      /\ t.ht[at].bucket[q].entry_id = id /\ t.ht[at].bucket[q].key_hash = key_hash
  <2> HIDE DEF found, at, q
  <2> QED BY <1>4, <1>5
<1>7. ASSUME NEW p \in 1 .. q - 1
      PROVE  ~(t.ht[at].bucket[p].entry_id = id /\ t.ht[at].bucket[p].key_hash = key_hash)
  <2> HIDE DEF found, at, q
  <2>1. p \in DOMAIN t.ht[at].bucket /\ ~(q <= p)
    BY <1>3, <1>6
  <2> QED BY <1>4, <1>5, <2>1
<1>8. /\ del.ret = at
      /\ g.ht_cap = t.ht_cap /\ g.ht = [t.ht EXCEPT ![at] = slot]
      /\ g.ht_slot_used_cnt = t.ht_slot_used_cnt
  BY DEF HTDelete
<1>9. Tombstone \in HashTableEntry
  BY DEF Tombstone, HashTableEntry
<1>10. Rewritten(t, at, q, Tombstone, g)
  <2>1. /\ slot.bucket = [t.ht[at].bucket EXCEPT ![q] = Tombstone]
        /\ slot.slot_state = t.ht[at].slot_state
    OBVIOUS
  <2> HIDE DEF g, slot, at, q
  <2> QED BY <1>2, <1>6, <1>8, <1>9, <2>1, RewrittenSlots
<1>11. Deleted(t, key_hash, id, g)
  <2> HIDE DEF g, q
  <2> QED BY <1>6, <1>7, <1>10 DEF Deleted
<1>12. del.ret \in Nat
  <2> HIDE DEF at
  <2> QED BY <1>1, <1>2, <1>8
<1> QED BY <1>11, <1>12

\* What matches an id is in use: the entry before the first is not one of the hash.
LEMMA HeldInUse ==
    ASSUME NEW t, Good(t), Counts(t), NEW s \in 0 .. t.ht_cap - 1,
           NEW q \in DOMAIN t.ht[s].bucket, t.ht[s].bucket[q].entry_id \in Nat
    PROVE  t.ht[s].bucket[q].state = "HT_ENTRY_INUSE"
<1>1. t.ht[s].bucket[q] # Tombstone
  BY DEF Tombstone
<1>2. <<s, q>> \notin InState(t, "HT_ENTRY_DELETED")
  BY <1>1 DEF Counts
<1>3. t.ht[s].bucket[q].state # "HT_ENTRY_DELETED"
  BY <1>2, InStateOf
<1>4. t.ht[s].bucket[q] \in HashTableEntry
  BY GoodBucket
<1> QED BY <1>3, <1>4 DEF HashTableEntry

\* Delete removes the first id equal to the one given, for its hash only.
LEMMA DeletedIds ==
    ASSUME NEW t, Good(t), Counts(t), NEW key_hash \in Nat, NEW id \in Nat, NEW g, Good(g),
           Deleted(t, key_hash, id, g)
    PROVE  /\ Removes(TableIds(t, key_hash), id, TableIds(g, key_hash))
           /\ OthersKept(t, key_hash, g)
<1> DEFINE at == key_hash % t.ht_cap
<1>1. PICK q : /\ Rewritten(t, at, q, Tombstone, g)
               /\ t.ht[at].bucket[q].entry_id = id
               /\ t.ht[at].bucket[q].key_hash = key_hash
               /\ \A p \in 1 .. q - 1 : ~(/\ t.ht[at].bucket[p].entry_id = id
                                          /\ t.ht[at].bucket[p].key_hash = key_hash)
  BY DEF Deleted
<1>2. Tombstone \in HashTableEntry /\ Tombstone.state # "HT_ENTRY_INUSE"
  BY DEF Tombstone, HashTableEntry
<1>3. /\ at \in 0 .. t.ht_cap - 1 /\ g.ht_cap = t.ht_cap
      /\ Sets(t.ht[at].bucket, q, Tombstone, g.ht[at].bucket)
  <2> HIDE DEF at
  <2>1. Rewritten(t, at, q, Tombstone, g)
    BY <1>1
  <2> QED BY <1>2, <2>1, RewrittenSets
<1>4. t.ht_cap # 0
  <2> HIDE DEF at
  <2> QED BY <1>3, GoodParts
<1>5. UnderHash(t.ht[at].bucket[q], key_hash)
  <2>1. q \in DOMAIN t.ht[at].bucket
    BY <1>1 DEF Rewritten
  <2>2. t.ht[at].bucket[q].state = "HT_ENTRY_INUSE"
    <3> HIDE DEF at
    <3> QED BY <1>1, <1>3, <2>1, HeldInUse
  <2> QED BY <1>1, <2>2 DEF UnderHash
<1>6. Found(t.ht[at].bucket, q, key_hash, id)
  <2> HIDE DEF at
  <2> QED BY <1>1, <1>5 DEF Found, UnderHash
<1>7. Removes(Whole(t.ht[at].bucket, key_hash), id, Whole(g.ht[at].bucket, key_hash))
  <2> HIDE DEF at
  <2> QED BY <1>3, <1>6, DeleteIds
<1>8. /\ TableIds(t, key_hash) = Whole(t.ht[at].bucket, key_hash)
      /\ TableIds(g, key_hash) = Whole(g.ht[at].bucket, key_hash)
  BY <1>3, <1>4 DEF TableIds
<1>9. OthersKept(t, key_hash, g)
  <2> HIDE DEF at
  <2> QED BY <1>1, <1>2, <1>5, RewrittenOthers
<1> QED BY <1>7, <1>8, <1>9

\* What delete does to the ids of all hashes, by what it returns.
LEMMA DeleteTable ==
    ASSUME NEW t, Good(t), Counts(t), t.ht_cap > 0, NEW key_hash \in Nat, NEW id \in Nat,
           NEW del, del = HTDelete(t, key_hash, id)
    PROVE  \/ /\ del.ret < 0 /\ del.htObj = t
              /\ \A m \in 1 .. Len(TableIds(t, key_hash)) : TableIds(t, key_hash)[m] # id
           \/ /\ del.ret >= 0 /\ Removes(TableIds(t, key_hash), id, TableIds(del.htObj, key_hash))
              /\ OthersKept(t, key_hash, del.htObj)
<1>1. CASE Holding(t, key_hash, id) = {}
  <2>1. del.ret < 0 /\ del.htObj = t
    <3>1. del = [ret |-> -1, htObj |-> t]
      BY <1>1 DEF HTDelete
    <3> QED BY <3>1
  <2> DEFINE B == t.ht[key_hash % t.ht_cap].bucket
  <2>2. t.ht_cap \in Nat /\ key_hash % t.ht_cap \in 0 .. t.ht_cap - 1
    BY GoodParts, SlotIndex
  <2>3. B \in Seq(HashTableEntry) /\ Len(B) \in Nat /\ DOMAIN B = 1 .. Len(B)
    BY <2>2, GoodBucket
  <2>4. \A p \in 1 .. Len(B) : UnderHash(B[p], key_hash) => B[p].entry_id # id
    <3>1. \A p \in DOMAIN B : ~(B[p].entry_id = id /\ B[p].key_hash = key_hash)
      BY <1>1 DEF Holding, SlotOf
    <3> HIDE DEF B
    <3> QED BY <2>3, <3>1 DEF UnderHash
  <2>5. TableIds(t, key_hash) = IdsIn(B, key_hash)[Len(B)]
    <3>1. t.ht_cap # 0
      BY <2>2
    <3> QED BY <3>1 DEF TableIds, Whole
  <2> HIDE DEF B
  <2>6. Len(B) \in 0 .. Len(B)
    BY <2>3
  <2>7. \A m \in 1 .. Len(IdsIn(B, key_hash)[Len(B)]) : IdsIn(B, key_hash)[Len(B)][m] # id
    BY <2>3, <2>4, <2>6, NotAmong
  <2> QED BY <2>1, <2>5, <2>7
<1>2. CASE Holding(t, key_hash, id) # {}
  <2>1. del.ret \in Nat /\ Deleted(t, key_hash, id, del.htObj)
    BY <1>2, DeleteRewrites
  <2>2. Good(del.htObj)
    BY DeleteGood
  <2>3. /\ Removes(TableIds(t, key_hash), id, TableIds(del.htObj, key_hash))
        /\ OthersKept(t, key_hash, del.htObj)
    <3> DEFINE g == del.htObj
    <3>1. Good(g) /\ Deleted(t, key_hash, id, g)
      BY <2>1, <2>2
    <3> HIDE DEF g
    <3>2. Removes(TableIds(t, key_hash), id, TableIds(g, key_hash)) /\ OthersKept(t, key_hash, g)
      BY <3>1, DeletedIds
    <3> QED BY <3>2 DEF g
  <2> QED BY <2>1, <2>3
<1> QED BY <1>1, <1>2

\* Update rewrites the first entry of the hash.
Updated(t, key_hash, id, g) ==
    \E q, e : /\ Rewritten(t, key_hash % t.ht_cap, q, e, g)
              /\ e \in HashTableEntry /\ UnderHash(e, key_hash) /\ e.entry_id = id
              /\ UnderHash(t.ht[key_hash % t.ht_cap].bucket[q], key_hash)
              /\ \A p \in 1 .. q - 1 : ~UnderHash(t.ht[key_hash % t.ht_cap].bucket[p], key_hash)

LEMMA UpdateRewrites ==
    ASSUME NEW t, Good(t), NEW key_hash \in Nat, NEW id \in Nat,
           NEW upd, upd = HTUpdate(t, key_hash, id)
    PROVE  \/ upd.ret < 0 /\ upd.htObj = t
           \/ upd.ret >= 0 /\ Updated(t, key_hash, id, upd.htObj)
<1> DEFINE at    == key_hash % t.ht_cap
           found == Under(t, key_hash)
           q     == FirstOf(found)
           old   == t.ht[at].bucket[q]
           new   == [old EXCEPT !.entry_id = id]
           slot  == [bucket     |-> [t.ht[at].bucket EXCEPT ![q] = new],
                     bucket_cap |-> t.ht[at].bucket_cap,
                     slot_state |-> t.ht[at].slot_state]
           g     == upd.htObj
           refused == \/ t.ht_entry_cnt >= t.ht_cap
                      \/ Len(SlotOf(t, key_hash).bucket) >= SlotOf(t, key_hash).bucket_cap
                      \/ found = {}
<1>1. CASE refused
  <2>1. upd = [ret |-> -1, htObj |-> t]
    BY <1>1 DEF HTUpdate
  <2> QED BY <2>1
<1>2. CASE ~refused
  <2>1. /\ t.ht_cap \in Nat /\ t.ht_entry_cnt \in Int
        /\ t.ht_cap = 0 => t.ht_entry_cnt = 0
        /\ t = [ht_cap |-> t.ht_cap, ht |-> t.ht, ht_slot_used_cnt |-> t.ht_slot_used_cnt,
                ht_entry_cnt |-> t.ht_entry_cnt, ht_del_cnt |-> t.ht_del_cnt]
        /\ \A s \in 0 .. t.ht_cap - 1 : SlotGood(t.ht[s], s, t.ht_cap)
    BY GoodParts
  <2>2. at \in 0 .. t.ht_cap - 1
    <3>1. t.ht_cap > 0
      BY <1>2, <2>1
    <3> QED BY <2>1, <3>1, SlotIndex
  <2>3. /\ Len(t.ht[at].bucket) \in Nat
        /\ DOMAIN t.ht[at].bucket = 1 .. Len(t.ht[at].bucket)
        /\ \A p \in DOMAIN t.ht[at].bucket : t.ht[at].bucket[p] \in HashTableEntry
        /\ t.ht[at] = [bucket |-> t.ht[at].bucket, bucket_cap |-> t.ht[at].bucket_cap,
                       slot_state |-> t.ht[at].slot_state]
    <3> HIDE DEF at
    <3> QED BY <2>1, <2>2, SlotParts
  <2>4. found = {p \in DOMAIN t.ht[at].bucket : UnderHash(t.ht[at].bucket[p], key_hash)}
    BY DEF Under, SlotOf, UnderHash
  <2>5. q \in found /\ \A p \in found : q <= p
    <3>1. found # {}
      BY <1>2
    <3>2. found \subseteq Nat
      <4> HIDE DEF found, at
      <4> QED BY <2>3, <2>4
    <3> HIDE DEF found, at
    <3> QED BY <3>1, <3>2, FirstOfIsLeast
  <2>6. q \in DOMAIN t.ht[at].bucket /\ UnderHash(old, key_hash) /\ old \in HashTableEntry
    <3>1. q \in DOMAIN t.ht[at].bucket /\ UnderHash(old, key_hash)
      <4> HIDE DEF found, at, q
      <4> QED BY <2>4, <2>5
    <3> HIDE DEF found, at, q
    <3> QED BY <2>3, <3>1
  <2>7. ASSUME NEW p \in 1 .. q - 1
        PROVE  ~UnderHash(t.ht[at].bucket[p], key_hash)
    <3> HIDE DEF found, at, q
    <3>1. p \in DOMAIN t.ht[at].bucket /\ ~(q <= p)
      BY <2>3, <2>6
    <3> QED BY <2>4, <2>5, <3>1
  <2>8. new \in HashTableEntry /\ UnderHash(new, key_hash) /\ new.entry_id = id
    <3> HIDE DEF old
    <3> QED BY <2>6 DEF HashTableEntry, UnderHash
  <2>9. /\ upd.ret = at
        /\ g.ht_cap = t.ht_cap /\ g.ht = [t.ht EXCEPT ![at] = slot]
        /\ g.ht_slot_used_cnt = t.ht_slot_used_cnt
    <3>1. upd.ret = at /\ g = [t EXCEPT !.ht[at].bucket[q].entry_id = id]
      BY <1>2 DEF HTUpdate
    <3>2. [t.ht[at] EXCEPT !.bucket[q].entry_id = id] = slot
      <4> HIDE DEF at, q
      <4> QED BY <2>3
    <3>3. g = [t EXCEPT !.ht = [t.ht EXCEPT ![at] = slot]]
      BY <3>1, <3>2
    <3> HIDE DEF g, slot, at
    <3> QED BY <2>1, <3>1, <3>3
  <2>10. Rewritten(t, at, q, new, g)
    <3>1. /\ slot.bucket = [t.ht[at].bucket EXCEPT ![q] = new]
          /\ slot.slot_state = t.ht[at].slot_state
      OBVIOUS
    <3> HIDE DEF g, slot, at, q, new
    <3> QED BY <2>2, <2>6, <2>8, <2>9, <3>1, RewrittenSlots
  <2>11. Updated(t, key_hash, id, g)
    <3>1. UnderHash(t.ht[at].bucket[q], key_hash)
      BY <2>6
    <3> HIDE DEF g, q, new
    <3> QED BY <2>7, <2>8, <2>10, <3>1 DEF Updated
  <2>12. upd.ret >= 0
    <3> HIDE DEF at
    <3> QED BY <2>1, <2>2, <2>9
  <2> QED BY <2>11, <2>12
<1> QED BY <1>1, <1>2

\* Update replaces the first id of a hash and leaves the others.
LEMMA UpdatedIds ==
    ASSUME NEW t, Good(t), NEW key_hash \in Nat, NEW id \in Nat, NEW g, Good(g),
           Updated(t, key_hash, id, g)
    PROVE  /\ Replaces(TableIds(t, key_hash), id, TableIds(g, key_hash))
           /\ OthersKept(t, key_hash, g)
<1> DEFINE at == key_hash % t.ht_cap
<1>1. PICK q, e : /\ Rewritten(t, at, q, e, g)
                  /\ e \in HashTableEntry /\ UnderHash(e, key_hash) /\ e.entry_id = id
                  /\ UnderHash(t.ht[at].bucket[q], key_hash)
                  /\ \A p \in 1 .. q - 1 : ~UnderHash(t.ht[at].bucket[p], key_hash)
  BY DEF Updated
<1>2. Rewritten(t, at, q, e, g) /\ e \in HashTableEntry
  BY <1>1
<1>3. /\ at \in 0 .. t.ht_cap - 1 /\ g.ht_cap = t.ht_cap
      /\ Sets(t.ht[at].bucket, q, e, g.ht[at].bucket)
  <2> HIDE DEF at
  <2> QED BY <1>2, RewrittenSets
<1>4. t.ht_cap # 0
  <2> HIDE DEF at
  <2> QED BY <1>3, GoodParts
<1>5. Replaces(Whole(t.ht[at].bucket, key_hash), e.entry_id, Whole(g.ht[at].bucket, key_hash))
  <2>1. UnderHash(t.ht[at].bucket[q], key_hash) /\ UnderHash(e, key_hash)
    BY <1>1
  <2>2. e.entry_id \in Id
    BY <1>1 DEF Id
  <2>3. \A p \in 1 .. q - 1 : ~UnderHash(t.ht[at].bucket[p], key_hash)
    BY <1>1
  <2>4. Sets(t.ht[at].bucket, q, e, g.ht[at].bucket)
    BY <1>3
  <2> HIDE DEF at
  <2> QED BY <2>1, <2>2, <2>3, <2>4, UpdateIds
<1>6. /\ TableIds(t, key_hash) = Whole(t.ht[at].bucket, key_hash)
      /\ TableIds(g, key_hash) = Whole(g.ht[at].bucket, key_hash)
  BY <1>3, <1>4 DEF TableIds
<1>7. OthersKept(t, key_hash, g)
  <2>1. UnderHash(t.ht[at].bucket[q], key_hash) /\ e.key_hash = key_hash
    BY <1>1 DEF UnderHash
  <2> HIDE DEF at
  <2> QED BY <1>2, <2>1, RewrittenOthers
<1>8. e.entry_id = id
  BY <1>1
<1> QED BY <1>5, <1>6, <1>7, <1>8

\* What update does to the ids of all hashes, by what it returns.
LEMMA UpdateTable ==
    ASSUME NEW t, Good(t), NEW key_hash \in Nat, NEW id \in Nat,
           NEW upd, upd = HTUpdate(t, key_hash, id)
    PROVE  \/ upd.ret < 0 /\ upd.htObj = t
           \/ /\ upd.ret >= 0 /\ Replaces(TableIds(t, key_hash), id, TableIds(upd.htObj, key_hash))
              /\ OthersKept(t, key_hash, upd.htObj)
<1>1. CASE upd.ret >= 0 /\ Updated(t, key_hash, id, upd.htObj)
  <2> DEFINE g == upd.htObj
  <2>1. Good(g) /\ Updated(t, key_hash, id, g)
    BY <1>1, UpdateGood
  <2> HIDE DEF g
  <2>2. Replaces(TableIds(t, key_hash), id, TableIds(g, key_hash)) /\ OthersKept(t, key_hash, g)
    BY <2>1, UpdatedIds
  <2> QED BY <1>1, <2>2 DEF g
<1> QED BY <1>1, UpdateRewrites
-----------------------------------------------------------------------------
(* The order of the ids in a copy. *)

\* The ids under h at the positions that a copy of t at slot a and position b has passed.
PassedIds(t, a, b, h) ==
    IF t.ht_cap = 0 THEN <<>>
    ELSE LET s      == h % t.ht_cap
             bucket == t.ht[s].bucket
         IN  IF s < a THEN Whole(bucket, h) ELSE IF s = a THEN IdsIn(bucket, h)[b] ELSE <<>>

\* Nothing is passed where the loops of a copy begin.
LEMMA PassedNothing ==
    ASSUME NEW t, Good(t), NEW h \in Nat
    PROVE  PassedIds(t, 0, 0, h) = <<>>
<1>1. t.ht_cap \in Nat
  BY GoodParts
<1>2. CASE t.ht_cap = 0
  BY <1>2 DEF PassedIds
<1>3. CASE t.ht_cap # 0
  <2>1. h % t.ht_cap \in 0 .. t.ht_cap - 1
    BY <1>1, <1>3, SlotIndex
  <2>2. t.ht[h % t.ht_cap].bucket \in Seq(HashTableEntry) /\ ~(h % t.ht_cap < 0)
    <3> DEFINE s == h % t.ht_cap
    <3>1. s \in 0 .. t.ht_cap - 1
      BY <2>1
    <3> HIDE DEF s
    <3>2. t.ht[s].bucket \in Seq(HashTableEntry)
      BY <3>1, GoodBucket
    <3>3. ~(s < 0)
      BY <1>1, <3>1
    <3> QED BY <3>2, <3>3 DEF s
  <2>3. IdsIn(t.ht[h % t.ht_cap].bucket, h)[0] = <<>>
    BY <2>2, IdsFacts
  <2> QED BY <1>3, <2>2, <2>3 DEF PassedIds
<1> QED BY <1>2, <1>3

\* The inner loop passes one entry.
LEMMA PassedEntry ==
    ASSUME NEW t, Good(t), NEW a \in 0 .. t.ht_cap - 1, NEW b \in Nat,
           b < Len(t.ht[a].bucket), NEW h \in Nat
    PROVE  PassedIds(t, a, b + 1, h) = WithEntry(PassedIds(t, a, b, h), t.ht[a].bucket[b + 1], h)
<1>1. t.ht_cap \in Nat /\ t.ht_cap # 0
  BY GoodParts
<1>2. h % t.ht_cap \in 0 .. t.ht_cap - 1
  BY <1>1, SlotIndex
<1>3. /\ t.ht[a].bucket \in Seq(HashTableEntry) /\ Len(t.ht[a].bucket) \in Nat
      /\ b \in 0 .. Len(t.ht[a].bucket) - 1 /\ b + 1 \in DOMAIN t.ht[a].bucket
  <2>1. /\ t.ht[a].bucket \in Seq(HashTableEntry) /\ Len(t.ht[a].bucket) \in Nat
        /\ DOMAIN t.ht[a].bucket = 1 .. Len(t.ht[a].bucket)
    BY GoodBucket
  <2> QED BY <2>1
<1>4. CASE h % t.ht_cap = a
  <2>1. IdsIn(t.ht[a].bucket, h)[b + 1]
          = WithEntry(IdsIn(t.ht[a].bucket, h)[b], t.ht[a].bucket[b + 1], h)
    BY <1>3, IdsFacts
  <2>2. PassedIds(t, a, b, h) = IdsIn(t.ht[a].bucket, h)[b]
        /\ PassedIds(t, a, b + 1, h) = IdsIn(t.ht[a].bucket, h)[b + 1]
    BY <1>1, <1>4 DEF PassedIds
  <2> QED BY <2>1, <2>2
<1>5. CASE h % t.ht_cap # a
  <2>1. PassedIds(t, a, b + 1, h) = PassedIds(t, a, b, h)
    BY <1>1, <1>5 DEF PassedIds
  <2>2. UnderHash(t.ht[a].bucket[b + 1], h) => a = h % t.ht_cap
    BY <1>3 DEF Good, OwnSlots, InUse, UnderHash
  <2> QED BY <1>5, <2>1, <2>2 DEF WithEntry
<1> QED BY <1>4, <1>5

\* From the end of a slot to the beginning of the next nothing is passed.
LEMMA PassedSlot ==
    ASSUME NEW t, Good(t), NEW a \in 0 .. t.ht_cap - 1, NEW h \in Nat
    PROVE  PassedIds(t, a + 1, 0, h) = PassedIds(t, a, Len(t.ht[a].bucket), h)
<1>1. t.ht_cap \in Nat /\ t.ht_cap # 0
  BY GoodParts
<1>2. h % t.ht_cap \in 0 .. t.ht_cap - 1
  BY <1>1, SlotIndex
<1> DEFINE s == h % t.ht_cap
           B == t.ht[s].bucket
<1>3. B \in Seq(HashTableEntry)
  BY <1>2, GoodBucket
<1>4. IdsIn(B, h)[0] = <<>>
  <2> HIDE DEF B
  <2> QED BY <1>3, IdsFacts
<1>5. /\ PassedIds(t, a + 1, 0, h) = IF s < a + 1 THEN Whole(B, h)
                                     ELSE IF s = a + 1 THEN IdsIn(B, h)[0] ELSE <<>>
      /\ PassedIds(t, a, Len(t.ht[a].bucket), h) =
            IF s < a THEN Whole(B, h)
            ELSE IF s = a THEN IdsIn(B, h)[Len(t.ht[a].bucket)] ELSE <<>>
  BY <1>1 DEF PassedIds
<1>6. s \in 0 .. t.ht_cap - 1
  BY <1>2
<1>7. CASE s = a
  <2>1. s < a + 1 /\ ~(s < a)
    BY <1>1, <1>7
  <2>2. Whole(B, h) = IdsIn(B, h)[Len(t.ht[a].bucket)]
    BY <1>7 DEF Whole
  <2> HIDE DEF s, B
  <2> QED BY <1>5, <1>7, <2>1, <2>2
<1>8. CASE s # a
  <2>1. s < a + 1 <=> s < a
    <3> HIDE DEF s
    <3> QED BY <1>1, <1>6, <1>8
  <2> HIDE DEF s, B
  <2> QED BY <1>4, <1>5, <1>8, <2>1
<1> QED BY <1>7, <1>8

\* Everything is passed where the loops of a copy end.
LEMMA PassedAll ==
    ASSUME NEW t, Good(t), NEW b, NEW h \in Nat
    PROVE  PassedIds(t, t.ht_cap, b, h) = TableIds(t, h)
<1>1. t.ht_cap \in Nat
  BY GoodParts
<1>2. CASE t.ht_cap = 0
  BY <1>2 DEF PassedIds, TableIds
<1>3. CASE t.ht_cap # 0
  <2>1. h % t.ht_cap \in 0 .. t.ht_cap - 1
    BY <1>1, <1>3, SlotIndex
  <2>2. h % t.ht_cap < t.ht_cap
    BY <1>1, <2>1
  <2> QED BY <1>3, <2>2 DEF PassedIds, TableIds
<1> QED BY <1>2, <1>3

\* CopiedInOrder: a copy has put the ids of the positions it has passed into the
\* new table, per hash in their order; the tables have capacities asked for.
CopiedInOrder ==
    /\ htObj # NULL => htObj.ht_cap \in Caps
    /\ pc = "copy" => /\ htObj # NULL /\ htNew.ht_cap \in Caps
                      /\ \A h \in Nat : TableIds(htNew, h) = PassedIds(htObj, i, j, h)

LEMMA OrderOutside ==
    ASSUME NEW t, t # NULL => t.ht_cap \in Caps, htObj' = t, pc' # "copy"
    PROVE  CopiedInOrder'
BY DEF CopiedInOrder

LEMMA OrderInside ==
    ASSUME NEW t, t # NULL, t.ht_cap \in Caps, htObj' = t,
           NEW n, n.ht_cap \in Caps, htNew' = n, NEW a, i' = a, NEW b, j' = b,
           \A h \in Nat : TableIds(n, h) = PassedIds(t, a, b, h)
    PROVE  CopiedInOrder'
BY DEF CopiedInOrder

LEMMA OrderStartCopy ==
    ASSUME IndexIInv, CopiedInOrder, pc = "ready", NEW cap, htObj # NULL => cap \in Caps,
           NEW ok, StartCopy(cap, ok)
    PROVE  CopiedInOrder'
<1>1. CASE htObj = NULL \/ ~ok
  <2>1. htObj' = htObj /\ pc' # "copy"
    BY <1>1 DEF StartCopy, OnlyReturns
  <2> QED BY <2>1, OrderOutside DEF CopiedInOrder
<1>2. CASE ~(htObj = NULL \/ ~ok)
  <2>1. htNew' = HTCreate(cap) /\ htObj' = htObj /\ i' = 0 /\ j' = 0 /\ htObj # NULL /\ cap \in Caps
    BY <1>2 DEF StartCopy
  <2>2. Good(htObj) /\ cap \in Nat
    BY <2>1, GoodTables
  <2>3. HTCreate(cap).ht_cap = cap
    BY <2>2, CreateGood
  <2>4. \A h \in Nat : TableIds(HTCreate(cap), h) = PassedIds(htObj, 0, 0, h)
    BY <2>2, CreateIds, PassedNothing
  <2>5. htObj.ht_cap \in Caps
    BY <2>1 DEF CopiedInOrder
  <2> QED BY <2>1, <2>3, <2>4, <2>5, OrderInside
<1> QED BY <1>1, <1>2

LEMMA OrderCopyEntry ==
    ASSUME IndexIInv, CopiedInOrder, NEW ok \in AllocOutcome, CopyEntry(ok)
    PROVE  CopiedInOrder'
<1> SUFFICES ASSUME NEW e, e = htObj.ht[i].bucket[j + 1],
                    NEW ins, ins = HTInsert(htNew, e.key_hash, e.entry_id, ok)
             PROVE  CopiedInOrder'
  OBVIOUS
<1>1. /\ pc = "copy" /\ i < htObj.ht_cap /\ j < Len(htObj.ht[i].bucket) /\ ok \in BOOLEAN
  BY DEF CopyEntry, InBucket, AllocOutcome
<1>2. CopyFacts
  BY <1>1, InsideCopy
<1>3. Good(htObj) /\ Good(htNew) /\ i \in 0 .. htObj.ht_cap - 1 /\ j \in Nat
      /\ j + 1 \in DOMAIN htObj.ht[i].bucket
  BY <1>1, <1>2 DEF CopyFacts
<1>4. /\ htObj # NULL /\ htObj.ht_cap \in Caps /\ htNew.ht_cap \in Caps
      /\ \A h \in Nat : TableIds(htNew, h) = PassedIds(htObj, i, j, h)
  BY <1>1 DEF CopiedInOrder
<1>5. e.key_hash \in Nat /\ e.entry_id \in Id
  <2>1. e \in HashTableEntry
    BY <1>2, <1>3 DEF CopyFacts
  <2> QED BY <2>1 DEF HashTableEntry, Id
<1>6. \A h \in Nat : PassedIds(htObj, i, j + 1, h) = WithEntry(PassedIds(htObj, i, j, h), e, h)
  BY <1>1, <1>3, PassedEntry
<1>7. InsertTable(htNew, e.key_hash, e.entry_id, ins)
  BY <1>1, <1>3, <1>5, InsertIds
<1>8. CASE e.state # "HT_ENTRY_INUSE" /\ j' = j + 1 /\ UNCHANGED <<htObj, htNew, pc, i, ret>>
  <2>1. \A h \in Nat : TableIds(htNew, h) = PassedIds(htObj, i, j + 1, h)
    BY <1>4, <1>6, <1>8 DEF WithEntry, UnderHash
  <2> QED BY <1>4, <1>8, <2>1, OrderInside
<1>9. CASE /\ e.state = "HT_ENTRY_INUSE" /\ ins.ret >= 0
           /\ htNew' = ins.htObj /\ j' = j + 1 /\ UNCHANGED <<htObj, pc, i, ret>>
  <2> DEFINE g == ins.htObj
  <2>1. g.ht_cap = htNew.ht_cap /\ InsertsId(htNew, e.key_hash, e.entry_id, g)
    BY <1>9, <1>7 DEF InsertTable
  <2>2. htNew' = g
    BY <1>9
  <2> HIDE DEF g
  <2>3. ASSUME NEW h \in Nat
        PROVE  TableIds(g, h) = PassedIds(htObj, i, j + 1, h)
    <3>1. TableIds(g, h) = IF h = e.key_hash THEN Append(TableIds(htNew, h), e.entry_id)
                                             ELSE TableIds(htNew, h)
      BY <2>1 DEF InsertsId
    <3>2. UnderHash(e, h) <=> h = e.key_hash
      BY <1>9 DEF UnderHash
    <3> QED BY <1>4, <1>6, <3>1, <3>2 DEF WithEntry
  <2>4. g.ht_cap \in Caps
    BY <1>4, <2>1
  <2> QED BY <1>4, <1>9, <2>2, <2>3, <2>4, OrderInside
<1>10. CASE EndCopy(htObj, FALSE)
  <2>1. htObj' = htObj /\ pc' # "copy"
    BY <1>10 DEF EndCopy
  <2> QED BY <1>4, <2>1, OrderOutside
<1> QED BY <1>8, <1>9, <1>10 DEF CopyEntry

LEMMA OrderCopyNextSlot ==
    ASSUME IndexIInv, CopiedInOrder, CopyNextSlot
    PROVE  CopiedInOrder'
<1>1. /\ pc = "copy" /\ ~InBucket /\ i < htObj.ht_cap
      /\ i' = i + 1 /\ j' = 0 /\ htObj' = htObj /\ htNew' = htNew
  BY DEF CopyNextSlot
<1>2. CopyFacts
  BY <1>1, InsideCopy
<1>3. Good(htObj) /\ i \in 0 .. htObj.ht_cap - 1 /\ j = Len(htObj.ht[i].bucket)
  BY <1>1, <1>2 DEF CopyFacts, InBucket
<1>4. /\ htObj # NULL /\ htObj.ht_cap \in Caps /\ htNew.ht_cap \in Caps
      /\ \A h \in Nat : TableIds(htNew, h) = PassedIds(htObj, i, j, h)
  BY <1>1 DEF CopiedInOrder
<1>5. \A h \in Nat : PassedIds(htObj, i + 1, 0, h) = PassedIds(htObj, i, Len(htObj.ht[i].bucket), h)
  BY <1>3, PassedSlot
<1>6. \A h \in Nat : TableIds(htNew, h) = PassedIds(htObj, i + 1, 0, h)
  BY <1>3, <1>4, <1>5
<1> QED BY <1>1, <1>4, <1>6, OrderInside

\* Every step keeps the order of the copy.
LEMMA OrderStep == IndexIInv /\ CopiedInOrder /\ [Next]_vars => CopiedInOrder'
<1> SUFFICES ASSUME IndexIInv, CopiedInOrder, [Next]_vars
             PROVE  CopiedInOrder'
  OBVIOUS
<1>0. htObj # NULL => Good(htObj) /\ htObj.ht_cap \in Caps
  BY GoodTables DEF CopiedInOrder
<1>1. CASE HTObject_destroy
  BY <1>1, OrderOutside DEF HTObject_destroy
<1>2. ASSUME NEW cap \in Caps, NEW ok, HTObject_create(cap, ok)
      PROVE  CopiedInOrder'
  <2>1. pc' # "copy" /\ (htObj' = HTCreate(cap) \/ htObj' = NULL)
    BY <1>2 DEF HTObject_create
  <2>2. HTCreate(cap).ht_cap \in Caps
    BY CreateGood
  <2> QED BY <2>1, <2>2, OrderOutside
<1>3. ASSUME NEW h \in Hashes, NEW id \in Ids, NEW ok \in AllocOutcome,
             HTObject_insert(h, id, ok)
      PROVE  CopiedInOrder'
  <2>1. ok \in BOOLEAN /\ h \in Nat /\ id \in Id /\ pc = "ready"
    BY <1>3 DEF AllocOutcome, HTObject_insert, Id
  <2>2. CASE htObj = NULL
    <3>1. htObj' = htObj /\ pc' # "copy"
      BY <1>3, <2>2 DEF HTObject_insert, OnlyReturns
    <3> QED BY <1>0, <3>1, OrderOutside
  <2>3. CASE htObj # NULL
    <3> PICK ins : ins = HTInsert(htObj, h, id, ok)
      OBVIOUS
    <3>1. htObj' = ins.htObj /\ pc' # "copy"
      BY <1>3, <2>1, <2>3 DEF HTObject_insert, Applies
    <3>2. InsertTable(htObj, h, id, ins)
      BY <1>0, <2>1, <2>3, InsertIds
    <3>3. ins.htObj.ht_cap \in Caps
      BY <1>0, <2>3, <3>2 DEF InsertTable
    <3> QED BY <3>1, <3>3, OrderOutside
  <2> QED BY <2>2, <2>3
<1>4. ASSUME NEW h \in Hashes, NEW id \in Ids, HTObject_update(h, id)
      PROVE  CopiedInOrder'
  <2>1. h \in Nat /\ id \in Nat /\ pc = "ready"
    BY <1>4 DEF HTObject_update
  <2>2. CASE htObj = NULL
    <3>1. htObj' = htObj /\ pc' # "copy"
      BY <1>4, <2>2 DEF HTObject_update, OnlyReturns
    <3> QED BY <1>0, <3>1, OrderOutside
  <2>3. CASE htObj # NULL
    <3> PICK upd : upd = HTUpdate(htObj, h, id)
      OBVIOUS
    <3>1. htObj' = upd.htObj /\ pc' # "copy"
      BY <1>4, <2>1, <2>3 DEF HTObject_update, Applies
    <3>2. upd.htObj = htObj \/ Updated(htObj, h, id, upd.htObj)
      BY <1>0, <2>1, <2>3, UpdateRewrites
    <3>3. upd.htObj.ht_cap = htObj.ht_cap
      BY <3>2 DEF Updated, Rewritten
    <3> QED BY <1>0, <2>3, <3>1, <3>3, OrderOutside
  <2> QED BY <2>2, <2>3
<1>5. ASSUME NEW h \in Hashes, NEW id \in Ids, HTObject_delete(h, id)
      PROVE  CopiedInOrder'
  <2>1. h \in Nat /\ id \in Nat /\ pc = "ready"
    BY <1>5 DEF HTObject_delete
  <2>2. CASE htObj' = htObj /\ pc' # "copy"
    BY <1>0, <2>2, OrderOutside
  <2>3. CASE /\ htObj # NULL /\ htObj.ht_cap > 0
             /\ Applies("delete", HTDelete(htObj, h, id))
    <3> PICK del : del = HTDelete(htObj, h, id)
      OBVIOUS
    <3>1. htObj' = del.htObj /\ pc' # "copy"
      BY <2>1, <2>3 DEF Applies
    <3>2. del.htObj.ht_cap = htObj.ht_cap
      BY DEF HTDelete
    <3> QED BY <1>0, <2>3, <3>1, <3>2, OrderOutside
  <2>4. \/ htObj' = htObj /\ pc' # "copy"
        \/ /\ htObj # NULL /\ htObj.ht_cap > 0
           /\ Applies("delete", HTDelete(htObj, h, id))
    BY <1>5 DEF HTObject_delete, OnlyReturns
  <2> QED BY <2>2, <2>3, <2>4
<1>6. ASSUME NEW cap \in Caps, NEW ok, HTObject_resize(cap, ok)
      PROVE  CopiedInOrder'
  <2>1. pc = "ready" /\ StartCopy(cap, ok)
    BY <1>6 DEF HTObject_resize
  <2> QED BY <2>1, OrderStartCopy
<1>7. ASSUME NEW ok, HTObject_compact(ok)
      PROVE  CopiedInOrder'
  <2> SUFFICES ASSUME NEW cap, cap = IF htObj = NULL THEN 0 ELSE htObj.ht_cap
               PROVE  CopiedInOrder'
    OBVIOUS
  <2>1. pc = "ready" /\ StartCopy(cap, ok)
    BY <1>7 DEF HTObject_compact
  <2>2. htObj # NULL => cap \in Caps
    BY <1>0
  <2> QED BY <2>1, <2>2, OrderStartCopy
<1>8. CASE CopyDone
  <2>1. pc = "copy" /\ htObj' = htNew /\ pc' # "copy"
    BY <1>8 DEF CopyDone, EndCopy
  <2>2. htNew.ht_cap \in Caps
    BY <2>1 DEF CopiedInOrder
  <2> QED BY <2>1, <2>2, OrderOutside
<1>9. CASE UNCHANGED vars
  BY <1>9 DEF vars, CopiedInOrder
<1> QED BY <1>1, <1>2, <1>3, <1>4, <1>5, <1>6, <1>7, <1>8, <1>9, OrderCopyEntry,
           OrderCopyNextSlot DEF Next, CopyStep
-----------------------------------------------------------------------------
(* The steps of the index are steps of the multimap. *)

\* The multimap that a table stands for.
Kept(t) == [h \in Hashes |-> IdsOf(t, h)]

\* A table, that is not NULL, of a capacity asked for.
Held(t) == Good(t) /\ t.ht_cap \in Caps

\* A table at hand is not NULL, and what is under a hash are the ids of its slot.
LEMMA HeldIds ==
    ASSUME NEW t, Held(t), NEW h \in Hashes
    PROVE  t # NULL /\ IdsOf(t, h) = TableIds(t, h)
<1>1. t \in HTObject(t.ht_cap) /\ t.ht_cap \in Caps
  BY GoodSlots DEF Held
<1>2. t # NULL
  BY <1>1, NullAssumption
<1> QED BY <1>2, IdsOfTable

LEMMA KeptOf ==
    ASSUME NEW t, NEW h \in Hashes
    PROVE  Kept(t)[h] = IdsOf(t, h)
BY DEF Kept

LEMMA KeptNone ==
    ASSUME NEW t, \A h \in Hashes : IdsOf(t, h) = <<>>
    PROVE  Kept(t) = Multimap!Nothing
BY DEF Kept, Multimap!Nothing

LEMMA KeptNull == Kept(NULL) = Multimap!Nothing
<1>1. \A h \in Hashes : IdsOf(NULL, h) = <<>>
  BY DEF IdsOf
<1> QED BY <1>1, KeptNone

\* A table in which the ids of one hash have become another sequence.
LEMMA KeptExcept ==
    ASSUME NEW t, NEW g, NEW h \in Hashes, NEW r, IdsOf(g, h) = r,
           \A o \in Hashes : o # h => IdsOf(g, o) = IdsOf(t, o)
    PROVE  Kept(g) = [Kept(t) EXCEPT ![h] = r]
BY DEF Kept

\* The multimap reads the table and the answer, no other variable.
LEMMA MapSame ==
    ASSUME Kept(htObj') = Kept(htObj), ret' = ret
    PROVE  UNCHANGED Multimap!mvars
BY DEF Kept, Multimap!mvars

LEMMA MapCreate ==
    ASSUME Kept(htObj) = Multimap!Nothing, Kept(htObj') = Kept(htObj), NEW ok \in BOOLEAN,
           ret' = [op |-> "create", ok |-> ok]
    PROVE  Multimap!MNext
BY DEF Kept, Multimap!MNext, Multimap!Create, Multimap!Without, Multimap!Answers

LEMMA MapDestroy ==
    ASSUME Kept(htObj') = Multimap!Nothing, ret' = [op |-> "destroy", ok |-> TRUE]
    PROVE  Multimap!MNext
BY DEF Kept, Multimap!MNext, Multimap!Destroy, Multimap!Answers

LEMMA MapCopy ==
    ASSUME Kept(htObj') = Kept(htObj), NEW ok \in BOOLEAN, ret' = [op |-> "copy", ok |-> ok]
    PROVE  Multimap!MNext
BY DEF Kept, Multimap!MNext, Multimap!Copy, Multimap!Without, Multimap!Answers

LEMMA MapDie ==
    ASSUME Kept(htObj) = Multimap!Nothing, Kept(htObj') = Kept(htObj),
           ret' = [op |-> "delete", ok |-> FALSE]
    PROVE  Multimap!MNext
BY DEF Kept, Multimap!MNext, Multimap!Die, Multimap!Without, Multimap!Answers

LEMMA MapRefused ==
    ASSUME Kept(htObj') = Kept(htObj), NEW op \in {"insert", "update"},
           ret' = [op |-> op, ok |-> FALSE], NEW h \in Hashes, NEW id \in Ids
    PROVE  Multimap!MNext
<1>1. CASE op = "insert"
  <2>1. Multimap!Insert(h, id)
    BY <1>1 DEF Kept, Multimap!Insert, Multimap!Without, Multimap!Answers
  <2> QED BY <2>1 DEF Multimap!MNext
<1>2. CASE op = "update"
  <2>1. Multimap!Update(h, id)
    BY <1>2 DEF Kept, Multimap!Update, Multimap!Without, Multimap!Answers
  <2> QED BY <2>1 DEF Multimap!MNext
<1> QED BY <1>1, <1>2

LEMMA MapInsert ==
    ASSUME NEW h \in Hashes, NEW id \in Ids, ret' = [op |-> "insert", ok |-> TRUE],
           Kept(htObj') = [Kept(htObj) EXCEPT ![h] = Append(Kept(htObj)[h], id)]
    PROVE  Multimap!MNext
<1>1. Multimap!Insert(h, id)
  BY DEF Kept, Multimap!Insert, Multimap!Answers
<1> QED BY <1>1 DEF Multimap!MNext

LEMMA MapUpdate ==
    ASSUME NEW h \in Hashes, NEW id \in Ids, ret' = [op |-> "update", ok |-> TRUE],
           Kept(htObj)[h] # <<>>,
           Kept(htObj') = [Kept(htObj) EXCEPT ![h] = [Kept(htObj)[h] EXCEPT ![1] = id]]
    PROVE  Multimap!MNext
<1>1. Multimap!Update(h, id)
  BY DEF Kept, Multimap!Update, Multimap!Answers
<1> QED BY <1>1 DEF Multimap!MNext

LEMMA MapDelete ==
    ASSUME NEW h \in Hashes, NEW id \in Ids, ret' = [op |-> "delete", ok |-> TRUE],
           \E m \in 1 .. Len(Kept(htObj)[h]) : Kept(htObj)[h][m] = id,
           Kept(htObj') = [Kept(htObj) EXCEPT ![h] = Multimap!RemoveFirst(Kept(htObj)[h], id)]
    PROVE  Multimap!MNext
<1>1. Multimap!Delete(h, id)
  BY DEF Kept, Multimap!Delete, Multimap!Answers, Multimap!Contains
<1> QED BY <1>1 DEF Multimap!MNext

LEMMA MapDeleteRefused ==
    ASSUME NEW h \in Hashes, NEW id \in Ids, ret' = [op |-> "delete", ok |-> FALSE],
           \A m \in 1 .. Len(Kept(htObj)[h]) : Kept(htObj)[h][m] # id,
           Kept(htObj') = Kept(htObj)
    PROVE  Multimap!MNext
<1>1. Multimap!Delete(h, id)
  BY DEF Kept, Multimap!Delete, Multimap!Without, Multimap!Answers, Multimap!Contains
<1> QED BY <1>1 DEF Multimap!MNext

LEMMA UpdateRet ==
    ASSUME NEW t, Good(t), NEW key_hash \in Nat, NEW id \in Nat
    PROVE  HTUpdate(t, key_hash, id).ret \in Int
<1> PICK upd : upd = HTUpdate(t, key_hash, id)
  OBVIOUS
<1>1. t.ht_cap \in Nat /\ (t.ht_cap = 0 => t.ht_entry_cnt = 0)
  BY GoodParts
<1>2. upd.ret = -1 \/ (upd.ret = key_hash % t.ht_cap /\ ~(t.ht_entry_cnt >= t.ht_cap))
  BY DEF HTUpdate
<1>3. CASE upd.ret = key_hash % t.ht_cap /\ ~(t.ht_entry_cnt >= t.ht_cap)
  <2>1. t.ht_cap > 0
    BY <1>1, <1>3
  <2> QED BY <1>1, <1>3, <2>1
<1> QED BY <1>2, <1>3

LEMMA DeleteRet ==
    ASSUME NEW t, Good(t), t.ht_cap > 0, NEW key_hash \in Nat, NEW id \in Nat
    PROVE  HTDelete(t, key_hash, id).ret \in Int
<1> PICK del : del = HTDelete(t, key_hash, id)
  OBVIOUS
<1>1. t.ht_cap \in Nat
  BY GoodParts
<1>2. del.ret = -1 \/ del.ret = key_hash % t.ht_cap
  BY DEF HTDelete
<1> QED BY <1>1, <1>2

\* What the refinement of a step rests on.
OrderFacts ==
    /\ htObj # NULL => Held(htObj) /\ Counts(htObj)
    /\ pc = "copy" => Held(htObj) /\ Held(htNew)

\* The invariants give what the steps need of the table at hand.
LEMMA OrderAtHand ==
    ASSUME IndexIInv, CountsAgree, CopiedInOrder
    PROVE  OrderFacts
BY GoodTables DEF OrderFacts, CountsAgree, CopiedInOrder, Held

\* An answer that depends on the sign of the C return value.
LEMMA Answered ==
    ASSUME NEW op, NEW result, result.ret \in Int, Applies(op, result)
    PROVE  /\ htObj' = result.htObj
           /\ result.ret >= 0 => ret' = [op |-> op, ok |-> TRUE]
           /\ result.ret < 0 => ret' = [op |-> op, ok |-> FALSE]
<1>1. htObj' = result.htObj /\ ret' = [op |-> op, ok |-> result.ret >= 0]
  BY DEF Applies, Returns
<1>2. ASSUME result.ret >= 0 PROVE (result.ret >= 0) = TRUE
  BY <1>2
<1>3. ASSUME result.ret < 0 PROVE (result.ret >= 0) = FALSE
  BY <1>3
<1> QED BY <1>1, <1>2, <1>3

\* An insert is an insert of the multimap.
LEMMA MultimapInsert ==
    ASSUME OrderFacts, NEW h \in Hashes, NEW id \in Ids, NEW ok \in AllocOutcome,
           HTObject_insert(h, id, ok)
    PROVE  Multimap!MNext
<1>1. ok \in BOOLEAN /\ h \in Nat /\ id \in Id
  BY DEF AllocOutcome, Id
<1>2. CASE htObj = NULL
  <2>1. htObj' = htObj /\ ret' = [op |-> "insert", ok |-> FALSE]
    BY <1>2 DEF HTObject_insert, OnlyReturns, Returns
  <2>2. Kept(htObj') = Kept(htObj)
    BY <2>1
  <2> QED BY <2>1, <2>2, MapRefused
<1>3. CASE htObj # NULL
  <2>1. Held(htObj) /\ Good(htObj)
    BY <1>3 DEF OrderFacts, Held
  <2> DEFINE ins == HTInsert(htObj, h, id, ok)
             g == ins.htObj
  <2>2. Applies("insert", ins)
    BY <1>3 DEF HTObject_insert
  <2>3. InsertTable(htObj, h, id, ins)
    BY <1>1, <2>1, InsertIds
  <2> HIDE DEF ins
  <2>4. ins.ret \in Int
    BY <2>3 DEF InsertTable
  <2>5. /\ htObj' = g
        /\ ins.ret >= 0 => ret' = [op |-> "insert", ok |-> TRUE]
        /\ ins.ret < 0 => ret' = [op |-> "insert", ok |-> FALSE]
    BY <2>2, <2>4, Answered
  <2>6. CASE ins.ret < 0
    <3>1. htObj' = htObj /\ ret' = [op |-> "insert", ok |-> FALSE]
      BY <2>3, <2>5, <2>6 DEF InsertTable
    <3>2. Kept(htObj') = Kept(htObj)
      BY <3>1
    <3> QED BY <3>1, <3>2, MapRefused
  <2>7. CASE ins.ret >= 0
    <3>1. Held(g) /\ InsertsId(htObj, h, id, g)
      BY <2>1, <2>3, <2>7 DEF InsertTable, Held
    <3> HIDE DEF g
    <3>2. \A o \in Hashes : o \in Nat /\ IdsOf(g, o) = TableIds(g, o)
                            /\ IdsOf(htObj, o) = TableIds(htObj, o)
      BY <2>1, <3>1, HeldIds
    <3>3. IdsOf(g, h) = Append(Kept(htObj)[h], id)
      BY <1>1, <3>1, <3>2, KeptOf DEF InsertsId
    <3>4. \A o \in Hashes : o # h => IdsOf(g, o) = IdsOf(htObj, o)
      BY <3>1, <3>2 DEF InsertsId
    <3>5. Kept(g) = [Kept(htObj) EXCEPT ![h] = Append(Kept(htObj)[h], id)]
      BY <3>3, <3>4, KeptExcept
    <3>6. Kept(htObj') = [Kept(htObj) EXCEPT ![h] = Append(Kept(htObj)[h], id)]
      BY <2>5, <3>5
    <3>7. ret' = [op |-> "insert", ok |-> TRUE]
      BY <2>5, <2>7
    <3> QED BY <3>6, <3>7, MapInsert
  <2> QED BY <2>4, <2>6, <2>7
<1> QED BY <1>2, <1>3

\* The other hashes keep their ids, in the terms of the multimap.
LEMMA OthersMap ==
    ASSUME NEW t, Held(t), NEW g, Held(g), NEW h \in Hashes, OthersKept(t, h, g)
    PROVE  Kept(g) = [Kept(t) EXCEPT ![h] = TableIds(g, h)]
<1>1. \A o \in Hashes : o \in Nat /\ IdsOf(g, o) = TableIds(g, o) /\ IdsOf(t, o) = TableIds(t, o)
  BY HeldIds
<1>2. \A o \in Hashes : o # h => IdsOf(g, o) = IdsOf(t, o)
  BY <1>1 DEF OthersKept
<1>3. IdsOf(g, h) = TableIds(g, h)
  BY <1>1
<1> QED BY <1>2, <1>3, KeptExcept

\* An update is an update of the multimap.
LEMMA MultimapUpdate ==
    ASSUME OrderFacts, NEW h \in Hashes, NEW id \in Ids, HTObject_update(h, id)
    PROVE  Multimap!MNext
<1>1. h \in Nat /\ id \in Nat
  OBVIOUS
<1>2. CASE htObj = NULL
  <2>1. htObj' = htObj /\ ret' = [op |-> "update", ok |-> FALSE]
    BY <1>2 DEF HTObject_update, OnlyReturns, Returns
  <2>2. Kept(htObj') = Kept(htObj)
    BY <2>1
  <2> QED BY <2>1, <2>2, MapRefused
<1>3. CASE htObj # NULL
  <2>1. Held(htObj) /\ Good(htObj)
    BY <1>3 DEF OrderFacts, Held
  <2> DEFINE upd == HTUpdate(htObj, h, id)
             g == upd.htObj
  <2>2. Applies("update", upd)
    BY <1>3 DEF HTObject_update
  <2>3. \/ upd.ret < 0 /\ upd.htObj = htObj
        \/ /\ upd.ret >= 0 /\ Replaces(TableIds(htObj, h), id, TableIds(upd.htObj, h))
           /\ OthersKept(htObj, h, upd.htObj)
    BY <1>1, <2>1, UpdateTable
  <2>4. Good(g)
    BY <1>1, <2>1, UpdateGood
  <2>5. g.ht_cap = htObj.ht_cap
    <3>1. upd.htObj = htObj \/ Updated(htObj, h, id, upd.htObj)
      BY <1>1, <2>1, UpdateRewrites
    <3> HIDE DEF upd
    <3> QED BY <3>1 DEF Updated, Rewritten
  <2>6. upd.ret \in Int
    BY <1>1, <2>1, UpdateRet
  <2> HIDE DEF upd
  <2>7. /\ htObj' = g
        /\ upd.ret >= 0 => ret' = [op |-> "update", ok |-> TRUE]
        /\ upd.ret < 0 => ret' = [op |-> "update", ok |-> FALSE]
    BY <2>2, <2>6, Answered
  <2>8. CASE upd.ret < 0 /\ upd.htObj = htObj
    <3>1. htObj' = htObj /\ ret' = [op |-> "update", ok |-> FALSE]
      BY <2>7, <2>8
    <3>2. Kept(htObj') = Kept(htObj)
      BY <3>1
    <3> QED BY <3>1, <3>2, MapRefused
  <2>9. CASE /\ upd.ret >= 0
            /\ Replaces(TableIds(htObj, h), id, TableIds(g, h))
            /\ OthersKept(htObj, h, g)
    <3>1. Held(g) /\ Replaces(TableIds(htObj, h), id, TableIds(g, h)) /\ OthersKept(htObj, h, g)
      BY <2>1, <2>4, <2>5, <2>9 DEF Held
    <3> HIDE DEF g
    <3>2. Kept(g) = [Kept(htObj) EXCEPT ![h] = TableIds(g, h)]
      BY <2>1, <3>1, OthersMap
    <3>3. Kept(htObj)[h] = TableIds(htObj, h)
      BY <2>1, HeldIds, KeptOf
    <3>4. Kept(htObj)[h] # <<>> /\ TableIds(g, h) = [Kept(htObj)[h] EXCEPT ![1] = id]
      BY <3>1, <3>3 DEF Replaces
    <3>5. Kept(htObj') = [Kept(htObj) EXCEPT ![h] = [Kept(htObj)[h] EXCEPT ![1] = id]]
      BY <2>7, <3>2, <3>4
    <3>6. ret' = [op |-> "update", ok |-> TRUE]
      BY <2>7, <2>9
    <3> QED BY <3>4, <3>5, <3>6, MapUpdate
  <2> QED BY <2>3, <2>8, <2>9
<1> QED BY <1>2, <1>3

\* A delete is a delete of the multimap.
LEMMA MultimapDelete ==
    ASSUME OrderFacts, NEW h \in Hashes, NEW id \in Ids, HTObject_delete(h, id)
    PROVE  Multimap!MNext
<1>1. h \in Nat /\ id \in Nat
  OBVIOUS
<1>2. CASE htObj = NULL /\ OnlyReturns("delete", FALSE)
  <2>1. htObj' = htObj /\ ret' = [op |-> "delete", ok |-> FALSE]
    BY <1>2 DEF OnlyReturns, Returns
  <2>2. Kept(htObj) = Multimap!Nothing
    BY <1>2, KeptNull
  <2>3. Kept(htObj') = Kept(htObj)
    BY <2>1
  <2> QED BY <2>1, <2>2, <2>3, MapDie
<1>3. CASE htObj # NULL /\ htObj.ht_cap > 0 /\ Applies("delete", HTDelete(htObj, h, id))
  <2>1. Held(htObj) /\ Good(htObj) /\ Counts(htObj) /\ htObj.ht_cap > 0
    BY <1>3 DEF OrderFacts, Held
  <2> DEFINE del == HTDelete(htObj, h, id)
             g == del.htObj
  <2>2. Applies("delete", del)
    BY <1>3
  <2>3. \/ /\ del.ret < 0 /\ del.htObj = htObj
           /\ \A m \in 1 .. Len(TableIds(htObj, h)) : TableIds(htObj, h)[m] # id
        \/ /\ del.ret >= 0 /\ Removes(TableIds(htObj, h), id, TableIds(del.htObj, h))
           /\ OthersKept(htObj, h, del.htObj)
    BY <1>1, <2>1, DeleteTable
  <2>4. Good(g) /\ g.ht_cap = htObj.ht_cap
    <3>1. Good(del.htObj)
      BY <1>1, <2>1, DeleteGood
    <3>2. del.htObj.ht_cap = htObj.ht_cap
      BY DEF HTDelete
    <3> QED BY <3>1, <3>2
  <2>5. del.ret \in Int
    BY <1>1, <2>1, DeleteRet
  <2> HIDE DEF del
  <2>6. /\ htObj' = g
        /\ del.ret >= 0 => ret' = [op |-> "delete", ok |-> TRUE]
        /\ del.ret < 0 => ret' = [op |-> "delete", ok |-> FALSE]
    BY <2>2, <2>5, Answered
  <2>7. Kept(htObj)[h] = TableIds(htObj, h)
    BY <2>1, HeldIds, KeptOf
  <2>8. CASE /\ del.ret < 0 /\ g = htObj
             /\ \A m \in 1 .. Len(TableIds(htObj, h)) : TableIds(htObj, h)[m] # id
    <3>1. htObj' = htObj /\ ret' = [op |-> "delete", ok |-> FALSE]
      BY <2>6, <2>8
    <3>2. Kept(htObj') = Kept(htObj)
      BY <3>1
    <3>3. \A m \in 1 .. Len(Kept(htObj)[h]) : Kept(htObj)[h][m] # id
      BY <2>8, <2>7
    <3> QED BY <3>1, <3>2, <3>3, MapDeleteRefused
  <2>9. CASE /\ del.ret >= 0
            /\ Removes(TableIds(htObj, h), id, TableIds(g, h))
            /\ OthersKept(htObj, h, g)
    <3>1. Held(g) /\ Removes(TableIds(htObj, h), id, TableIds(g, h)) /\ OthersKept(htObj, h, g)
      BY <2>1, <2>4, <2>9 DEF Held
    <3> HIDE DEF g
    <3>2. Kept(g) = [Kept(htObj) EXCEPT ![h] = TableIds(g, h)]
      BY <2>1, <3>1, OthersMap
    <3>3. /\ \E m \in 1 .. Len(Kept(htObj)[h]) : Kept(htObj)[h][m] = id
          /\ TableIds(g, h) = Multimap!RemoveFirst(Kept(htObj)[h], id)
      BY <2>7, <3>1 DEF Removes
    <3>4. Kept(htObj') = [Kept(htObj) EXCEPT ![h] = Multimap!RemoveFirst(Kept(htObj)[h], id)]
      BY <2>6, <3>2, <3>3
    <3>5. ret' = [op |-> "delete", ok |-> TRUE]
      BY <2>6, <2>9
    <3> QED BY <3>3, <3>4, <3>5, MapDelete
  <2> QED BY <2>3, <2>8, <2>9
<1>4. CASE htObj # NULL /\ htObj.ht_cap = 0 /\ Returns("delete", FALSE) /\ UNCHANGED htObj
  <2>1. htObj' = htObj /\ ret' = [op |-> "delete", ok |-> FALSE]
    BY <1>4 DEF Returns
  <2>2. \A o \in Hashes : IdsOf(htObj, o) = <<>>
    BY <1>4 DEF IdsOf
  <2>3. Kept(htObj) = Multimap!Nothing
    BY <2>2, KeptNone
  <2>4. Kept(htObj') = Kept(htObj)
    BY <2>1
  <2> QED BY <2>1, <2>3, <2>4, MapDie
<1> QED BY <1>2, <1>3, <1>4 DEF HTObject_delete

LEMMA MultimapStartCopy ==
    ASSUME NEW cap, NEW ok, StartCopy(cap, ok)
    PROVE  Multimap!MNext \/ UNCHANGED Multimap!mvars
<1>1. CASE OnlyReturns("copy", FALSE)
  <2>1. htObj' = htObj /\ ret' = [op |-> "copy", ok |-> FALSE]
    BY <1>1 DEF OnlyReturns, Returns
  <2>2. Kept(htObj') = Kept(htObj)
    BY <2>1
  <2> QED BY <2>1, <2>2, MapCopy
<1>2. CASE htObj' = htObj /\ ret' = ret
  <2>1. Kept(htObj') = Kept(htObj)
    BY <1>2
  <2> QED BY <1>2, <2>1, MapSame
<1> QED BY <1>1, <1>2 DEF StartCopy

\* The end of a copy: the table is the same, or it has the same ids in the same order.
LEMMA MultimapEndCopy ==
    ASSUME NEW t, Kept(t) = Kept(htObj), NEW ok \in BOOLEAN, EndCopy(t, ok)
    PROVE  Multimap!MNext
<1>1. htObj' = t /\ ret' = [op |-> "copy", ok |-> ok]
  BY DEF EndCopy, Returns
<1>2. Kept(htObj') = Kept(htObj)
  BY <1>1
<1> QED BY <1>1, <1>2, MapCopy

LEMMA MultimapCopyDone ==
    ASSUME IndexIInv, CopiedInOrder, OrderFacts, CopyDone
    PROVE  Multimap!MNext
<1>1. pc = "copy" /\ i >= htObj.ht_cap /\ EndCopy(htNew, TRUE)
  BY DEF CopyDone
<1>2. CopyFacts
  BY <1>1, InsideCopy
<1>3. i = htObj.ht_cap /\ Good(htObj)
  BY <1>1, <1>2 DEF CopyFacts
<1>4. Held(htObj) /\ Held(htNew)
  BY <1>1 DEF OrderFacts
<1>5. \A h \in Nat : TableIds(htNew, h) = PassedIds(htObj, i, j, h)
  BY <1>1 DEF CopiedInOrder
<1>6. \A h \in Nat : PassedIds(htObj, htObj.ht_cap, j, h) = TableIds(htObj, h)
  BY <1>3, PassedAll
<1>7. \A h \in Hashes : IdsOf(htNew, h) = IdsOf(htObj, h)
  <2> SUFFICES ASSUME NEW h \in Hashes PROVE IdsOf(htNew, h) = IdsOf(htObj, h)
    OBVIOUS
  <2>1. IdsOf(htNew, h) = TableIds(htNew, h) /\ IdsOf(htObj, h) = TableIds(htObj, h)
    BY <1>4, HeldIds
  <2> QED BY <1>3, <1>5, <1>6, <2>1
<1>8. Kept(htNew) = Kept(htObj)
  BY <1>7 DEF Kept
<1> QED BY <1>1, <1>8, MultimapEndCopy

\* Every step of the index is a step of the multimap or leaves it as it is.
LEMMA MultimapStep ==
    IndexIInv /\ CountsAgree /\ CopiedInOrder /\ [Next]_vars => [Multimap!MNext]_(Multimap!mvars)
<1> SUFFICES ASSUME IndexIInv, CountsAgree, CopiedInOrder, [Next]_vars
             PROVE  Multimap!MNext \/ UNCHANGED Multimap!mvars
  OBVIOUS
<1>0. OrderFacts
  BY OrderAtHand
<1>1. ASSUME NEW cap \in Caps, NEW ok \in AllocOutcome, HTObject_create(cap, ok)
      PROVE  Multimap!MNext
  <2>1. /\ htObj = NULL /\ ok \in BOOLEAN /\ htObj' = (IF ok THEN HTCreate(cap) ELSE NULL)
        /\ ret' = [op |-> "create", ok |-> ok]
    BY <1>1 DEF HTObject_create, Returns, AllocOutcome
  <2>2. Kept(htObj) = Multimap!Nothing
    BY <2>1, KeptNull
  <2>3. Kept(HTCreate(cap)) = Multimap!Nothing
    <3>1. ASSUME NEW h \in Hashes PROVE IdsOf(HTCreate(cap), h) = <<>>
      <4>1. HTCreate(cap) # NULL => IdsOf(HTCreate(cap), h) = TableIds(HTCreate(cap), h)
        BY IdsOfTable
      <4>2. TableIds(HTCreate(cap), h) = <<>>
        BY CreateIds
      <4>3. IdsOf(NULL, h) = <<>>
        BY DEF IdsOf
      <4> QED BY <4>1, <4>2, <4>3
    <3> QED BY <3>1, KeptNone
  <2>4. Kept(htObj') = Kept(htObj)
    BY <2>1, <2>2, <2>3
  <2> QED BY <2>1, <2>2, <2>4, MapCreate
<1>2. CASE HTObject_destroy
  <2>1. htObj' = NULL /\ ret' = [op |-> "destroy", ok |-> TRUE]
    BY <1>2 DEF HTObject_destroy, Returns
  <2>2. Kept(htObj') = Multimap!Nothing
    BY <2>1, KeptNull
  <2> QED BY <2>1, <2>2, MapDestroy
<1>3. ASSUME NEW h \in Hashes, NEW id \in Ids,
             \/ \E ok \in AllocOutcome : HTObject_insert(h, id, ok)
             \/ HTObject_update(h, id) \/ HTObject_delete(h, id)
      PROVE  Multimap!MNext
  BY <1>0, <1>3, MultimapInsert, MultimapUpdate, MultimapDelete
<1>4. ASSUME NEW cap, NEW ok, HTObject_resize(cap, ok)
      PROVE  Multimap!MNext \/ UNCHANGED Multimap!mvars
  <2>1. StartCopy(cap, ok)
    BY <1>4 DEF HTObject_resize
  <2> QED BY <2>1, MultimapStartCopy
<1>5. ASSUME NEW ok, HTObject_compact(ok)
      PROVE  Multimap!MNext \/ UNCHANGED Multimap!mvars
  <2>1. StartCopy(IF htObj = NULL THEN 0 ELSE htObj.ht_cap, ok)
    BY <1>5 DEF HTObject_compact
  <2> QED BY <2>1, MultimapStartCopy
<1>6. ASSUME NEW ok, CopyEntry(ok)
      PROVE  Multimap!MNext \/ UNCHANGED Multimap!mvars
  <2>1. (htObj' = htObj /\ ret' = ret) \/ EndCopy(htObj, FALSE)
    BY <1>6 DEF CopyEntry
  <2>2. CASE htObj' = htObj /\ ret' = ret
    <3>1. Kept(htObj') = Kept(htObj)
      BY <2>2
    <3> QED BY <2>2, <3>1, MapSame
  <2>3. CASE EndCopy(htObj, FALSE)
    BY <2>3, MultimapEndCopy
  <2> QED BY <2>1, <2>2, <2>3
<1>7. CASE CopyNextSlot \/ UNCHANGED vars
  <2>1. htObj' = htObj /\ ret' = ret
    BY <1>7 DEF CopyNextSlot, vars
  <2>2. Kept(htObj') = Kept(htObj)
    BY <2>1
  <2> QED BY <2>1, <2>2, MapSame
<1>8. CASE CopyDone
  BY <1>0, <1>8, MultimapCopyDone
<1> QED BY <1>1, <1>2, <1>3, <1>4, <1>5, <1>6, <1>7, <1>8 DEF Next, CopyStep

LEMMA MultimapInit == Init => Multimap!MInit
<1> SUFFICES ASSUME Init PROVE Multimap!MInit
  OBVIOUS
<1>1. htObj = NULL /\ ret = [op |-> "none", ok |-> TRUE]
  BY DEF Init
<1>2. Kept(htObj) = Multimap!Nothing
  BY <1>1, KeptNull
<1> QED BY <1>1, <1>2 DEF Kept, Multimap!MInit

(* Per hash the ids stay in the order of their insertion, so that a lookup finds *)
(* the oldest first: the index implements the multimap, with tombstones between, *)
(* through resizes and compactions, and whatever allocation fails.               *)
THEOREM OrderIsKept == Spec => ImplementsMultimap
<1>1. Init => CountsAgree /\ CopiedInOrder
  BY DEF Init, CountsAgree, CopiedInOrder
<1> QED BY <1>1, IndexInit, IndexStep, CountsStep, OrderStep, MultimapInit, MultimapStep, PTL
        DEF Spec, ImplementsMultimap, Multimap!MSpec
=============================================================================
