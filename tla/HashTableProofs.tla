-------------------------- MODULE HashTableProofs --------------------------
(***************************************************************************)
(* What the operators of HashTable return, preserve and change.            *)
(***************************************************************************)
EXTENDS HashTable, WellFoundedInduction, TLAPS

(* The scan of a bucket stops at its first hit. *)
LEMMA FirstOfIsLeast ==
    ASSUME NEW S, S \subseteq Nat, S # {}
    PROVE  FirstOf(S) \in S /\ \A q \in S : FirstOf(S) <= q
<1> DEFINE R == OpToRel(<, Nat)
<1>1. IsWellFoundedOn(R, Nat)
  BY NatLessThanWellFounded
<1>2. PICK m \in S : \A y \in S : ~(<<y, m>> \in R)
  <2> HIDE DEF R
  <2> QED BY <1>1, WFMin
<1>3. ASSUME NEW y \in S PROVE m <= y
  <2>1. m \in Nat /\ y \in Nat
    OBVIOUS
  <2>2. ~(y < m)
    BY <1>2, <2>1 DEF OpToRel
  <2> QED BY <2>1, <2>2
<1> QED BY <1>3 DEF FirstOf

LEMMA CreateType ==
    ASSUME NEW cap \in Nat
    PROVE  /\ HTCreate(cap) \in HTObject(cap)
           /\ HTCreate(cap).ht_cap = cap
           /\ HTCreate(cap).ht_slot_used_cnt = 0
           /\ \A s \in 0 .. cap - 1 : HTCreate(cap).ht[s].bucket = <<>>
BY BucketCapAssumption DEF HTCreate, HTObject, HashTableSlot, HashTableEntry

(* A slot index computed from a hash is a slot of the table. *)
LEMMA SlotIndex ==
    ASSUME NEW cap \in Nat, cap > 0, NEW key_hash \in Nat
    PROVE  key_hash % cap \in 0 .. cap - 1
OBVIOUS

(* The ids in a table's buckets are below m. *)
IdsBelow(h, m) == \A s \in 0 .. h.ht_cap - 1 : \A p \in DOMAIN h.ht[s].bucket :
                     h.ht[s].bucket[p].entry_id < m

(***************************************************************************)
(* The effect of an insertion on the table: it fails without a trace, or   *)
(* it appends one entry to one bucket and marks at most one more slot as   *)
(* used.                                                                   *)
(***************************************************************************)
InsertResult(h, key_hash, id, ins) ==
    /\ ins.ret \in Int
    /\ ins.htObj \in HTObject(h.ht_cap)
    /\ ins.htObj.ht_cap = h.ht_cap
    /\ ins.ret < 0 => ins.htObj = h
    /\ ins.ret >= 0 =>
         /\ h.ht_cap > 0
         /\ ins.htObj.ht_slot_used_cnt <= h.ht_slot_used_cnt + 1
         /\ \A s \in 0 .. h.ht_cap - 1 :
               ins.htObj.ht[s].bucket =
                  IF s = key_hash % h.ht_cap
                  THEN Append(h.ht[s].bucket,
                              [key_hash |-> key_hash, entry_id |-> id,
                               state |-> "HT_ENTRY_INUSE"])
                  ELSE h.ht[s].bucket

(* Every insertion has that effect. *)
LEMMA InsertEffect ==
    ASSUME NEW h, h.ht_cap \in Nat, h \in HTObject(h.ht_cap), NEW key_hash \in Nat,
           NEW id \in Nat, NEW ok \in BOOLEAN,
           NEW ins, ins = HTInsert(h, key_hash, id, ok)
    PROVE  InsertResult(h, key_hash, id, ins)
<1> DEFINE h_idx == key_hash % h.ht_cap
           slot  == h.ht[h_idx]
           entry == [key_hash |-> key_hash, entry_id |-> id, state |-> "HT_ENTRY_INUSE"]
           full  == Len(slot.bucket) >= slot.bucket_cap
           next  == [bucket     |-> Append(slot.bucket, entry),
                     bucket_cap |-> IF full THEN 2 * slot.bucket_cap ELSE slot.bucket_cap,
                     slot_state |-> "HT_SLOT_INUSE"]
           used  == IF slot.slot_state = "HT_SLOT_INUSE" THEN h.ht_slot_used_cnt
                                                         ELSE h.ht_slot_used_cnt + 1
<1>1. /\ h.ht \in [0 .. h.ht_cap - 1 -> HashTableSlot]
      /\ h.ht_slot_used_cnt \in Nat
      /\ h.ht_entry_cnt \in Int
      /\ h.ht_del_cnt \in Nat
      /\ h = [ht_cap |-> h.ht_cap, ht |-> h.ht, ht_slot_used_cnt |-> h.ht_slot_used_cnt,
              ht_entry_cnt |-> h.ht_entry_cnt, ht_del_cnt |-> h.ht_del_cnt]
  BY DEF HTObject
<1>2. CASE h.ht_slot_used_cnt >= h.ht_cap \/ (full /\ ~ok)
  <2>1. ins = [ret |-> -1, htObj |-> h]
    BY <1>2 DEF HTInsert
  <2> QED BY <1>1, <1>2, <2>1 DEF InsertResult
<1>3. CASE ~(h.ht_slot_used_cnt >= h.ht_cap \/ (full /\ ~ok))
  <2>1. h.ht_cap > 0 /\ h_idx \in 0 .. h.ht_cap - 1
    BY <1>1, <1>3, SlotIndex
  <2>2. slot \in HashTableSlot
    BY <1>1, <2>1
  <2>3. next \in HashTableSlot
    <3>1. entry \in HashTableEntry
      BY DEF HashTableEntry
    <3>2. Append(slot.bucket, entry) \in Seq(HashTableEntry)
      BY <2>2, <3>1 DEF HashTableSlot
    <3>3. slot.bucket_cap \in Nat
      BY <2>2 DEF HashTableSlot
    <3> QED BY <3>2, <3>3 DEF HashTableSlot
  <2>4. ins = [ret |-> h_idx,
               htObj |-> [ht_cap |-> h.ht_cap, ht |-> [h.ht EXCEPT ![h_idx] = next],
                          ht_slot_used_cnt |-> used,
                          ht_entry_cnt |-> h.ht_entry_cnt + 1,
                          ht_del_cnt |-> h.ht_del_cnt]]
    BY <1>3 DEF HTInsert
  <2>5. ins.htObj.ht = [h.ht EXCEPT ![h_idx] = next]
    <3> HIDE DEF next, used, h_idx
    <3> QED BY <2>4
  <2>6. used \in Nat /\ used <= h.ht_slot_used_cnt + 1
    BY <1>1
  <2>7. [h.ht EXCEPT ![h_idx] = next] \in [0 .. h.ht_cap - 1 -> HashTableSlot]
    BY <1>1, <2>3
  <2>8. ins.htObj \in HTObject(h.ht_cap)
    BY <1>1, <2>4, <2>6, <2>7 DEF HTObject
  <2>9. ASSUME NEW s \in 0 .. h.ht_cap - 1
        PROVE  ins.htObj.ht[s].bucket = IF s = h_idx THEN Append(h.ht[s].bucket, entry)
                                                     ELSE h.ht[s].bucket
    BY <1>1, <2>1, <2>5
  <2>10. /\ ins.ret = h_idx
         /\ ins.htObj.ht_cap = h.ht_cap
         /\ ins.htObj.ht_slot_used_cnt = used
    <3> HIDE DEF next, used, h_idx
    <3> QED BY <2>4
  <2>11. /\ ins.ret \in Int /\ ~(ins.ret < 0)
         /\ ins.htObj.ht_slot_used_cnt <= h.ht_slot_used_cnt + 1
    BY <2>1, <2>6, <2>10
  <2> QED BY <2>1, <2>8, <2>9, <2>10, <2>11 DEF InsertResult
<1> QED BY <1>2, <1>3

(* Appending keeps every position and adds one. *)
LEMMA AppendKeeps ==
    ASSUME NEW T, NEW B \in Seq(T), NEW e \in T
    PROVE  /\ DOMAIN B \subseteq DOMAIN Append(B, e)
           /\ \A p \in DOMAIN B : Append(B, e)[p] = B[p]
           /\ \A p \in DOMAIN Append(B, e) : p \in DOMAIN B \/ Append(B, e)[p] = e
           /\ Len(B) + 1 \in DOMAIN Append(B, e)
           /\ Append(B, e)[Len(B) + 1] = e
<1>1. /\ Append(B, e) \in Seq(T)
      /\ Len(Append(B, e)) = Len(B) + 1
      /\ \A p \in 1 .. Len(B) : Append(B, e)[p] = B[p]
      /\ Append(B, e)[Len(B) + 1] = e
      /\ Len(B) \in Nat
  OBVIOUS
<1>2. DOMAIN B = 1 .. Len(B) /\ DOMAIN Append(B, e) = 1 .. Len(B) + 1
  BY <1>1
<1> QED BY <1>1, <1>2

(* A successful insertion keeps what the table holds and adds the new pair. *)
LEMMA InsertKeeps ==
    ASSUME NEW h, h.ht_cap \in Nat, h \in HTObject(h.ht_cap), NEW key_hash \in Nat,
           NEW id \in Nat, NEW ins, InsertResult(h, key_hash, id, ins), ins.ret >= 0
    PROVE  /\ Holding(ins.htObj, key_hash, id) # {}
           /\ \A kh \in Nat, n \in Nat :
                 Holding(h, kh, n) # {} => Holding(ins.htObj, kh, n) # {}
           /\ \A m \in Nat : id < m /\ IdsBelow(h, m) => IdsBelow(ins.htObj, m)
<1> DEFINE g == ins.htObj
           e == [key_hash |-> key_hash, entry_id |-> id, state |-> "HT_ENTRY_INUSE"]
           at == key_hash % h.ht_cap
<1>1. /\ h.ht_cap > 0 /\ g.ht_cap = h.ht_cap
      /\ \A s \in 0 .. h.ht_cap - 1 :
            g.ht[s].bucket = IF s = at THEN Append(h.ht[s].bucket, e) ELSE h.ht[s].bucket
  BY DEF InsertResult
<1>2. \A s \in 0 .. h.ht_cap - 1 : h.ht[s].bucket \in Seq(HashTableEntry)
  BY DEF HTObject, HashTableSlot
<1>3. \A kh \in Nat : kh % h.ht_cap \in 0 .. h.ht_cap - 1
  BY <1>1
<1>4. ASSUME NEW s \in 0 .. h.ht_cap - 1
      PROVE  /\ DOMAIN h.ht[s].bucket \subseteq DOMAIN g.ht[s].bucket
             /\ \A p \in DOMAIN h.ht[s].bucket : g.ht[s].bucket[p] = h.ht[s].bucket[p]
             /\ \A p \in DOMAIN g.ht[s].bucket : \/ p \in DOMAIN h.ht[s].bucket
                                                 \/ g.ht[s].bucket[p] = e
  <2> DEFINE B == h.ht[s].bucket
  <2>1. B \in Seq(HashTableEntry)
    BY <1>2
  <2>2. CASE s = at
    <3>1. g.ht[s].bucket = Append(B, e)
      BY <1>1, <2>2
    <3>2. e \in HashTableEntry
      BY DEF HashTableEntry
    <3> HIDE DEF e, g
    <3> QED BY <3>1, <3>2, <2>1, AppendKeeps
  <2>3. CASE s # at
    BY <1>1, <2>3
  <2> QED BY <2>2, <2>3
<1>5. Holding(g, key_hash, id) # {}
  <2> DEFINE B == h.ht[at].bucket
  <2>1. at \in 0 .. h.ht_cap - 1
    BY <1>3
  <2>2. g.ht[at].bucket = Append(B, e) /\ B \in Seq(HashTableEntry)
    BY <1>1, <1>2, <2>1
  <2>3. Len(B) + 1 \in DOMAIN g.ht[at].bucket /\ g.ht[at].bucket[Len(B) + 1] = e
    <3>1. e \in HashTableEntry
      BY DEF HashTableEntry
    <3> HIDE DEF B, e, g
    <3> QED BY <2>2, <3>1, AppendKeeps
  <2>4. SlotOf(g, key_hash) = g.ht[at]
    BY <1>1 DEF SlotOf
  <2>5. Len(B) + 1 \in Holding(g, key_hash, id)
    <3>1. e.entry_id = id /\ e.key_hash = key_hash
      OBVIOUS
    <3> HIDE DEF B, e, g, at
    <3> QED BY <2>3, <2>4, <3>1 DEF Holding
  <2> QED BY <2>5
<1>6. ASSUME NEW kh \in Nat, NEW n \in Nat, Holding(h, kh, n) # {}
      PROVE  Holding(g, kh, n) # {}
  <2>1. PICK p \in Holding(h, kh, n) : TRUE
    BY <1>6
  <2>2. kh % h.ht_cap \in 0 .. h.ht_cap - 1
    BY <1>3
  <2>3. p \in Holding(g, kh, n)
    BY <1>1, <1>4, <2>1, <2>2 DEF Holding, SlotOf
  <2> QED BY <2>3
<1>7. ASSUME NEW m \in Nat, id < m, IdsBelow(h, m),
             NEW s \in 0 .. h.ht_cap - 1, NEW p \in DOMAIN g.ht[s].bucket
      PROVE  g.ht[s].bucket[p].entry_id < m
  <2>1. CASE p \in DOMAIN h.ht[s].bucket
    BY <1>4, <1>7, <2>1 DEF IdsBelow
  <2>2. CASE g.ht[s].bucket[p] = e
    BY <1>7, <2>2
  <2> QED BY <1>4, <2>1, <2>2
<1>8. ASSUME NEW m \in Nat, id < m, IdsBelow(h, m)
      PROVE  IdsBelow(g, m)
  <2> HIDE DEF g
  <2> QED BY <1>1, <1>7, <1>8 DEF IdsBelow
<1> QED BY <1>5, <1>6, <1>8

(***************************************************************************)
(* A deletion finds the pair or leaves the table alone; it forgets no pair *)
(* of another entry, and brings in no id but the tombstone's.              *)
(***************************************************************************)
LEMMA DeleteEffect ==
    ASSUME NEW h, h.ht_cap \in Nat, h.ht_cap > 0, h \in HTObject(h.ht_cap),
           NEW key_hash \in Nat, NEW id \in Nat,
           NEW del, del = HTDelete(h, key_hash, id)
    PROVE  /\ del.htObj \in HTObject(h.ht_cap)
           /\ del.htObj.ht_cap = h.ht_cap
           /\ del.htObj.ht_slot_used_cnt = h.ht_slot_used_cnt
           /\ Holding(h, key_hash, id) = {} => del.ret = -1 /\ del.htObj = h
           /\ Holding(h, key_hash, id) # {} => del.ret \in Nat
           /\ \A kh \in Nat, n \in Nat :
                 n # id /\ Holding(h, kh, n) # {} => Holding(del.htObj, kh, n) # {}
           /\ \A m \in Nat :
                 (\A s \in 0 .. h.ht_cap - 1 : \A p \in DOMAIN h.ht[s].bucket :
                     h.ht[s].bucket[p].entry_id < m)
                 => \A s \in 0 .. h.ht_cap - 1 : \A p \in DOMAIN del.htObj.ht[s].bucket :
                       del.htObj.ht[s].bucket[p].entry_id < m
<1> DEFINE at    == key_hash % h.ht_cap
           found == Holding(h, key_hash, id)
           B     == h.ht[at].bucket
           C     == [B EXCEPT ![FirstOf(found)] = Tombstone]
           slot  == [bucket |-> C, bucket_cap |-> h.ht[at].bucket_cap,
                     slot_state |-> h.ht[at].slot_state]
           g     == del.htObj
<1>1. CASE found = {}
  <2>1. del = [ret |-> -1, htObj |-> h]
    BY <1>1 DEF HTDelete
  <2> QED BY <1>1, <2>1
<1>2. CASE found # {}
  <2>1. /\ h.ht \in [0 .. h.ht_cap - 1 -> HashTableSlot]
        /\ h.ht_slot_used_cnt \in Nat /\ h.ht_entry_cnt \in Int /\ h.ht_del_cnt \in Nat
    BY DEF HTObject
  <2>2. at \in 0 .. h.ht_cap - 1
    BY SlotIndex
  <2>3. /\ h.ht[at] \in HashTableSlot
        /\ B \in Seq(HashTableEntry)
        /\ h.ht[at].bucket_cap \in Nat
        /\ h.ht[at].slot_state \in {"HT_SLOT_EMPTY", "HT_SLOT_INUSE"}
    BY <2>1, <2>2 DEF HashTableSlot
  <2>4. found = {p \in DOMAIN B : B[p].entry_id = id /\ B[p].key_hash = key_hash}
    BY DEF Holding, SlotOf
  <2>5. found \subseteq Nat
    BY <2>3, <2>4
  <2>6. FirstOf(found) \in found
    <3> HIDE DEF found
    <3> QED BY <1>2, <2>5, FirstOfIsLeast
  <2>7. Tombstone \in HashTableEntry /\ Tombstone.entry_id = -1
    BY DEF Tombstone, HashTableEntry
  <2>8. /\ C \in Seq(HashTableEntry)
        /\ DOMAIN C = DOMAIN B
        /\ \A p \in DOMAIN B : C[p] = IF p = FirstOf(found) THEN Tombstone ELSE B[p]
    <3>1. FirstOf(found) \in DOMAIN B
      BY <2>4, <2>6
    <3> HIDE DEF found, B
    <3> QED BY <2>3, <2>7, <3>1
  <2>9. slot \in HashTableSlot
    <3> HIDE DEF C
    <3> QED BY <2>3, <2>8 DEF HashTableSlot
  <2>10. del = [ret |-> at,
                htObj |-> [ht_cap |-> h.ht_cap, ht |-> [h.ht EXCEPT ![at] = slot],
                           ht_slot_used_cnt |-> h.ht_slot_used_cnt,
                           ht_entry_cnt |-> h.ht_entry_cnt - 1,
                           ht_del_cnt |-> h.ht_del_cnt + 1]]
    BY <1>2 DEF HTDelete
  <2>11. /\ del.ret = at
         /\ g.ht = [h.ht EXCEPT ![at] = slot]
         /\ g.ht_cap = h.ht_cap
         /\ g.ht_slot_used_cnt = h.ht_slot_used_cnt
    <3> HIDE DEF slot, at
    <3> QED BY <2>10
  <2>12. g \in HTObject(h.ht_cap)
    <3>1. [h.ht EXCEPT ![at] = slot] \in [0 .. h.ht_cap - 1 -> HashTableSlot]
      <4> HIDE DEF slot, at
      <4> QED BY <2>1, <2>9
    <3> HIDE DEF slot, at
    <3> QED BY <2>1, <2>10, <3>1 DEF HTObject
  <2>13. ASSUME NEW s \in 0 .. h.ht_cap - 1
         PROVE  g.ht[s].bucket = IF s = at THEN C ELSE h.ht[s].bucket
    <3> HIDE DEF C, at
    <3> QED BY <2>1, <2>11
  <2>14. ASSUME NEW s \in 0 .. h.ht_cap - 1
         PROVE  /\ DOMAIN g.ht[s].bucket = DOMAIN h.ht[s].bucket
                /\ \A p \in DOMAIN h.ht[s].bucket :
                      \/ g.ht[s].bucket[p] = h.ht[s].bucket[p]
                      \/ /\ g.ht[s].bucket[p].entry_id = -1
                         /\ h.ht[s].bucket[p].entry_id = id
    <3>1. CASE s = at
      <4>1. B[FirstOf(found)].entry_id = id
        BY <2>4, <2>6
      <4>2. g.ht[s].bucket = C /\ h.ht[s].bucket = B
        BY <2>13, <3>1
      <4> HIDE DEF B, C, found, g
      <4> QED BY <2>7, <2>8, <4>1, <4>2
    <3>2. CASE s # at
      <4>1. g.ht[s].bucket = h.ht[s].bucket
        BY <2>13, <3>2
      <4> HIDE DEF g
      <4> QED BY <4>1
    <3> QED BY <3>1, <3>2
  <2>15. ASSUME NEW kh \in Nat, NEW n \in Nat, n # id, Holding(h, kh, n) # {}
         PROVE  Holding(g, kh, n) # {}
    <3> DEFINE s == kh % h.ht_cap
    <3>1. s \in 0 .. h.ht_cap - 1
      BY SlotIndex
    <3>2. SlotOf(g, kh) = g.ht[s] /\ SlotOf(h, kh) = h.ht[s]
      <4> HIDE DEF g
      <4> QED BY <2>11 DEF SlotOf
    <3>3. PICK p \in DOMAIN h.ht[s].bucket : /\ h.ht[s].bucket[p].entry_id = n
                                             /\ h.ht[s].bucket[p].key_hash = kh
      BY <2>15, <3>2 DEF Holding
    <3>4. p \in DOMAIN g.ht[s].bucket /\ g.ht[s].bucket[p] = h.ht[s].bucket[p]
      <4> HIDE DEF g, s
      <4> QED BY <2>14, <2>15, <3>1, <3>3
    <3>5. p \in Holding(g, kh, n)
      <4> HIDE DEF g, s
      <4> QED BY <3>2, <3>3, <3>4 DEF Holding
    <3> QED BY <3>5
  <2>16. ASSUME NEW m \in Nat,
                \A s \in 0 .. h.ht_cap - 1 : \A p \in DOMAIN h.ht[s].bucket :
                   h.ht[s].bucket[p].entry_id < m,
                NEW s \in 0 .. h.ht_cap - 1, NEW p \in DOMAIN g.ht[s].bucket
         PROVE  g.ht[s].bucket[p].entry_id < m
    <3> HIDE DEF g
    <3> QED BY <2>14, <2>16
  <2>17. at \in Nat
    BY <2>2
  <2> HIDE DEF at, g, found
  <2> QED BY <1>2, <2>11, <2>12, <2>15, <2>16, <2>17 DEF g, found
<1> QED BY <1>1, <1>2
=============================================================================
