----------------------------- MODULE HashTable -----------------------------
(***************************************************************************)
(* The chained hash index of core/src/hash/hash_index.c as operators on a  *)
(* table value.  An HTObject is the record                                 *)
(*   [ht_cap, ht, ht_slot_used_cnt, ht_entry_cnt, ht_del_cnt]              *)
(* where ht maps a slot index to [bucket, bucket_cap, slot_state]; the C   *)
(* field bucket_size is Len(bucket).  An operation that allocates takes    *)
(* the outcome of its realloc as a parameter, and every operation returns  *)
(* the record [ret, htObj]: the C return value and the table afterwards.   *)
(***************************************************************************)
EXTENDS Integers, Sequences

CONSTANT INIT_BUCKET_CAP   \* entries a new bucket has room for (4 in the code)

ASSUME BucketCapAssumption == INIT_BUCKET_CAP \in Nat \ {0}

HashTableEntry == [key_hash : Nat, entry_id : Nat \cup {-1},
                   state : {"HT_ENTRY_INUSE", "HT_ENTRY_DELETED"}]

HashTableSlot == [bucket : Seq(HashTableEntry), bucket_cap : Nat,
                  slot_state : {"HT_SLOT_EMPTY", "HT_SLOT_INUSE"}]

HTObject(cap) == [ht_cap : {cap}, ht : [0 .. cap - 1 -> HashTableSlot],
                  ht_slot_used_cnt : Nat, ht_entry_cnt : Int, ht_del_cnt : Nat]

HTCreate(ht_cap) ==
    [ht_cap           |-> ht_cap,
     ht               |-> [h_idx \in 0 .. ht_cap - 1 |->
                             [bucket     |-> <<>>,
                              bucket_cap |-> INIT_BUCKET_CAP,
                              slot_state |-> "HT_SLOT_EMPTY"]],
     ht_slot_used_cnt |-> 0,
     ht_entry_cnt     |-> 0,
     ht_del_cnt       |-> 0]

\* The least element of a non-empty set of bucket positions: where a scan stops.
FirstOf(S) == CHOOSE p \in S : \A q \in S : p <= q

SlotOf(htObj, key_hash) == htObj.ht[key_hash % htObj.ht_cap]

(***************************************************************************)
(* Insert never looks for an entry of the same hash: it appends.  It is    *)
(* refused when every slot was used once, whichever slot the hash selects, *)
(* because ht_slot_used_cnt only grows.                                    *)
(***************************************************************************)
HTInsert(htObj, key_hash, entry_id, realloc_ok) ==
    LET h_idx == key_hash % htObj.ht_cap
        slot  == htObj.ht[h_idx]
        full  == Len(slot.bucket) >= slot.bucket_cap
        entry == [key_hash |-> key_hash, entry_id |-> entry_id,
                  state |-> "HT_ENTRY_INUSE"]
    IN  IF \/ htObj.ht_slot_used_cnt >= htObj.ht_cap
           \/ full /\ ~realloc_ok
        THEN [ret |-> -1, htObj |-> htObj]
        ELSE [ret   |-> h_idx,
              htObj |->
                [ht_cap |-> htObj.ht_cap,
                 ht     |-> [htObj.ht EXCEPT ![h_idx] =
                               [bucket     |-> Append(slot.bucket, entry),
                                bucket_cap |-> IF full THEN 2 * slot.bucket_cap
                                                       ELSE slot.bucket_cap,
                                slot_state |-> "HT_SLOT_INUSE"]],
                 ht_slot_used_cnt |-> IF slot.slot_state = "HT_SLOT_INUSE"
                                      THEN htObj.ht_slot_used_cnt
                                      ELSE htObj.ht_slot_used_cnt + 1,
                 ht_entry_cnt     |-> htObj.ht_entry_cnt + 1,
                 ht_del_cnt       |-> htObj.ht_del_cnt]]

\* Mutant of Holding: the hash alone is compared.
HoldingHash(htObj, key_hash, entry_id) ==
    LET bucket == SlotOf(htObj, key_hash).bucket
    IN  {p \in DOMAIN bucket : bucket[p].key_hash = key_hash}

\* The positions of the bucket of key_hash that hold exactly (key_hash, entry_id).
Holding(htObj, key_hash, entry_id) ==
    LET bucket == SlotOf(htObj, key_hash).bucket
    IN  {p \in DOMAIN bucket : /\ bucket[p].entry_id = entry_id
                               /\ bucket[p].key_hash = key_hash}

\* Mutant of Tombstone: the state is not changed.
TombstoneInUse == [key_hash |-> 0, entry_id |-> -1, state |-> "HT_ENTRY_INUSE"]

\* What Delete leaves in the bucket: it is never reused nor removed.
Tombstone == [key_hash |-> 0, entry_id |-> -1, state |-> "HT_ENTRY_DELETED"]

HTDelete(htObj, key_hash, entry_id) ==
    LET h_idx == key_hash % htObj.ht_cap
        found == Holding(htObj, key_hash, entry_id)
    IN  IF found = {}
        THEN [ret |-> -1, htObj |-> htObj]
        ELSE [ret   |-> h_idx,
              htObj |->
                [ht_cap |-> htObj.ht_cap,
                 ht     |-> [htObj.ht EXCEPT ![h_idx] =
                               [bucket     |-> [htObj.ht[h_idx].bucket EXCEPT
                                                  ![FirstOf(found)] = Tombstone],
                                bucket_cap |-> htObj.ht[h_idx].bucket_cap,
                                slot_state |-> htObj.ht[h_idx].slot_state]],
                 ht_slot_used_cnt |-> htObj.ht_slot_used_cnt,
                 ht_entry_cnt     |-> htObj.ht_entry_cnt - 1,
                 ht_del_cnt       |-> htObj.ht_del_cnt + 1]]
=============================================================================
