----------------------------- MODULE ChainTable -----------------------------
(***************************************************************************)
(* The chained table of SubProjs/hash/src/hash_table_lib.c, from which the *)
(* engine's index grew: it holds keys and values itself, moves the entries *)
(* behind a deleted one up, and is resized by inserting into a new table.  *)
(***************************************************************************)
EXTENDS Integers, Sequences, SequencesExt

CONSTANTS
    NIL,            \* the NULL pointer
    ChainKeys, ChainVals,
    ChainHash,      \* the hash of each key
    ChainCaps,      \* the capacities of new and resized tables
    INIT_BUCKET_CAP

ASSUME ChainAssumption ==
    /\ ChainHash \in [ChainKeys -> Nat]
    /\ ChainCaps \subseteq Nat \ {0}
    /\ INIT_BUCKET_CAP \in Nat \ {0}

\* initialized: how many entries of the bucket's array have ever been written, the
\* zeroes of calloc included.
HashTableEntry == [key : ChainKeys, val : ChainVals]

HashTableSlot == [bucket : Seq(HashTableEntry), bucket_cap : Nat, initialized : Nat]

HTObject(cap) == [ht_cap : {cap}, ht_size : Nat, ht : [0 .. cap - 1 -> HashTableSlot]]

ASSUME NilAssumption == \A cap \in ChainCaps : NIL \notin HTObject(cap)

VARIABLES
    ht_obj,   \* the table, or NIL
    log,      \* history: what was inserted and not deleted, in that order
    lost,     \* history: whether a resize has dropped entries
    faulted   \* whether a table was destroyed with pointers never written

chainVars == <<ht_obj, log, lost, faulted>>

Entry(key, val) == [key |-> key, val |-> val]

NewSlot == [bucket |-> <<>>, bucket_cap |-> INIT_BUCKET_CAP, initialized |-> INIT_BUCKET_CAP]

NewTable(ht_cap) == [ht_cap |-> ht_cap, ht_size |-> 0, ht |-> [h \in 0 .. ht_cap - 1 |-> NewSlot]]

ChainInit ==
    /\ ht_obj = NIL
    /\ log = <<>>
    /\ lost = FALSE
    /\ faulted = FALSE

\* NewHashTableObject leaves nothing when an allocation fails.
NewHashTableObject(ht_cap) ==
    /\ ht_obj = NIL
    /\ ht_obj' = NewTable(ht_cap)
    /\ UNCHANGED <<log, lost, faulted>>

-----------------------------------------------------------------------------
Bucket(t, key) == t.ht[ChainHash[key] % t.ht_cap].bucket

\* realloc leaves the new half of the array as it finds it.
Grown(slot) ==
    IF Len(slot.bucket) >= slot.bucket_cap THEN [slot EXCEPT !.bucket_cap = 2 * @] ELSE slot

MaxOf(a, b) == IF a > b THEN a ELSE b

\* What the allocations of an insertion make of it: "ok", or which of them fails.
Outcomes == {"ok", "realloc", "key_data", "val_data"}

\* Nothing but the bucket is changed by an insertion that fails: it has grown, and a
\* failure of the last malloc has written both pointers of the entry.
InsertHashTableEntry(t, e, outcome) ==
    LET h       == ChainHash[e.key] % t.ht_cap
        slot    == Grown(t.ht[h])
        written == [slot EXCEPT !.initialized = MaxOf(@, Len(slot.bucket) + 1)]
    IN  CASE t.ht_size >= t.ht_cap -> t
          [] t.ht_size < t.ht_cap /\ outcome = "realloc" ->
               t
          [] t.ht_size < t.ht_cap /\ outcome = "key_data" ->
               [t EXCEPT !.ht[h] = slot]
          [] t.ht_size < t.ht_cap /\ outcome = "val_data" ->
               [t EXCEPT !.ht[h] = written]
          [] OTHER ->
               [t EXCEPT !.ht[h] = [written EXCEPT !.bucket = Append(@, e)], !.ht_size = @ + 1]

\* realloc is called, and can fail, only for a full bucket.
May(t, e, outcome) ==
    outcome = "realloc" =>
       LET slot == t.ht[ChainHash[e.key] % t.ht_cap] IN Len(slot.bucket) >= slot.bucket_cap

Insert(key, val, outcome) ==
    /\ ht_obj # NIL /\ ~faulted
    /\ May(ht_obj, Entry(key, val), outcome)
    /\ ht_obj' = InsertHashTableEntry(ht_obj, Entry(key, val), outcome)
    /\ log' = IF ht_obj'.ht_size > ht_obj.ht_size THEN Append(log, Entry(key, val)) ELSE log
    /\ UNCHANGED <<lost, faulted>>

\* The value GetHashTableEntry copies: that of the first entry of the key.
GetHashTableEntry(t, key) ==
    LET p == SelectInSeq(Bucket(t, key), LAMBDA e : e.key = key)
    IN  IF p = 0 THEN NIL ELSE Bucket(t, key)[p].val

\* Mutant of Without: the last entry takes the place of the deleted one.
WithoutSwapped(bucket, p) ==
    Front([bucket EXCEPT ![p] = Last(bucket)])

\* memmove: the entries behind it move up.
Without(bucket, p) == RemoveAt(bucket, p)

DeleteHashTableEntry(key) ==
    /\ ht_obj # NIL /\ ~faulted
    /\ LET h == ChainHash[key] % ht_obj.ht_cap
           p == SelectInSeq(ht_obj.ht[h].bucket, LAMBDA e : e.key = key)
       IN  /\ p # 0
           /\ ht_obj' = [ht_obj EXCEPT !.ht[h].bucket = Without(@, p), !.ht_size = @ - 1]
    /\ log' = RemoveAt(log, SelectInSeq(log, LAMBDA e : e.key = key))
    /\ UNCHANGED <<lost, faulted>>

\* DestroyHashTableObject frees both pointers of every entry up to the capacity.
FreesGarbage(t) == \E h \in DOMAIN t.ht : t.ht[h].initialized < t.ht[h].bucket_cap

Destroyed(new) ==
    /\ ht_obj' = new
    /\ faulted' \in (IF FreesGarbage(ht_obj) THEN BOOLEAN ELSE {FALSE})

DestroyTable ==
    /\ ht_obj # NIL /\ ~faulted
    /\ Destroyed(NIL)
    /\ log' = <<>>
    /\ lost' = FALSE

\* The entries slot by slot, of the first n slots and of all: the order in which a
\* resize inserts them.
EntriesUpTo(t) ==
    LET list[n \in 0 .. t.ht_cap] ==
          IF n = 0 THEN <<>> ELSE list[n - 1] \o t.ht[n - 1].bucket
    IN  list

EntriesOf(t) == EntriesUpTo(t)[t.ht_cap]

\* An insertion that fails, for want of room or of memory, is not noticed.
Reinserted(t, e, outcome) ==
    InsertHashTableEntry(t, e, IF May(t, e, outcome) THEN outcome ELSE "ok")

\* The new table when n of the entries have been passed.
CopyUpTo(old, new_cap, outcomes) ==
    LET table[n \in 0 .. Len(old)] ==
          IF n = 0 THEN NewTable(new_cap) ELSE Reinserted(table[n - 1], old[n], outcomes[n])
    IN  table

ResizeHashTable(new_cap, outcomes) ==
    /\ ht_obj # NIL /\ ~faulted
    /\ LET old == EntriesOf(ht_obj)
           new == CopyUpTo(old, new_cap, outcomes)[Len(old)]
       IN  /\ Destroyed(new)
           /\ lost' = (lost \/ new.ht_size < ht_obj.ht_size)
    /\ UNCHANGED log

ChainNext ==
    \/ \E cap \in ChainCaps : NewHashTableObject(cap)
    \/ \E key \in ChainKeys, val \in ChainVals, outcome \in Outcomes : Insert(key, val, outcome)
    \/ \E key \in ChainKeys : DeleteHashTableEntry(key)
    \/ DestroyTable
    \/ \E cap \in ChainCaps, outcomes \in [1 .. Len(log) -> Outcomes] : ResizeHashTable(cap, outcomes)

ChainSpec == ChainInit /\ [][ChainNext]_chainVars

-----------------------------------------------------------------------------
(* Correctness. *)

\* The entries of a key among the first n of a sequence, and all of them.
OfUpTo(seq, key) ==
    LET mine[n \in 0 .. Len(seq)] ==
          IF n = 0 THEN <<>>
          ELSE IF seq[n].key = key THEN Append(mine[n - 1], seq[n])
          ELSE mine[n - 1]
    IN  mine

Of(seq, key) == OfUpTo(seq, key)[Len(seq)]

(* Get answers with the oldest value of a key that was not deleted, whatever   *)
(* was deleted before it in the bucket, after any resize that found room and   *)
(* memory for all entries; the entries of one key stay in their order, so that *)
(* this holds after the next deletion too (hash_table_lib.c 91-146, 149-175,   *)
(* 185-218, 75-88).                                                            *)
GetsOldestValue ==
    ht_obj # NIL /\ ~lost =>
       /\ ht_obj.ht_size = Len(log)
       /\ \A key \in ChainKeys :
            LET mine == Of(log, key)
            IN  /\ Of(EntriesOf(ht_obj), key) = mine
                /\ GetHashTableEntry(ht_obj, key) = IF mine = <<>> THEN NIL ELSE mine[1].val
=============================================================================
