------------------------------ MODULE HashIndex -----------------------------
(***************************************************************************)
(* The hash index of core/src/hash/hash_index.c as its caller sees it: a   *)
(* table that is created, changed, copied into a table of another capacity *)
(* (resize) or of the same one without its tombstones (compact), and       *)
(* destroyed.  The copy goes entry by entry and may be given up half-way.  *)
(***************************************************************************)
EXTENDS HashTable, FiniteSets

CONSTANTS
    NULL,
    Hashes, Ids,    \* what the caller inserts
    Caps,           \* the capacities it asks for
    MaxPositions,   \* bound: bucket positions in use when the caller inserts
    AllocFails      \* whether malloc, calloc and realloc may fail

ASSUME IndexAssumption ==
    /\ Hashes \subseteq Nat
    /\ Ids \subseteq Nat
    /\ Caps \subseteq Nat
    /\ AllocFails \in BOOLEAN

\* NULL points to no table.
ASSUME NullAssumption == \A cap \in Caps : NULL \notin HTObject(cap)

VARIABLES
    htObj,   \* the caller's table, or NULL
    htNew,   \* the table that a copy fills, or NULL
    pc,      \* "ready", "copy" inside resize or compact, "dead" after a fault
    i, j,    \* the slot and the position in its bucket that the copy is at
    ret      \* the last operation and whether it succeeded

vars == <<htObj, htNew, pc, i, j, ret>>

AllocOutcome == IF AllocFails THEN BOOLEAN ELSE {TRUE}

Returns(op, ok) == ret' = [op |-> op, ok |-> ok]

OnlyReturns(op, ok) == Returns(op, ok) /\ UNCHANGED <<htObj, htNew, pc, i, j>>

Init ==
    /\ htObj = NULL
    /\ htNew = NULL
    /\ pc = "ready"
    /\ i = 0 /\ j = 0
    /\ ret = [op |-> "none", ok |-> TRUE]

-----------------------------------------------------------------------------
HTObject_create(ht_cap, alloc_ok) ==
    /\ pc = "ready" /\ htObj = NULL
    /\ htObj' = IF alloc_ok THEN HTCreate(ht_cap) ELSE NULL
    /\ Returns("create", alloc_ok)
    /\ UNCHANGED <<htNew, pc, i, j>>

HTObject_destroy ==
    /\ pc = "ready"
    /\ htObj' = NULL
    /\ Returns("destroy", TRUE)
    /\ UNCHANGED <<htNew, pc, i, j>>

\* The table and the answer of an operation on it; a NULL table is refused.
Applies(op, result) ==
    /\ htObj' = result.htObj
    /\ Returns(op, result.ret >= 0)
    /\ UNCHANGED <<htNew, pc, i, j>>

Positions(t) == UNION {{s} \X DOMAIN t.ht[s].bucket : s \in 0 .. t.ht_cap - 1}

HTObject_insert(key_hash, entry_id, realloc_ok) ==
    /\ pc = "ready"
    /\ IF htObj = NULL
       THEN OnlyReturns("insert", FALSE)
       ELSE /\ Cardinality(Positions(htObj)) < MaxPositions
            /\ Applies("insert", HTInsert(htObj, key_hash, entry_id, realloc_ok))

\* The positions of the entries in use with that hash.
Under(t, key_hash) ==
    LET bucket == SlotOf(t, key_hash).bucket
    IN  {p \in DOMAIN bucket : /\ bucket[p].state = "HT_ENTRY_INUSE"
                               /\ bucket[p].key_hash = key_hash}

\* Mutant of HTUpdate: the entry at the end of the bucket is taken for the one sought.
UpdateLast(t, key_hash, entry_id) ==
    LET slot == SlotOf(t, key_hash)
    IN  IF \/ t.ht_entry_cnt >= t.ht_cap
           \/ Len(slot.bucket) >= slot.bucket_cap
           \/ Len(slot.bucket) = 0
        THEN [ret |-> -1, htObj |-> t]
        ELSE [ret   |-> key_hash % t.ht_cap,
              htObj |-> [t EXCEPT !.ht[key_hash % t.ht_cap].bucket
                                      [Len(slot.bucket)].entry_id = entry_id]]

(***************************************************************************)
(* Update gives the first entry of the hash a new id.  It is refused when  *)
(* there are as many entries as slots, and also when the bucket is full,   *)
(* although it adds nothing to it.                                         *)
(***************************************************************************)
HTUpdate(t, key_hash, entry_id) ==
    LET slot == SlotOf(t, key_hash)
    IN  IF \/ t.ht_entry_cnt >= t.ht_cap
           \/ Len(slot.bucket) >= slot.bucket_cap
           \/ Under(t, key_hash) = {}
        THEN [ret |-> -1, htObj |-> t]
        ELSE [ret   |-> key_hash % t.ht_cap,
              htObj |-> [t EXCEPT !.ht[key_hash % t.ht_cap].bucket
                                      [FirstOf(Under(t, key_hash))].entry_id = entry_id]]

HTObject_update(key_hash, entry_id) ==
    /\ pc = "ready"
    /\ IF htObj = NULL THEN OnlyReturns("update", FALSE)
                       ELSE Applies("update", HTUpdate(htObj, key_hash, entry_id))

\* Delete divides by the capacity before it looks at anything.
HTObject_delete(key_hash, entry_id) ==
    /\ pc = "ready"
    /\ \/ htObj = NULL /\ OnlyReturns("delete", FALSE)
       \/ /\ htObj # NULL /\ htObj.ht_cap > 0
          /\ Applies("delete", HTDelete(htObj, key_hash, entry_id))
       \/ /\ htObj # NULL /\ htObj.ht_cap = 0
          /\ pc' = "dead"
          /\ Returns("delete", FALSE)
          /\ UNCHANGED <<htObj, htNew, i, j>>

-----------------------------------------------------------------------------
(* Resize and compact: create, copy the entries in use, destroy the old    *)
(* table.  Both return NULL and keep the old table when they fail.         *)

StartCopy(cap, alloc_ok) ==
    IF htObj = NULL \/ ~alloc_ok
    THEN OnlyReturns("copy", FALSE)
    ELSE /\ htNew' = HTCreate(cap)
         /\ pc' = "copy"
         /\ i' = 0 /\ j' = 0
         /\ UNCHANGED <<htObj, ret>>

\* Mutant of HTObject_resize: the array of slots is cut or extended in place.
ResizeInPlace(new_cap, alloc_ok) ==
    /\ pc = "ready" /\ htObj # NULL /\ alloc_ok
    /\ htObj' = [htObj EXCEPT !.ht_cap = new_cap,
                              !.ht = [s \in 0 .. new_cap - 1 |->
                                        IF s < htObj.ht_cap THEN htObj.ht[s]
                                        ELSE HTCreate(new_cap).ht[s]]]
    /\ Returns("copy", TRUE)
    /\ UNCHANGED <<htNew, pc, i, j>>

HTObject_resize(new_cap, alloc_ok) ==
    pc = "ready" /\ StartCopy(new_cap, alloc_ok)

HTObject_compact(alloc_ok) ==
    /\ pc = "ready"
    /\ StartCopy(IF htObj = NULL THEN 0 ELSE htObj.ht_cap, alloc_ok)

\* The copy is over: the caller has table t, and the other one is destroyed.
EndCopy(t, ok) ==
    /\ htObj' = t
    /\ htNew' = NULL
    /\ pc' = "ready"
    /\ i' = 0 /\ j' = 0
    /\ Returns("copy", ok)

InBucket == i < htObj.ht_cap /\ j < Len(htObj.ht[i].bucket)

\* Mutant of CopyEntry: refused when there are as many entries as slots, as in update.
CopyEntryByCount(realloc_ok) ==
    /\ pc = "copy" /\ InBucket
    /\ LET entry == htObj.ht[i].bucket[j + 1]
       IN  IF entry.state # "HT_ENTRY_INUSE"
           THEN j' = j + 1 /\ UNCHANGED <<htObj, htNew, pc, i, ret>>
           ELSE IF htNew.ht_entry_cnt >= htNew.ht_cap
           THEN EndCopy(htObj, FALSE)
           ELSE /\ htNew' = HTInsert(htNew, entry.key_hash, entry.entry_id, TRUE).htObj
                /\ j' = j + 1
                /\ UNCHANGED <<htObj, pc, i, ret>>

CopyEntry(realloc_ok) ==
    /\ pc = "copy" /\ InBucket
    /\ LET entry == htObj.ht[i].bucket[j + 1]
           ins   == HTInsert(htNew, entry.key_hash, entry.entry_id, realloc_ok)
       IN  \/ /\ entry.state # "HT_ENTRY_INUSE"
              /\ j' = j + 1
              /\ UNCHANGED <<htObj, htNew, pc, i, ret>>
           \/ /\ entry.state = "HT_ENTRY_INUSE" /\ ins.ret >= 0
              /\ htNew' = ins.htObj
              /\ j' = j + 1
              /\ UNCHANGED <<htObj, pc, i, ret>>
           \/ /\ entry.state = "HT_ENTRY_INUSE" /\ ins.ret < 0
              /\ EndCopy(htObj, FALSE)

\* Mutant of CopyNextSlot: the position is not reset.
CopyNextSlotKeepsPosition ==
    /\ pc = "copy" /\ ~InBucket /\ i < htObj.ht_cap
    /\ i' = i + 1
    /\ UNCHANGED <<htObj, htNew, pc, j, ret>>

\* Mutant of CopyNextSlot: a slot without entries is not passed.
CopyNextSlotStuck ==
    /\ pc = "copy" /\ ~InBucket /\ i < htObj.ht_cap /\ j > 0
    /\ i' = i + 1
    /\ j' = 0
    /\ UNCHANGED <<htObj, htNew, pc, ret>>

CopyNextSlot ==
    /\ pc = "copy" /\ ~InBucket /\ i < htObj.ht_cap
    /\ i' = i + 1
    /\ j' = 0
    /\ UNCHANGED <<htObj, htNew, pc, ret>>

\* Mutant of CopyDone: the loop stops at the capacity of the new table.
CopyDoneEarly ==
    /\ pc = "copy" /\ (i >= htNew.ht_cap \/ i >= htObj.ht_cap)
    /\ EndCopy(htNew, TRUE)

CopyDone ==
    /\ pc = "copy" /\ i >= htObj.ht_cap
    /\ EndCopy(htNew, TRUE)

CopyStep == (\E ok \in AllocOutcome : CopyEntry(ok)) \/ CopyNextSlot \/ CopyDone

Next ==
    \/ \E cap \in Caps, ok \in AllocOutcome : HTObject_create(cap, ok)
    \/ HTObject_destroy
    \/ \E h \in Hashes, id \in Ids, ok \in AllocOutcome : HTObject_insert(h, id, ok)
    \/ \E h \in Hashes, id \in Ids : HTObject_update(h, id)
    \/ \E h \in Hashes, id \in Ids : HTObject_delete(h, id)
    \/ \E cap \in Caps, ok \in AllocOutcome : HTObject_resize(cap, ok)
    \/ \E ok \in AllocOutcome : HTObject_compact(ok)
    \/ CopyStep

\* The loops of resize and compact run on; nobody need call anything.
Spec == Init /\ [][Next]_vars /\ WF_vars(CopyStep)

-----------------------------------------------------------------------------
(* Tables hold what their arrays have room for, and a copy in progress is   *)
(* at a slot of the old table and at most at the end of its bucket.         *)
TableOK(t) ==
    /\ t.ht_cap \in Nat
    /\ t \in HTObject(t.ht_cap)
    /\ t.ht_cap = 0 => t.ht_entry_cnt = 0
    /\ \A s \in 0 .. t.ht_cap - 1 : /\ INIT_BUCKET_CAP <= t.ht[s].bucket_cap
                                    /\ Len(t.ht[s].bucket) <= t.ht[s].bucket_cap

\* TypeOK: no bucket is longer than what its last realloc gave it, and the
\* loops of resize and compact read inside the old table.
TypeOK ==
    /\ pc \in {"ready", "copy", "dead"}
    /\ htObj # NULL => TableOK(htObj)
    /\ pc = "copy" => TableOK(htObj) /\ TableOK(htNew)
    /\ pc # "copy" => htNew = NULL /\ i = 0 /\ j = 0
    /\ i \in Nat /\ j \in Nat
    /\ pc = "copy" => /\ i <= htObj.ht_cap
                      /\ i < htObj.ht_cap => j <= Len(htObj.ht[i].bucket)
                      /\ i = htObj.ht_cap => j = 0
    /\ ret.ok \in BOOLEAN

InUse(t, s, p) == t.ht[s].bucket[p].state = "HT_ENTRY_INUSE"

\* EntriesInOwnSlot: every entry in use is in the slot that its hash selects,
\* where insert, delete and the engine's lookup go for it, also in a table that
\* was resized, and in the one that a copy is filling.
OwnSlots(t) ==
    \A s \in 0 .. t.ht_cap - 1 : \A p \in DOMAIN t.ht[s].bucket :
       InUse(t, s, p) => s = t.ht[s].bucket[p].key_hash % t.ht_cap

EntriesInOwnSlot ==
    /\ htObj # NULL => OwnSlots(htObj)
    /\ pc = "copy" => OwnSlots(htObj) /\ OwnSlots(htNew)

\* CountsAgree: the three counters say how many entries are in use, how many are
\* tombstones and how many slots were ever used, so that none of them wraps below
\* zero and the table is not refused as full while a slot was never used; what is
\* not in use can match no id, and a table that a copy fills has no tombstones.
InState(t, state) ==
    {sp \in Positions(t) : t.ht[sp[1]].bucket[sp[2]].state = state}

EverUsed(t) == {s \in 0 .. t.ht_cap - 1 : t.ht[s].bucket # <<>>}

Counts(t) ==
    /\ t.ht_entry_cnt = Cardinality(InState(t, "HT_ENTRY_INUSE"))
    /\ t.ht_del_cnt = Cardinality(InState(t, "HT_ENTRY_DELETED"))
    /\ t.ht_slot_used_cnt = Cardinality(EverUsed(t))
    /\ EverUsed(t) = {s \in 0 .. t.ht_cap - 1 : t.ht[s].slot_state = "HT_SLOT_INUSE"}
    /\ \A sp \in InState(t, "HT_ENTRY_DELETED") : t.ht[sp[1]].bucket[sp[2]] = Tombstone

CountsAgree ==
    /\ htObj # NULL => Counts(htObj)
    /\ pc = "copy" => Counts(htObj) /\ Counts(htNew) /\ htNew.ht_del_cnt = 0

\* The pairs that a table holds.
Pair(entry) == <<entry.key_hash, entry.entry_id>>

LivePairs(t) ==
    UNION {{Pair(t.ht[s].bucket[p]) : p \in {q \in DOMAIN t.ht[s].bucket : InUse(t, s, q)}} :
           s \in 0 .. t.ht_cap - 1}

\* CopiedSoFar: at every point of a copy the new table holds exactly the pairs at
\* the positions it has passed. It is why a copy that ends has kept all of them.
Passed(s, p) == s < i \/ (s = i /\ p <= j)

PassedPairs ==
    UNION {{Pair(htObj.ht[s].bucket[p]) :
              p \in {q \in DOMAIN htObj.ht[s].bucket : Passed(s, q) /\ InUse(htObj, s, q)}} :
           s \in 0 .. htObj.ht_cap - 1}

CopiedSoFar == pc = "copy" => LivePairs(htNew) = PassedPairs

\* CopyKeepsPairs: a resize or compaction that succeeds gives the caller exactly
\* the (hash, id) pairs it had, and one that fails leaves the table alone.
CopyKeepsPairs ==
    [][pc = "copy" /\ pc' = "ready" =>
          /\ LivePairs(htObj') = LivePairs(htObj)
          /\ ~ret'.ok => htObj' = htObj]_vars

\* CopyFailsOnlyWhenFull: as long as allocations succeed, a resize or compaction
\* is given up only if the entries in use fill every slot of the new table. (It
\* may then fail although the old table was legal: the last slot to be filled
\* can have a second entry, and insert refuses it.)
CopyFailsOnlyWhenFull ==
    [][pc = "copy" /\ pc' = "ready" /\ ~ret'.ok /\ ~AllocFails =>
          \A s \in 0 .. htNew.ht_cap - 1 :
             \E pair \in LivePairs(htObj) : s = pair[1] % htNew.ht_cap]_vars

\* EveryCopyEnds: the loops of resize and compact end.
EveryCopyEnds == (pc = "copy") ~> (pc = "ready")

-----------------------------------------------------------------------------
(* The ids that a lookup meets, in the order in which it meets them.        *)
UnderHash(entry, key_hash) == entry.state = "HT_ENTRY_INUSE" /\ entry.key_hash = key_hash

\* Those in the first n entries of a bucket.
IdsIn(bucket, key_hash) ==
    LET ids[n \in 0 .. Len(bucket)] ==
          IF n = 0 THEN <<>>
          ELSE IF UnderHash(bucket[n], key_hash) THEN Append(ids[n - 1], bucket[n].entry_id)
          ELSE ids[n - 1]
    IN  ids

IdsOf(t, key_hash) ==
    IF t = NULL \/ t.ht_cap = 0 THEN <<>>
    ELSE LET bucket == SlotOf(t, key_hash).bucket
         IN  IdsIn(bucket, key_hash)[Len(bucket)]

Multimap == INSTANCE HashMultimap WITH
    ids <- [h \in Hashes |-> IdsOf(htObj, h)]

\* ImplementsMultimap: per hash the index keeps the ids in the order of their
\* insertion, whatever tombstones lie between them and through any number of
\* compactions and resizes, also those that fail half-way.
ImplementsMultimap == Multimap!MSpec
=============================================================================
