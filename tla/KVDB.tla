-------------------------------- MODULE KVDB --------------------------------
(***************************************************************************)
(* One process using one database file through the API of                  *)
(* core/src/kvdb/kvdb.c: create or open, then put, get, get_key,           *)
(* get_by_key, delete, delete_by_key and EntryCount, then close, and again *)
(* from the start.  The loops of open are steps of their own (phases       *)
(* "loadkeys" and "loadindex"); every other operation is one action.       *)
(*                                                                         *)
(* The file they leave is that of DBFile.                                  *)
(***************************************************************************)
EXTENDS HashTable, DBFile, FiniteSets

CONSTANTS
    Hash,                    \* fnv_1a_hash of the key's bytes
    ZeroVal, NoKey,          \* a value of length 0 and type 0; a zeroed Key
    Caps,                    \* the capacities create is called with
    MAX_KEY_SIZE,
    ULONG_RANGE,             \* a ulong_t counts modulo this (2^32 in the code)
    AllocFails               \* whether malloc, calloc and realloc may return NULL

ASSUME ConstantsAssumption ==
    /\ KeyLen \in [Key -> Nat] /\ ValLen \in [Val -> Nat] /\ Hash \in [Key -> Nat]
    /\ Caps \subseteq Nat /\ MAX_KEY_SIZE \in Nat
    /\ {HEADER_SIZE, INDEX_ENTRY_SIZE, DATA_ENTRY_HEADER_SIZE, EOF_SIZE,
        ULONG_RANGE} \subseteq Nat \ {0}
    /\ AllocFails \in BOOLEAN
    /\ NULL \notin Key \cup Val \cup {ZeroVal} /\ ZeroVal \notin Val
    /\ NoKey \notin Key

VARIABLES
    phase,        \* "closed", "loadkeys", "loadindex", "ready", "garbage", "dead"
    file,         \* what the database file holds
    Header, IndexTable, key_arr, htObj, OffsetPtr, db_modified,   \* DBObject
    i, fpos,      \* loop counter and file position of open's loops
    ret           \* what the last operation returned

DBObject == <<Header, IndexTable, key_arr, htObj, OffsetPtr, db_modified>>
vars == <<phase, file, DBObject, i, fpos, ret>>

AllocOutcome == IF AllocFails THEN BOOLEAN ELSE {TRUE}

-----------------------------------------------------------------------------
(* The zeroed and the freed DBObject. *)

UnusedEntry == [KeyHash |-> 0, Flags |-> {}, Offset |-> 0]
ZeroKey     == [key |-> NoKey, data |-> FALSE]

NewHeader(cap) == [EntryCapacity |-> cap, EntryCount |-> 0, ValidEntryCount |-> 0,
                   IndexTableOffset |-> HEADER_SIZE, EOFHeaderOffset |-> 0]

NoSession ==
    /\ Header' = NewHeader(0)
    /\ IndexTable' = [n \in {} |-> UnusedEntry]
    /\ key_arr' = [n \in {} |-> ZeroKey]
    /\ htObj' = HTCreate(0)
    /\ OffsetPtr' = HEADER_SIZE
    /\ db_modified' = FALSE
    /\ i' = 0
    /\ fpos' = 0

Returns(op, id, obj) == ret' = [op |-> op, id |-> id, obj |-> obj]

\* The operation did nothing but return.
OnlyReturns(op, id, obj) ==
    /\ Returns(op, id, obj)
    /\ UNCHANGED <<phase, file, DBObject, i, fpos>>

\* The process is killed by a fault inside the operation.
Dies(op) ==
    /\ phase' = "dead"
    /\ NoSession
    /\ Returns(op, -1, NULL)
    /\ UNCHANGED file

Init ==
    /\ phase = "closed"
    /\ file = EmptyFile
    /\ Header = NewHeader(0)
    /\ IndexTable = [n \in {} |-> UnusedEntry]
    /\ key_arr = [n \in {} |-> ZeroKey]
    /\ htObj = HTCreate(0)
    /\ OffsetPtr = HEADER_SIZE
    /\ db_modified = FALSE
    /\ i = 0
    /\ fpos = 0
    /\ ret = [op |-> "none", id |-> 0, obj |-> NULL]

-----------------------------------------------------------------------------
(* create and open. *)

\* fopen "wb+" empties the file; of the allocations only the first is before it.
KVDB_DBObject_create(cap, alloc_ok) ==
    /\ phase = "closed"
    /\ IF alloc_ok
       THEN /\ phase' = "ready"
            /\ file' = EmptyFile
            /\ Header' = NewHeader(cap)
            /\ IndexTable' = [n \in 0 .. cap - 1 |-> UnusedEntry]
            /\ key_arr' = [n \in 0 .. cap - 1 |-> ZeroKey]
            /\ htObj' = HTCreate(cap)
            /\ OffsetPtr' = HEADER_SIZE
            /\ db_modified' = TRUE
            /\ i' = 0
            /\ fpos' = 0
            /\ Returns("create", 0, NULL)
       ELSE /\ phase' = "closed"
            /\ file' \in {file, EmptyFile}
            /\ NoSession
            /\ Returns("create", -1, NULL)

OpenFails ==
    /\ phase' = "closed"
    /\ NoSession
    /\ Returns("open", -1, NULL)
    /\ UNCHANGED file

\* open goes on with bytes that no close wrote there: nothing checks them.
OpenReadsGarbage ==
    /\ phase' = "garbage"
    /\ NoSession
    /\ Returns("open", -1, NULL)
    /\ UNCHANGED file

\* Header and index table, then the calloc of key_arr.
KVDB_DBObject_open(alloc_ok) ==
    /\ phase = "closed"
    /\ IF ~Holds(file, 0, "header") \/ ~alloc_ok
       THEN OpenFails
       ELSE LET h == file[0].hdr
                at == h.IndexTableOffset
            IN  IF h.EntryCount > 0 /\ ~(/\ Holds(file, at, "index")
                                         /\ file[at].count = h.EntryCount)
                THEN OpenReadsGarbage
                ELSE /\ phase' = "loadkeys"
                     /\ Header' = h
                     /\ IndexTable' = [n \in 0 .. h.EntryCapacity - 1 |->
                                         IF n < h.EntryCount THEN file[at].table[n]
                                                             ELSE UnusedEntry]
                     /\ key_arr' = [n \in 0 .. h.EntryCapacity - 1 |-> ZeroKey]
                     /\ fpos' = HEADER_SIZE
                     /\ i' = 0
                     /\ UNCHANGED <<file, htObj, OffsetPtr, db_modified, ret>>

\* Mutants of open_load_keys: the value is not skipped; deleted entries are.
LoadKeysForgetsValue(alloc_ok) ==
    /\ phase = "loadkeys"
    /\ i < Header.EntryCount
    /\ IF ~Holds(file, fpos, "record")
       THEN OpenReadsGarbage
       ELSE /\ key_arr' = [key_arr EXCEPT ![i] = [key |-> file[fpos].key, data |-> TRUE]]
            /\ fpos' = fpos + DATA_ENTRY_HEADER_SIZE + KeyLen[file[fpos].key]
            /\ i' = i + 1
            /\ UNCHANGED <<phase, file, Header, IndexTable, htObj, OffsetPtr,
                           db_modified, ret>>

LoadKeysSkipsDeleted(alloc_ok) ==
    /\ phase = "loadkeys"
    /\ i < Header.EntryCount
    /\ i' = i + 1
    /\ IF "FLAG_DELETED" \in IndexTable[i].Flags
       THEN UNCHANGED <<key_arr, fpos>>
       ELSE /\ key_arr' = [key_arr EXCEPT ![i] = [key |-> file[fpos].key, data |-> TRUE]]
            /\ fpos' = fpos + SizeOf(file[fpos])
    /\ UNCHANGED <<phase, file, Header, IndexTable, htObj, OffsetPtr, db_modified, ret>>

\* One iteration of open_load_keys: it walks the data section record by record
\* and never uses IndexTable[i].Offset.  fread(.., 0, 1, fp) returns 0.
KVDB_DBObject_open_load_keys(alloc_ok) ==
    /\ phase = "loadkeys"
    /\ i < Header.EntryCount
    /\ IF ~Holds(file, fpos, "record")
       THEN OpenReadsGarbage
       ELSE IF ~alloc_ok \/ KeyLen[file[fpos].key] = 0
       THEN OpenFails
       ELSE /\ key_arr' = [key_arr EXCEPT ![i] = [key |-> file[fpos].key, data |-> TRUE]]
            /\ fpos' = fpos + SizeOf(file[fpos])
            /\ i' = i + 1
            /\ UNCHANGED <<phase, file, Header, IndexTable, htObj, OffsetPtr,
                           db_modified, ret>>

\* Mutant: the index is sized for the entries there are.
NewIndexForEntries(alloc_ok) ==
    /\ phase = "loadkeys"
    /\ i >= Header.EntryCount
    /\ phase' = "loadindex"
    /\ htObj' = HTCreate(Header.EntryCount)
    /\ i' = 0
    /\ UNCHANGED <<file, Header, IndexTable, key_arr, OffsetPtr, db_modified, fpos, ret>>

\* The keys are in; the hash index is created.
KVDB_DBObject_open_new_index(alloc_ok) ==
    /\ phase = "loadkeys"
    /\ i >= Header.EntryCount
    /\ IF alloc_ok
       THEN /\ phase' = "loadindex"
            /\ htObj' = HTCreate(Header.EntryCapacity)
            /\ i' = 0
            /\ UNCHANGED <<file, Header, IndexTable, key_arr, OffsetPtr,
                           db_modified, fpos, ret>>
       ELSE OpenFails

\* Mutant: the loop stays at a deleted entry instead of going past it.
LoadIndexStaysAtDeleted(alloc_ok) ==
    /\ phase = "loadindex"
    /\ i < Header.EntryCount
    /\ LET ins == HTInsert(htObj, IndexTable[i].KeyHash, i, alloc_ok)
       IN  IF "FLAG_DELETED" \in IndexTable[i].Flags
           THEN UNCHANGED <<htObj, i>>
           ELSE ins.ret >= 0 /\ htObj' = ins.htObj /\ i' = i + 1
    /\ UNCHANGED <<phase, file, Header, IndexTable, key_arr, OffsetPtr, db_modified, fpos, ret>>

\* One iteration of the insertion loop: deleted entries are inserted too.  When
\* the insertion fails the table is destroyed here and again in close.
KVDB_DBObject_open_load_index(alloc_ok) ==
    /\ phase = "loadindex"
    /\ i < Header.EntryCount
    /\ LET ins == HTInsert(htObj, IndexTable[i].KeyHash, i, alloc_ok)
       IN  IF ins.ret < 0
           THEN Dies("open")
           ELSE /\ htObj' = ins.htObj
                /\ i' = i + 1
                /\ UNCHANGED <<phase, file, Header, IndexTable, key_arr,
                               OffsetPtr, db_modified, fpos, ret>>

\* Mutant: the write position stays at the beginning of the data section.
OpenDoneAtStart ==
    /\ phase = "loadindex"
    /\ i >= Header.EntryCount
    /\ phase' = "ready"
    /\ OffsetPtr' = HEADER_SIZE
    /\ i' = 0
    /\ fpos' = 0
    /\ Returns("open", 0, NULL)
    /\ UNCHANGED <<file, Header, IndexTable, key_arr, htObj, db_modified>>

KVDB_DBObject_open_done ==
    /\ phase = "loadindex"
    /\ i >= Header.EntryCount
    /\ phase' = "ready"
    /\ OffsetPtr' = Header.IndexTableOffset
    /\ i' = 0
    /\ fpos' = 0
    /\ Returns("open", 0, NULL)
    /\ UNCHANGED <<file, Header, IndexTable, key_arr, htObj, db_modified>>

OpenStep == \E alloc_ok \in AllocOutcome :
                \/ KVDB_DBObject_open_load_keys(alloc_ok)
                \/ KVDB_DBObject_open_new_index(alloc_ok)
                \/ KVDB_DBObject_open_load_index(alloc_ok)
                \/ KVDB_DBObject_open_done

-----------------------------------------------------------------------------
(* Looking a key up. *)

FAULT == -2

(***************************************************************************)
(* What KVDB_conv_key_entry_id may answer: an entry id, -1, or FAULT.  The *)
(* scan indexes key_arr with the entry_id of every bucket entry it passes, *)
(* tombstones included, whose -1 reads before the array: with a key to     *)
(* compare, memcmp faults on the wild pointer found there or does not      *)
(* match; with a key of length 0 nothing is dereferenced and the garbage   *)
(* may match, which returns the -1.  A key_arr element whose malloc failed *)
(* holds NULL.  With ht_cap 0 the slot computation divides by zero.        *)
(***************************************************************************)
KVDB_conv_key_entry_id(k) ==
    IF htObj.ht_cap = 0
    THEN {FAULT}
    ELSE LET bucket  == SlotOf(htObj, Hash[k]).bucket
             Id(p)   == bucket[p].entry_id
             Wild(p) == Id(p) = -1
             Null(p) == ~Wild(p) /\ ~key_arr[Id(p)].data
             hits    == {p \in DOMAIN bucket :
                           /\ ~Wild(p)
                           /\ key_arr[Id(p)].key = k
                           /\ "FLAG_DELETED" \notin IndexTable[Id(p)].Flags}
             passed  == {p \in DOMAIN bucket : \A q \in hits : p <= q}
             answer  == IF hits = {} THEN -1 ELSE Id(FirstOf(hits))
         IN  IF KeyLen[k] = 0
             THEN {answer} \cup (IF \E p \in passed : Wild(p) THEN {-1} ELSE {})
             ELSE IF \E p \in passed : Null(p)
             THEN {FAULT}
             ELSE {answer} \cup (IF \E p \in passed : Wild(p) THEN {FAULT} ELSE {})

-----------------------------------------------------------------------------
(* delete, as a function from the session's state to its next one.  put and *)
(* delete_by_key call it. *)

Unchanged(result) ==
    [ret |-> result, Header |-> Header, IndexTable |-> IndexTable,
     htObj |-> htObj, db_modified |-> db_modified]

DeleteEntry(EntryID) ==
    IF EntryID >= Header.EntryCount
    THEN Unchanged(-1)
    ELSE LET del == HTDelete(htObj, IndexTable[EntryID].KeyHash, EntryID)
         IN  IF del.ret < 0
             THEN [Unchanged(-2) EXCEPT !.db_modified = TRUE]
             ELSE [ret         |-> EntryID,
                   Header      |-> [Header EXCEPT !.ValidEntryCount =
                                      (@ + ULONG_RANGE - 1) % ULONG_RANGE],
                   IndexTable  |-> [IndexTable EXCEPT ![EntryID].Flags =
                                      {"FLAG_DELETED"}],
                   htObj       |-> del.htObj,
                   db_modified |-> TRUE]

\* The operation goes on with what a deletion left, and returns result.
AfterDelete(op, result, del) ==
    /\ Header' = del.Header
    /\ IndexTable' = del.IndexTable
    /\ htObj' = del.htObj
    /\ db_modified' = del.db_modified
    /\ Returns(op, result, NULL)
    /\ UNCHANGED <<phase, file, key_arr, OffsetPtr, i, fpos>>

Deletes(op, EntryID) == AfterDelete(op, DeleteEntry(EntryID).ret, DeleteEntry(EntryID))

KVDB_DBObject_delete(EntryID) ==
    /\ phase = "ready"
    /\ Deletes("delete", EntryID)

KVDB_DBObject_delete_by_key(k) ==
    /\ phase = "ready"
    /\ \E id \in KVDB_conv_key_entry_id(k) :
          CASE id = FAULT -> Dies("delete_by_key")
            [] id = -1    -> OnlyReturns("delete_by_key", -1, NULL)
            [] OTHER      -> Deletes("delete_by_key", id)

-----------------------------------------------------------------------------
(* put. *)

\* The hash index refuses the new entry: the old one may be gone already.
NotIndexed(del) ==
    /\ Header' = del.Header
    /\ IndexTable' = del.IndexTable
    /\ Returns("put", -1, NULL)
    /\ UNCHANGED <<file, key_arr, OffsetPtr>>

\* Mutant of Torn: the write position moves behind the torn record.
TornAdvances(k, n, del) ==
    /\ Header' = del.Header
    /\ IndexTable' = del.IndexTable
    /\ key_arr' = [key_arr EXCEPT ![n] = [key |-> k, data |-> FALSE]]
    /\ file' = Write(file, OffsetPtr, TornCell(k))
    /\ OffsetPtr' = OffsetPtr + SizeOf(TornCell(k))
    /\ Returns("put", -1, NULL)

\* Record header and key are written; then there is no memory to copy the key.
Torn(k, n, del) ==
    /\ Header' = del.Header
    /\ IndexTable' = del.IndexTable
    /\ key_arr' = [key_arr EXCEPT ![n] = [key |-> k, data |-> FALSE]]
    /\ file' = Write(file, OffsetPtr, TornCell(k))
    /\ Returns("put", -1, NULL)
    /\ UNCHANGED OffsetPtr

\* The whole record is written, and entry n describes it.
Appended(k, n, del, rec) ==
    /\ Header' = [EntryCapacity    |-> del.Header.EntryCapacity,
                   EntryCount       |-> n + 1,
                   ValidEntryCount  |-> (del.Header.ValidEntryCount + 1) % ULONG_RANGE,
                   IndexTableOffset |-> del.Header.IndexTableOffset + SizeOf(rec),
                   EOFHeaderOffset  |-> del.Header.EOFHeaderOffset]
    /\ IndexTable' = [del.IndexTable EXCEPT
                        ![n] = [KeyHash |-> Hash[k],
                                Flags   |-> @.Flags \cup {"FLAG_VALID"},
                                Offset  |-> OffsetPtr]]
    /\ key_arr' = [key_arr EXCEPT ![n] = [key |-> k, data |-> TRUE]]
    /\ file' = Write(file, OffsetPtr, rec)
    /\ OffsetPtr' = OffsetPtr + SizeOf(rec)
    /\ Returns("put", n, NULL)

\* del is what the deletion of the old entry left; ins, n and rec are the
\* insertion into the index, the new entry and its record.
AppendStep(k, n, del, ins, rec, malloc_ok) ==
    /\ htObj' = ins.htObj
    /\ \/ /\ ins.ret < 0
          /\ NotIndexed(del)
          /\ db_modified' = del.db_modified
       \/ /\ ins.ret >= 0 /\ ~malloc_ok
          /\ Torn(k, n, del)
          /\ db_modified' = del.db_modified
       \/ /\ ins.ret >= 0 /\ malloc_ok
          /\ Appended(k, n, del, rec)
          /\ db_modified' = TRUE
    /\ UNCHANGED <<phase, i, fpos>>

\* Mutant: the number of a deleted entry is given out again.
AppendReusesDeleted(k, v, del, realloc_ok, malloc_ok) ==
    LET count   == del.Header.EntryCount
        deleted == {d \in 0 .. count - 1 : "FLAG_DELETED" \in del.IndexTable[d].Flags}
        n       == IF deleted = {} THEN count ELSE FirstOf(deleted)
    IN  AppendStep(k, n, del, HTInsert(del.htObj, Hash[k], n, realloc_ok),
                   RecordCell(k, v), malloc_ok)

Append_(k, v, del, realloc_ok, malloc_ok) ==
    LET n == del.Header.EntryCount
    IN  AppendStep(k, n, del, HTInsert(del.htObj, Hash[k], n, realloc_ok),
                   RecordCell(k, v), malloc_ok)

\* Mutant: one entry too many is accepted.
AcceptsOneMore(k) ==
    Header.EntryCount <= Header.EntryCapacity /\ KeyLen[k] <= MAX_KEY_SIZE

\* There is room for an entry, and the key is not too long.
Accepts(k) ==
    Header.EntryCount < Header.EntryCapacity /\ KeyLen[k] <= MAX_KEY_SIZE

\* Mutant: the old entry of the key is left alone.
KeepOld(id) == Unchanged(0)

\* The old entry of the key, if the lookup found one, is deleted.
DeleteOld(id) == IF id >= 0 THEN DeleteEntry(id) ELSE Unchanged(0)

KVDB_DBObject_put(k, v, realloc_ok, malloc_ok) ==
    /\ phase = "ready"
    /\ IF ~Accepts(k)
       THEN OnlyReturns("put", -1, NULL)
       ELSE \E id \in KVDB_conv_key_entry_id(k) :
              IF id = FAULT THEN Dies("put")
              ELSE IF DeleteOld(id).ret < 0
              THEN AfterDelete("put", -1, DeleteOld(id))
              ELSE Append_(k, v, DeleteOld(id), realloc_ok, malloc_ok)

-----------------------------------------------------------------------------
(* get, get_key, get_by_key, EntryCount, close. *)

\* The record header that get reads at IndexTable[EntryID].Offset.  An unused
\* entry has offset 0: there stands the magic number, which no key length may
\* be, or, until the first close writes the header, a hole that reads as zeros.
ReadAt(EntryID, member) ==
    LET o == IndexTable[EntryID].Offset
    IN  IF \/ EntryID >= Header.EntryCapacity
           \/ "FLAG_DELETED" \in IndexTable[EntryID].Flags
        THEN NULL
        ELSE IF Holds(file, o, "record") THEN file[o][member]
        ELSE IF o = 0 /\ ~Holds(file, 0, "header") /\ file # EmptyFile THEN ZeroVal
        ELSE NULL

KVDB_DBObject_get(EntryID, alloc_ok) ==
    /\ phase = "ready"
    /\ OnlyReturns("get", 0, IF alloc_ok THEN ReadAt(EntryID, "val") ELSE NULL)

KVDB_DBObject_get_key(EntryID, alloc_ok) ==
    /\ phase = "ready"
    /\ OnlyReturns("get_key", 0, IF alloc_ok THEN ReadAt(EntryID, "key") ELSE NULL)

KVDB_DBObject_get_by_key(k, alloc_ok) ==
    /\ phase = "ready"
    /\ \E id \in KVDB_conv_key_entry_id(k) :
          CASE id = FAULT -> Dies("get_by_key")
            [] id = -1    -> OnlyReturns("get_by_key", -1, NULL)
            [] OTHER      -> OnlyReturns("get_by_key", 0,
                                IF alloc_ok THEN ReadAt(id, "val") ELSE NULL)

KVDB_DBObject_EntryCount ==
    /\ phase = "ready"
    /\ OnlyReturns("EntryCount", Header.EntryCount, NULL)

WriteDBIndexTable(f) ==
    IF Header.EntryCount = 0 THEN f
    ELSE Write(f, Header.IndexTableOffset, IndexCell(Header.EntryCount, IndexTable))

EOFOffset == Header.IndexTableOffset + Header.EntryCount * INDEX_ENTRY_SIZE

\* Mutant: the header is written with the EOF offset of the previous close.
WriteStaleHeader(f) == Write(f, 0, HeaderCell(Header))

WriteDBFileHeader(f) ==
    Write(f, 0, HeaderCell([Header EXCEPT !.EOFHeaderOffset = EOFOffset]))

\* Index table, EOF marker, header, in this order, if anything was modified.
KVDB_DBObject_close ==
    /\ phase = "ready"
    /\ phase' = "closed"
    /\ file' = IF db_modified
               THEN WriteDBFileHeader(Write(WriteDBIndexTable(file), EOFOffset, EOFCell))
               ELSE file
    /\ NoSession
    /\ Returns("close", 0, NULL)

EntryIDs == 0 .. Header.EntryCapacity

Next ==
    \/ \E alloc_ok \in AllocOutcome :
          \/ \E cap \in Caps : KVDB_DBObject_create(cap, alloc_ok)
          \/ KVDB_DBObject_open(alloc_ok)
          \/ \E id \in EntryIDs : \/ KVDB_DBObject_get(id, alloc_ok)
                                  \/ KVDB_DBObject_get_key(id, alloc_ok)
          \/ \E k \in Key : KVDB_DBObject_get_by_key(k, alloc_ok)
          \/ \E k \in Key, v \in Val, realloc_ok \in AllocOutcome :
                KVDB_DBObject_put(k, v, realloc_ok, alloc_ok)
    \/ OpenStep
    \/ \E id \in EntryIDs : KVDB_DBObject_delete(id)
    \/ \E k \in Key : KVDB_DBObject_delete_by_key(k)
    \/ KVDB_DBObject_EntryCount
    \/ KVDB_DBObject_close

\* The loops of open run to their end: nothing else happens in the process.
Spec == Init /\ [][Next]_vars /\ WF_vars(OpenStep)

-----------------------------------------------------------------------------
(* Correctness. *)

Entries  == 0 .. Header.EntryCount - 1
Live     == {n \in Entries : "FLAG_DELETED" \notin IndexTable[n].Flags}

HeaderType == [EntryCapacity : Nat, EntryCount : Nat, ValidEntryCount : Nat,
               IndexTableOffset : Nat, EOFHeaderOffset : Nat]
IndexEntryType == [KeyHash : Nat, Flags : SUBSET {"FLAG_VALID", "FLAG_DELETED"},
                   Offset : Nat]

(* Type correctness: the arrays of the DBObject have EntryCapacity elements, *)
(* and the counters of the header stay within it. *)
TypeOK ==
    /\ phase \in {"closed", "loadkeys", "loadindex", "ready", "garbage", "dead"}
    /\ Header \in HeaderType
    /\ Header.EntryCount <= Header.EntryCapacity
    /\ IndexTable \in [0 .. Header.EntryCapacity - 1 -> IndexEntryType]
    /\ key_arr \in [0 .. Header.EntryCapacity - 1 ->
                      [key : Key \cup {NoKey}, data : BOOLEAN]]
    /\ htObj.ht_cap \in Nat /\ htObj \in HTObject(htObj.ht_cap)
    /\ OffsetPtr \in Nat /\ db_modified \in BOOLEAN
    /\ i \in Nat /\ fpos \in Nat

(* At most one entry of a key is not deleted: put relies on it when it deletes *)
(* only the first entry the index finds (kvdb.c 291-298). *)
OneLiveEntryPerKey ==
    phase = "ready" =>
       \A m, n \in Live : /\ key_arr[m].key = key_arr[n].key
                          /\ KeyLen[key_arr[m].key] > 0
                          => m = n

(* Every live entry can be found: the bucket of its hash holds it, in every *)
(* session, whatever was inserted, deleted and reloaded (kvdb.c 201-208, 349). *)
LiveEntriesIndexed ==
    phase = "ready" => \A n \in Live : Holding(htObj, IndexTable[n].KeyHash, n) # {}

(* The record an index entry points to has the key that the sequential walk of *)
(* open_load_keys gave that entry, and nothing overwrote it (kvdb.c 107-143, 311). *)
RecordsIntact ==
    phase = "ready" =>
       \A n \in Entries : /\ Holds(file, IndexTable[n].Offset, "record")
                          /\ file[IndexTable[n].Offset].key = key_arr[n].key
                          /\ IndexTable[n].KeyHash = Hash[key_arr[n].key]

(* The next record goes right behind the last one, where the index table of *)
(* the last close begins (kvdb.c 210, 332-335). *)
AppendsAtTheEnd ==
    phase = "ready" =>
       /\ OffsetPtr = Header.IndexTableOffset
       /\ \A n \in Entries :
             IndexTable[n].Offset + SizeOf(file[IndexTable[n].Offset]) =
                IF n + 1 \in Entries THEN IndexTable[n + 1].Offset ELSE OffsetPtr

(* The hash index never reports "HashTable full" before the database is full *)
(* (hash_index.c 97-100 against kvdb.c 272), as long as allocations succeed. *)
IndexFullOnlyWhenDBFull ==
    phase = "ready" /\ Header.EntryCount < Header.EntryCapacity =>
       htObj.ht_slot_used_cnt < htObj.ht_cap

(* A database that was closed once is refused by open only for a record whose *)
(* key is empty (kvdb.c 122-128), and open never reads bytes that no close wrote. *)
ReopenSucceeds ==
    /\ phase # "garbage"
    /\ ret.op = "open" /\ ret.id = -1 =>
          \/ ~Holds(file, 0, "header")
          \/ \E o \in DOMAIN file : file[o].kind = "record" /\ KeyLen[file[o].key] = 0

(* After a close the EOF marker stands at EOFHeaderOffset and nothing lies *)
(* behind it (kvdb.c 249-255; README.MD: FileEOF - sizeof(DBEOFMarker)). *)
EOFMarkerIsLast ==
    phase = "closed" /\ Holds(file, 0, "header") =>
       LET eof == file[0].hdr.EOFHeaderOffset
       IN  /\ Holds(file, eof, "eof")
           /\ \A o \in DOMAIN file : o + SizeOf(file[o]) <= eof + EOF_SIZE

(* Within a session an entry keeps its key, its record and, once it is deleted, *)
(* its tombstone flag: deletion is logical and data is only ever appended. *)
EntriesAreForever ==
    [][phase = "ready" /\ phase' = "ready" =>
          \A n \in Entries :
             /\ n < Header'.EntryCount
             /\ IndexTable'[n].Offset = IndexTable[n].Offset
             /\ file'[IndexTable[n].Offset] = file[IndexTable[n].Offset]
             /\ key_arr'[n] = key_arr[n]
             /\ "FLAG_DELETED" \in IndexTable[n].Flags =>
                   "FLAG_DELETED" \in IndexTable'[n].Flags]_vars

(* An open that begins ends: its loops stop (kvdb.c 109-143 and 201-208). *)
EveryOpenEnds ==
    phase \in {"loadkeys", "loadindex"} ~> phase \notin {"loadkeys", "loadindex"}

-----------------------------------------------------------------------------
(* The dictionary that the session, or between sessions the file, stands for. *)

InSession == phase = "ready"

DiskHeader == IF Holds(file, 0, "header") THEN file[0].hdr ELSE NewHeader(0)
CurHeader  == IF InSession THEN Header ELSE DiskHeader
CurTable   == IF InSession THEN IndexTable
              ELSE IF DiskHeader.EntryCount = 0 THEN [n \in {} |-> UnusedEntry]
              ELSE file[DiskHeader.IndexTableOffset].table

Stored(k) == {n \in 0 .. CurHeader.EntryCount - 1 :
                 /\ "FLAG_DELETED" \notin CurTable[n].Flags
                 /\ file[CurTable[n].Offset].key = k}

AbstractStore ==
    [k \in Key |-> IF phase = "dead" \/ Stored(k) = {}
                   THEN [id |-> -1, val |-> NULL]
                   ELSE LET n == CHOOSE n \in Stored(k) : TRUE
                        IN  [id |-> n, val |-> file[CurTable[n].Offset].val]]

SessionState == CASE phase = "ready" -> "open"
                  [] phase = "dead"  -> "dead"
                  [] OTHER           -> "closed"
Formatted    == phase # "dead" /\ Holds(file, 0, "header")
Used         == IF phase = "dead" THEN 0 ELSE CurHeader.EntryCount
Room         == IF phase = "dead" THEN 0 ELSE CurHeader.EntryCapacity

Store == INSTANCE KVStore WITH
            st <- SessionState, formatted <- Formatted, store <- AbstractStore,
            used <- Used, cap <- Room,
            Storable <- {k \in Key : KeyLen[k] <= MAX_KEY_SIZE}

(* The database implements the dictionary (for keys that are not empty and as *)
(* long as allocations succeed): what put stored is what get finds, in this *)
(* session and in every later one, until it is replaced or deleted. *)
ImplementsStore == Store!ASpec

-----------------------------------------------------------------------------
(* What the documentation says of it, and the code does not do. *)

(* README.MD 15: ValidEntryCount is "EntryCount - DeletedEntryCount". *)
ValidEntryCountIsLiveCount ==
    phase = "ready" => Header.ValidEntryCount = Cardinality(Live)

(* README.MD 55: the index table on disk is "(DBIndexEntry[EntryCapacity])": of a *)
(* database with entries, closed, it is as long as the capacity. *)
IndexTableHasCapacityEntries ==
    phase = "closed" /\ Holds(file, 0, "header") /\ file[0].hdr.EntryCount > 0 =>
       /\ Holds(file, file[0].hdr.IndexTableOffset, "index")
       /\ file[file[0].hdr.IndexTableOffset].count = file[0].hdr.EntryCapacity
=============================================================================
