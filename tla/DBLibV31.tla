------------------------------ MODULE DBLibV31 ------------------------------
(***************************************************************************)
(* The engine before this one, .old-versions/src_v3.1/db_lib.c: a fixed    *)
(* index table between header and records, written through on every call,  *)
(* a header written only on request, and the open-addressing table of      *)
(* OpenAddrTable as index, whose slots EntryID_arr_htidx maps to entries.  *)
(* Allocations succeed; string keys and values end in a NUL.               *)
(***************************************************************************)
EXTENDS DBFile, OpenAddrTable, Sequences, SequencesExt

CONSTANT MaxCounts   \* the values of MaxEntryCount that DBInit is called with

ASSUME V31Assumption ==
    /\ MaxCounts \subseteq Nat \ {0} /\ ProbeKeys = Key
    /\ KeyLen \in [Key -> Nat] /\ ValLen \in [Val -> Nat]
    /\ {HEADER_SIZE, INDEX_ENTRY_SIZE, DATA_ENTRY_HEADER_SIZE} \subseteq Nat \ {0}

VARIABLES
    disk,      \* the file: its header, its index table, its records by offset
    db,        \* the session, or NULL
    pc,        \* "closed", "load" while DBOpen fills the hash table, "open", or
               \* "garbage" when what follows depends on memory never written
    loaded,    \* how many keys DBOpen has put in the hash table; else 0
    recs,      \* history: the records inserted, by entry
    appended   \* history: whether an opened database with entries got another

v31 == <<disk, db, pc, loaded, recs, appended>>

Unwritten == [Flags |-> "none", Offset |-> 0]

DataSectionOffset(max) == HEADER_SIZE + max * INDEX_ENTRY_SIZE

\* A session on a database of count entries.
Session(hdr, index, keys) ==
    [EntryCount |-> hdr.EntryCount, ValidEntryCount |-> hdr.ValidEntryCount,
     MaxEntryCount |-> hdr.MaxEntryCount, IndexTable |-> index, key_arr |-> keys,
     EntryID_arr_htidx |-> [s \in 0 .. hdr.MaxEntryCount - 1 |-> -1],
     OffsetPtr |-> DataSectionOffset(hdr.MaxEntryCount), opened |-> hdr.EntryCount # 0]

HeaderOf(count, valid, max) ==
    [EntryCount |-> count, ValidEntryCount |-> valid, MaxEntryCount |-> max]

V31Init ==
    /\ ProbeInit
    /\ disk = [hdr |-> NULL, idx |-> <<>>, data |-> EmptyFile]
    /\ db = NULL
    /\ pc = "closed"
    /\ loaded = 0
    /\ recs = <<>>
    /\ appended = FALSE

-----------------------------------------------------------------------------
\* The file is emptied; its header is only in memory.
DBInit(max) ==
    LET none == [n \in 0 .. max - 1 |-> Unwritten]
    IN  /\ pc = "closed"
        /\ InitHashTableObject(max)
        /\ disk' = [hdr |-> NULL, idx |-> none, data |-> EmptyFile]
        /\ db' = Session(HeaderOf(0, 0, max), none, [n \in 0 .. max - 1 |-> NULL])
        /\ pc' = "open"
        /\ recs' = <<>>
        /\ appended' = FALSE
        /\ UNCHANGED loaded

\* Where the walk of DBOpen over the records finds that of each entry.
Walk(data, hdr) ==
    LET at[n \in 0 .. hdr.EntryCount] ==
          IF n = 0 THEN DataSectionOffset(hdr.MaxEntryCount)
          ELSE IF Holds(data, at[n - 1], "record") THEN at[n - 1] + SizeOf(data[at[n - 1]])
          ELSE at[n - 1]
    IN  at

WalkSucceeds(data, hdr) ==
    \A n \in 0 .. hdr.EntryCount - 1 : Holds(data, Walk(data, hdr)[n], "record")

\* A file without header is refused.  The keys of deleted entries are read too.
DBOpen ==
    /\ pc = "closed" /\ disk.hdr # NULL
    /\ WalkSucceeds(disk.data, disk.hdr)
    /\ LET hdr == disk.hdr
           ids == 0 .. hdr.MaxEntryCount - 1
       IN  /\ InitHashTableObject(hdr.MaxEntryCount)
           /\ db' = Session(hdr,
                      [n \in ids |-> IF n < hdr.EntryCount THEN disk.idx[n] ELSE Unwritten],
                      [n \in ids |-> IF n < hdr.EntryCount
                                     THEN disk.data[Walk(disk.data, hdr)[n]].key ELSE NULL])
           /\ recs' = SubSeq(recs, 1, hdr.EntryCount)
    /\ pc' = "load"
    /\ loaded' = 0
    /\ UNCHANGED <<disk, appended>>

\* The walk runs into what other records have left of a record.
DBOpenAstray ==
    /\ pc = "closed" /\ disk.hdr # NULL
    /\ ~WalkSucceeds(disk.data, disk.hdr)
    /\ pc' = "garbage"
    /\ UNCHANGED <<disk, db, loaded, recs, appended, probeVars>>

\* Mutant of Mapped: the slot of the hash instead of the one that was taken.
MappedByHash(htidx, slot, key, id) == [htidx EXCEPT ![ProbeHash[key] % table_size] = id]

Mapped(htidx, slot, key, id) == [htidx EXCEPT ![slot] = id]

LoadKey ==
    /\ pc = "load" /\ loaded < db.EntryCount
    /\ insert_entry(db.key_arr[loaded], TRUE)
    /\ db' = [db EXCEPT !.EntryID_arr_htidx = Mapped(@, answer', db.key_arr[loaded], loaded)]
    /\ loaded' = loaded + 1
    /\ UNCHANGED <<disk, pc, recs, appended>>

LoadDone ==
    /\ pc = "load" /\ loaded = db.EntryCount
    /\ pc' = "open"
    /\ loaded' = 0
    /\ UNCHANGED <<disk, db, recs, appended, probeVars>>

-----------------------------------------------------------------------------
\* Mutant of GetDataEntrySize: the header of the record is forgotten.
SizeWithoutHeader(key, val) == KeyLen[key] + ValLen[val]

GetDataEntrySize(key, val) == DATA_ENTRY_HEADER_SIZE + KeyLen[key] + ValLen[val]

\* Record, hash table and index entry; a full database and a long key are refused.
InsertEntry(key, val) ==
    /\ pc = "open"
    /\ db.EntryCount < db.MaxEntryCount /\ key \notin LongKeys
    /\ insert_entry(key, TRUE)
    /\ LET id    == db.EntryCount
           entry == [Flags |-> "valid", Offset |-> db.OffsetPtr]
       IN  /\ db' = [db EXCEPT !.key_arr[id] = key,
                               !.EntryID_arr_htidx = Mapped(@, answer', key, id),
                               !.IndexTable[id] = entry,
                               !.OffsetPtr = @ + GetDataEntrySize(key, val),
                               !.ValidEntryCount = @ + 1,
                               !.EntryCount = @ + 1]
           /\ disk' = [disk EXCEPT !.data = Write(@, db.OffsetPtr, RecordCell(key, val)),
                                   !.idx[id] = entry]
    /\ recs' = Append(recs, RecordCell(key, val))
    /\ appended' = (appended \/ db.opened)
    /\ UNCHANGED <<pc, loaded>>

\* The hash table gives up the first slot of the key, whichever entry has it, and
\* delete_entry answers 0 on success: it is the map of slot 0 that is cleared.
DeleteEntry(id) ==
    /\ pc = "open" /\ id < db.MaxEntryCount
    /\ db.key_arr[id] # NULL
    /\ delete_entry(db.key_arr[id])
    /\ LET entry == [db.IndexTable[id] EXCEPT !.Flags = "deleted"]
       IN  /\ db' = [db EXCEPT !.IndexTable[id] = entry,
                               !.EntryID_arr_htidx[answer'] = -1,
                               !.key_arr[id] = NULL,
                               !.ValidEntryCount = @ - 1]
           /\ disk' = [disk EXCEPT !.idx[id] = entry]
    /\ UNCHANGED <<pc, loaded, recs, appended>>

\* An entry without key: delete_entry refuses, and its -2 is used as an index.
DeleteEntryOutside(id) ==
    /\ pc = "open" /\ id < db.MaxEntryCount
    /\ db.key_arr[id] = NULL
    /\ pc' = "garbage"
    /\ UNCHANGED <<disk, db, loaded, recs, appended, probeVars>>

WriteDBHeader ==
    /\ pc = "open"
    /\ disk' = [disk EXCEPT !.hdr = HeaderOf(db.EntryCount, db.ValidEntryCount, db.MaxEntryCount)]
    /\ UNCHANGED <<db, pc, loaded, recs, appended, probeVars>>

CloseDB ==
    /\ pc = "open"
    /\ DestroyHashTableObject
    /\ db' = NULL
    /\ pc' = "closed"
    /\ UNCHANGED <<disk, loaded, recs, appended>>

\* Only for a key that is there: -1 is compared as an unsigned number.
kvdb_search_key_id(key) == db.EntryID_arr_htidx[Search(key)]

V31Next ==
    \/ \E max \in MaxCounts : DBInit(max)
    \/ DBOpen \/ DBOpenAstray \/ LoadKey \/ LoadDone
    \/ \E key \in Key, val \in Val : InsertEntry(key, val)
    \/ \E id \in DOMAIN disk.idx : DeleteEntry(id) \/ DeleteEntryOutside(id)
    \/ WriteDBHeader
    \/ CloseDB

V31Spec == V31Init /\ [][V31Next]_<<v31, probeVars>>

-----------------------------------------------------------------------------
(* Correctness. *)

IDs == 0 .. db.EntryCount - 1

(* Every entry, deleted or not, points at its record, and open gives each its  *)
(* key, through any number of sessions and deletions, as long as nothing was   *)
(* inserted into an opened database: OffsetPtr then is the beginning of the    *)
(* records again (db_lib.c 326-412, 460-566).                                  *)
RecordsKeptUntilAppended ==
    pc \in {"load", "open"} /\ ~appended =>
       \A n \in IDs :
          /\ Holds(disk.data, db.IndexTable[n].Offset, "record")
          /\ disk.data[db.IndexTable[n].Offset] = recs[n + 1]
          /\ db.key_arr[n] \in {recs[n + 1].key, NULL}

(* A lookup by key finds an entry with that key, if none of its entries was    *)
(* deleted in this session, whatever was deleted and inserted around it; only  *)
(* the key in slot 0 is lost by the deletion of another (db_lib.c 230-236,     *)
(* 402-406, 523-526, 583-586).                                                 *)
LookupFindsAnEntry ==
    pc = "open" /\ ~appended =>
       \A key \in {recs[n + 1].key : n \in IDs} :
          LET mine == {n \in IDs : recs[n + 1].key = key}
          IN  NULL \notin {db.key_arr[n] : n \in mine} =>
                 /\ Search(key) >= 0
                 /\ \/ kvdb_search_key_id(key) \in mine
                    \/ Search(key) = 0 /\ NULL \in {db.key_arr[n] : n \in IDs}
=============================================================================
