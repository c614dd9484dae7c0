# A verification of the KVDB engine

KVDB is a single-file key-value database in C: a library (`core/`), a set of
command-line tools that each open a database, do one thing and close it
(`utils/`), a Python binding, and a number of earlier versions and experiments.
This directory holds TLA+ models of it, the TLC configurations that check them
on small instances, and proofs for every instance.

## 1. The system

| part | state | operations | used by |
|---|---|---|---|
| engine, `core/src/kvdb/kvdb.c` | `DBObject`: header, index table, keys, hash index, write position, modified flag; one file | create, open, put, get, get_key, get_by_key, delete, delete_by_key, EntryCount, close | tools, Python binding |
| hash index, `core/src/hash/hash_index.c` | `HTObject`: slots, each a growing bucket of (hash, entry id) pairs, and three counters | create, destroy, insert, delete, update, resize, compact | engine (create, insert, delete) |
| key hash, `core/src/hash/hash_func_module.c` | none | `fnv_1a_hash` | engine |
| printing, `core/src/kvdb/kvdb_print.c` | none | dump a header, the records | engine, tools |
| tools, `utils/kvdb/*.c` | their arguments, one or two `DBObject`s | newdb, dbput, dbget, dbdel, dbdel-by-id, dblskeys, dbdmp, dbdmpkv, dbcompact, dbresize, mkdb | - |
| table tools, `utils/tbldb/*.c` | a CSV file, a `DBObject` | mktbldb, gettbldbrec, dmptbldb | - |
| tokenizer, `core/src/strutils/txt_tok.c` | none | CntTok, MarkTokPosMeta, CpyTokSrc, lstrip, rstrip | mkdb, mktbldb |
| arena, `core/src/mem/mem_arena_aligned.c` | buffer, offset | create, alloc, reset, resize, destroy | TLV objects |
| TLV objects, `core/src/tlv/tlv.c` | their data, in an arena | init, print | nothing in core |
| open-addressing table, `core/src/hash/legacy/` | probe array | insert, search, delete | engine of version 3.1 |
| chained table, `SubProjs/hash/src/hash_table_lib.c` | slots of growing buckets with keys and values | new, insert, get, delete, resize, destroy | its test |
| engine of version 3.1, `.old-versions/src_v3.1/db_lib.c` | header, fixed index table, keys, map from slots to entries | DBInit, DBOpen, InsertEntry, DeleteEntry, WriteDBHeader, CloseDB | superseded |
| Python binding, other subprojects and old versions, scripts | | | |

How the parts interact: a tool calls `open`, which reads the header and the
index table, walks the data section to fill `key_arr`, and inserts every entry
into a new hash index. `put` looks the key up through the index, deletes the
entry it finds (a flag in the index table, a tombstone in the bucket), appends
a record and inserts the new entry. Nothing but the record is written until
`close`, which writes the index table behind the last record, the EOF marker
behind the table, and the header last. The first record of the next session
overwrites that table.

What is hard here, and hard to test:

- state that must agree across representations: the flags, the buckets, the
  keys in memory, the records on disk, four offsets;
- sequences: what is right in one session is wrong after a reopen, because
  open rebuilds the buckets from all entries, the deleted ones too;
- tombstones keep their place in a bucket, with entry id -1;
- allocations that fail in the middle of put, of create or of open;
- limits: a bucket, the slots of the index, the capacity, a capacity of 0, a
  key of length 0;
- a process killed before close, and two processes with one file (no locks);
- text that nobody meant: blank and indented lines, a separator too many or too
  few, a key assigned three times, a key that is empty.

PROJECT.json lists these as hazards, each with its line and the properties
that would catch it going wrong.

What makes each part correct:

- engine: it is a dictionary that survives close and open; one live entry per
  key; every live entry can be found; records are where the index table says
  and are never overwritten; a closed database can be opened; the EOF marker
  is last;
- hash index: it holds exactly the pairs inserted and not deleted; it is never
  full before the database is; slots and buckets stay in bounds;
- sessions over one file: a session reads what was committed when it opened;
  what a close has written survives every kill after it;
- tools: compaction keeps the dictionary, a load gives a key its last value, a
  dump can be loaded again;
- table tools: record n is row n, column by column;
- arena: blocks are aligned, disjoint and inside the buffer;
- the older tables: every key in them is found, and in the chained one the
  oldest of its values.

## 2. Modules

| module | what it is |
|---|---|
| `HashTable` | the chained hash index as operators on a table value: `HTCreate`, `HTInsert`, `HTDelete` |
| `DBFile` | the file as a partial function from offsets to what was written there |
| `KVDB` | one process and one database file: an action per operation of kvdb.c, one per iteration for the loops of open; the properties |
| `KVStore` | the dictionary that the engine promises (abstract specification) |
| `KVDBInv`, `KVDBProcsInv` | the inductive invariants of `KVDB` (`IInv`, `FullInv`) and of `KVDBProcs` (`IInv`), and their parts |
| `MCKVDB` | the instances of `KVDB` for TLC |
| `HashIndex` | the hash index as a state machine of its own: create, insert, update, delete, resize, compact, destroy, the copy loops entry by entry |
| `HashMultimap` | what the index promises: per hash the ids in the order of insertion (abstract specification) |
| `KVDBProcs`, `MCKVDBProcs` | several processes with sessions on one file, stdio's buffers, kills |
| `DBTools`, `MCDBTools` | the tools of `utils/kvdb` over the files of a directory |
| `TxtTok` | the tokenizer as operators |
| `TableTools`, `MCTableTools` | mktbldb, and the reading of its records |
| `MemArena`, `OpenAddrTable`, `ChainTable`, `MCLibs` | the arena with TLV objects, the two older hash tables; one instance for the three |
| `DBLibV31`, `MCDBLibV31` | the engine of version 3.1 over `OpenAddrTable` |
| `HashTableProofs` | lemmas about the operators of `HashTable` |
| `KVDBProofs` | theorems about `KVDB`: types and the safety of the entries; reopening and the refinement of `KVStore` |
| `HashIndexProofs`, `KVDBProcsProofs`, `DBToolsProofs` | theorems about the module of that name |
| `TxtTokProofs` | lemmas about the operators of `TxtTok`: stripping, tokens against fields, and loops in general |
| `UtilsProofs` | theorems about `TableTools` with `TxtTok`, about `ChainTable` and about `MemArena` |
| `DBLibV31Proofs` | theorems about `OpenAddrTable` and about `DBLibV31` on top of it |

`KVDB`, `KVDBProcs` and `DBLibV31` extend `DBFile`; `DBLibV31` also calls the
actions of `OpenAddrTable`; `TableTools` and `DBTools` extend `TxtTok`. `KVDB` and `HashIndex`
extend `HashTable`. `KVDB` instantiates `KVStore` and
`HashIndex` instantiates `HashMultimap`, each with a refinement mapping (`Store`,
`Multimap`).

### How KVDB corresponds to the code

| TLA+ | C |
|---|---|
| `Header`, `IndexTable`, `key_arr`, `htObj`, `OffsetPtr`, `db_modified` | the fields of `DBObject` with those names |
| `file` | the file: a partial function from offsets to what one `fwrite` put there; `Write` removes whatever the new bytes overlap |
| `phase` | between calls `closed` or `ready`; inside open `loadkeys` and `loadindex`; `dead` after a fault (SIGSEGV, SIGFPE or a double free); `garbage` when open goes on with bytes no close wrote as table or record |
| `i`, `fpos` | the loop counter and the file position of open's loops |
| `ret` | what the last call returned: an id or -1 or -2, and an object or NULL |
| `KVDB_DBObject_*` | the functions of that name; `alloc_ok`, `realloc_ok`, `malloc_ok` are the outcomes of their allocations |
| `KVDB_conv_key_entry_id(k)` | the set of answers the lookup may give: an id, -1, or `FAULT` |
| `DeleteEntry(id)` | what `KVDB_DBObject_delete` computes; put and delete_by_key call it |
| `Append_` | the rest of put after the old entry is gone; `NotIndexed`, `Torn` and `Appended` are its three ends |

A key or a value is an element of a set, with a length; two keys that differ in
bytes or in type are two elements. `Hash` is any function from keys to numbers.
Sizes are constants: the theorems hold for all of them.

The undefined behaviour of the lookup is a choice. It indexes `key_arr` with the
id of each entry it passes, and a tombstone's id is -1: the bytes before the
array are taken for a pointer, and `memcmp` either faults on it or does not
match; for a key of length 0 `memcmp` reads nothing, and the garbage may match,
which returns -1. An entry whose malloc failed has a NULL key, which faults.
`memcmp` also reads up to the length of the key that is looked up from a stored
key that may be shorter; the read stays in the heap and its result is discarded
by the comparison of lengths, so the model leaves it out.

### How HashIndex corresponds to the code

| TLA+ | C |
|---|---|
| `htObj` | the caller's `HTObject *`, or NULL |
| `htNew`, `i`, `j` | the locals of resize and compact with those names (`ht_obj_new`) |
| `pc` | `ready` between calls, `copy` in the loops of resize and compact, `dead` after the division by a capacity of 0 in delete |
| `HTObject_*` | `HASH_INDEX_LIB_HTObject_*` |
| `StartCopy`, `CopyEntry`, `CopyNextSlot`, `CopyDone` | resize and compact, which differ in the capacity of the new table only |
| `ret` | whether the last call returned an index or a table, rather than -1 or NULL |

The engine uses create, destroy, insert and delete only. update, resize and
compact have no caller in core; the caller of `HashIndex` is anyone who passes
the pointer that the last call returned.

### How KVDBProcs corresponds to the code

`KVDB` takes each fwrite as done. Here an fwrite leaves its cell in the stream
(`buf`), and the next fseek or fclose of that stream puts it in the file as the
kernel has it (`disk`); `Spill` is a full buffer that hands over a part before.
`Kill` takes a session away at any point with whatever its stream holds. Close
is four steps (`WriteDBIndexTable`, `WriteDBEOFHeader`, `WriteDBFileHeader`,
`Fclose`), open one for the header, one for the index table and one per record.
stdio reads ahead, so a process may see at once what these steps read one after
the other; the steps allow that and more.

| TLA+ | C |
|---|---|
| `Header`, `IndexTable`, `key_arr`, `db_modified` | of the `DBObject` of each process |
| `phase` | `closed`; `header` and `loadkeys` inside open; `ready`; `table`, `eof`, `end` inside close; `emptied` when another process's create has truncated the file |
| `Misread` | what bytes that are no index table may mean when they are read as one: any choice of these entries |
| `saw`, `committed`, `asked`, `appended`, `stale`, `overrun`, `spoiled` | history, for the properties and for `MayModify` |

open does not check what it reads as the index table. A session that has read
the header and then finds records of another one where the table was goes on
like any other, with what those bytes mean as entries: `OpenIndexTable` takes
any table of the right length over `Misread`. Where the file ends before the
table would (`EndsBefore`), fread fails and with it open; it may also go on
there, since the model does not keep the rests of what was overwritten. The walk
over the records does not use the table, so that the keys of such a session are
right, but for an empty key, of which fread counts no item (`OpenLoadKey` then
fails). What it cannot rely on is offsets and flags. `overrun` marks the
sessions this may have happened to: records had reached the disk since the last
close when they read the header, or reached it before they read the table. They
may modify and close the file like others, which writes the table they have;
`spoiled` says that one did. The properties are about these sessions too, except
where they speak of offsets and flags.

Nothing in the code locks a file. Two sessions that both append write to the
same offset, and no property survives that; so the model takes a discipline from
the callers (`MayModify`): a session modifies only if no other has since it
opened the file. Sessions that only read are free. create truncates the file
under the sessions of others, of which nothing is followed from then on but that
they end (`emptied`). The hash index, the counters and failing allocations of a
session are left to `KVDB`, and so is the walk through a bucket: put deletes one
live entry of its key that a lookup can meet (`Found`), if there is one.
`OneLiveEntryPerKey` proves that there is no other, but in a session whose table
was misread there may be several, or entries with another hash than their key's
(`hashed`), which a lookup passes over.

### How DBTools and TableTools correspond to the code

A run of a tool is a process. Those that open, make one call and close are one
step (`OneStepTool`); dbcompact and mkdb loop, one step per entry and per line,
and may be killed or fault in between, which leaves the file they created
without a header (`Unclosed`). The engine is used at the level of its
dictionary: a database is its capacity and its entries. `KVDB_DBObject_put` of
these modules refuses a key longer than `MAX_KEY_SIZE` and a full database, and
what it refuses takes no entry. `MeetsTombstone` is where a session may read
before `key_arr`, as in `KVDB`; any two keys are taken to share a bucket.

- The export path is opened with "w" before the database is: a tool whose
  export path is the database finds it empty (`OpensAfter`). The same for
  dbcompact and mkdb with one path twice.
- dbcompact tests `dbp` after creating `dbp_new`, so that it goes on when create
  has failed (`dbcompact_uncreated`).
- dbresize sets the capacity in memory, and close writes nothing, since the line
  that sets `db_modified` is commented out: no file changes. It also makes the
  loop of close run to the new capacity over arrays of the old one; the model
  leaves that read out.
- Keys, values and lines are sequences of characters. What dbdmpkv prints of an
  entry (`Printed`) is `key=value` and a newline, each string cut at its first nul
  as "%.*s" does (`Cut`). It is read back as the pieces that fgets makes of it
  (`PiecesOf`): a piece ends at a newline or where the buffer is full, so that a
  newline in a value or a long entry makes several lines. Each is cut at a nul,
  stripped by `lstrip` and `rstrip` and taken apart by the tokenizer, as mkdb
  does (`Line`, `Toks`). What that loses, `Plain` names.
- lstrip moves the pointer that fgets reads to the next time; `drift` is how far.
- The types of keys and values are left out: the tools make text of both.

`TableTools` takes the file as the pieces that fgets returns, so that the last
may lack a newline; a nul in the file is left out. A row whose key the engine
refuses is in the listing of the keys and has no entry, so that the entry ids of
the rows behind it are lower than their numbers in the listing. The list of
deletions that mktbldb makes by number is a constant. The malloc of the name of
the key listing succeeds; when it fails the code jumps over the declaration of a
file pointer that it then uses. None of the three table tools is built by the
current makefiles, and gettbldbrec and dmptbldb still use an older interface of
the engine; what is modelled of them is the loop over the columns.

### How the libraries and version 3.1 correspond to the code

`MemArena`, `OpenAddrTable` and `ChainTable` have one action per function, with
the outcomes of its allocations as a parameter. Unsigned sums wrap at `WORD`. In
`ChainTable`, `initialized` counts the entries of a bucket that anybody has
written since realloc, because destroy frees the pointers of all of them up to
the capacity (`FreesGarbage`).

`DBLibV31` composes the old engine with `OpenAddrTable`: InsertEntry is the
conjunction of its own effect and `insert_entry` of the table, whose answer it
uses as an index. Its file has the header, the index entries one by one, and the
records as cells. Calls succeed in allocating. `pc` is `garbage` where the code
uses -2 as an index (deleting an entry whose key is gone) or reads a record
where others have been written over it. ReadDBEntry and the searches change
nothing but text and are left out, but for the lookup of a key.

## 3. What TLC checks

The instances use a header of 4 units, records of 2 plus key and value, index
entries and an EOF marker of 1, and buckets that start with room for 1, so that
they grow. Keys `a` and `b` have different hashes (0 and 6) and fall into the
same slot of a table of 2 or 3 slots, as does the empty key with 3 slots. Every
run covers any number of sessions: capacity bounds the entries, not the calls.

| run | instance | checks |
|---|---|---|
| `store` | keys a, b and one that is too long, values of length 0 and 2, capacities 0 and 2 | `ImplementsStore` (KVDB implements KVStore), `EveryOpenEnds` |
| `core` | keys a, b and the empty one, capacity 3, allocations succeed | `FullInv`, `TypeOK`, `AppendsAtTheEnd`, `IndexFullOnlyWhenDBFull`, `ReopenSucceeds`, `EOFMarkerIsLast` |
| `alloc` | keys a and b, capacity 3, any allocation may fail | `IInv`, `OneLiveEntryPerKey`, `LiveEntriesIndexed`, `RecordsIntact`, `EntriesAreForever` |
| `index_copy` | hashes 0, 1, 3, ids 0 and 1, capacities 0, 2, 3, four bucket positions, allocations succeed | `ImplementsMultimap` (HashIndex implements HashMultimap), `CountsAgree`, `CopyFailsOnlyWhenFull`, `EveryCopyEnds` |
| `index_alloc` | the same with three positions and any allocation failing | `TypeOK`, `EntriesInOwnSlot`, `CopiedSoFar`, `CopyKeepsPairs` |
| `procs` | two processes, two keys with records of different sizes and the empty key, one value, capacity 2, at most five cells on the disk | `IInv`, `SnapshotReads`, `DeletionsSeen`, `CommittedRecordsSurvive`, `OnlyAppendsBreakTheFile` |
| `tools` | three files, to begin with one text of up to three lines out of nine or one database of up to two entries; seven characters, a buffer of 9, keys of up to 2; two runs of tools | `CompactKeepsDictionary`, `LoadIsLastAssignment`, `LoadFaultsOnlyOn`, `LoadedDatabaseOpens`, `DumpLoadRoundTrip` |
| `csv` | tables of up to four lines out of nine, capacity 3, key columns -1 to 2, a buffer of 13, keys of up to 1 | `RecordsAreRows`, `ImportFaultsOnlyOn` |
| `libs` | an arena of up to 14 bytes with sums that wrap at 16 and three objects; tables of up to four slots and three keys, two of which collide, and one too long | `ArenaIInv`, `ObjectsIntact`, `ProbeIInv`, `UsedKeysAreFound`, `GetsOldestValue` |
| `v31` | three entries, three keys of which two collide and two have different lengths | `RecordsKeptUntilAppended`, `LookupFindsAnEntry` |
| `valid_count` | as `store` | finds `ValidEntryCountIsLiveCount` violated |
| `table_size` | as `store` with capacity 2 only | finds `IndexTableHasCapacityEntries` violated |

Three entries are enough for what the properties tell apart: a replaced entry,
its successor in the same bucket and a neighbour of another key; a tombstone
before, at and behind the entry looked up; a bucket that grows twice; a reopen
between any two of them. The empty key and failing allocations are not in one
run because together they make the state unbounded (a put of the empty key that
fails in malloc leaves a tombstone and an index entry each time and can be
repeated for ever). Deadlock is not checked: after a fault or with garbage read
the process does nothing more that the model follows.

Hashes 1 and 3 share a slot of a table of 2 but not of one of 3, and 0 and 3 the
other way round, so a resize separates some entries and joins others. Four
positions hold two entries of a hash with a tombstone before, between or behind
them, and a table of 2 slots that is legal but cannot be compacted: slot 0 filled
last, two entries in slot 1. `MaxPositions` bounds the insertions of the caller,
not the calls; a compaction makes room again.

The other bounds. `procs`: five cells on the disk (`MaxCells`) are a header, two
records, a table and a marker, the most that sessions with capacity 2 need;
remains of killed sessions beyond that add states but no new situation. What a
misread table may say (`MCMisread`) is another offset, with or without the flag
of a deletion; one session with such a table at a time (`OneMisread`) is enough
to disturb the other, by what it deletes, appends and closes. A file with an
empty key is not opened again, so that key gets a file and a process of its own
(`EmptyAlone`). The number of sessions is not bounded. `tools`: two runs
(`MaxRuns`) are what the properties relate, a dump and a load; the longest loop
is three lines, enough for the third assignment of a key, and for a capacity
that is full before the last line. The lines are blank, indented, a comment,
with no '=', with nothing before it, with three, with a key that is too long,
with a nul; the values of a database have spaces, a newline, a nul, and lengths
such that one dumped line just fits the buffer and one does not. `csv`: the
fourth row is one more than the capacity; keys of two characters are refused.
`libs`: each behaviour is one library at work, and stops at the first sum that
wraps, the first resize that loses entries, the first destroy that frees garbage
and the second cut walk (`Sound`, `MaxCutWalks`): what follows such a step is
what the properties exclude. `v31`: `FewRecounts` bounds how often deletions are
counted again, since a reopened database gives deleted entries their keys back
and each deletion decrements the count; the number of sessions is otherwise not
bounded.

Fairness: `WF_vars(OpenStep)` in `KVDB` and `WF_vars(CopyStep)` in `HashIndex`
only. The loops of open, resize and compact run to their end because nothing
else happens in the process meanwhile. No fairness is assumed of a caller:
nobody must ever call close.

### Findings

- `ValidEntryCount` is documented as the number of entries not deleted
  (README.MD:15). open puts deleted entries back into the hash index, so delete
  succeeds on them once more in the next session and decrements it again.
- The index table on disk is documented with `EntryCapacity` elements
  (README.MD:55); close writes `EntryCount` of them: one after create with
  capacity 2, one put and close. The property asks for a table only of databases
  that have entries.

What the models show of faults without a document that denies them: the third
put of a key in one session passes a tombstone and reads before `key_arr`; a
database of capacity 0 divides by zero; a stored empty key makes the database
unreadable; a put whose allocation fails has lost the old value. They are
behaviours of `KVDB` (`Dies`, `OpenFails`, `Torn`), and `KVStore` allows
`Die` in the operations with a key for that reason.

In the other parts, where the properties name the exceptions:

- A session killed after its records reached the file and before close leaves a
  file that may not open again; one that only deleted never does
  (`OnlyAppendsBreakTheFile`).
- From the first record that a session appends to the close that follows, which
  may never come, another session that opens the file may take records for its
  index table and go on with their bytes as offsets and flags: its keys are right
  (`SnapshotReads`), what it gets and whether an entry is deleted need not be,
  and if it closes the file with changes of its own, every later session has its
  table. No record is lost (`CommittedRecordsSurvive`).
- mkdb and mktbldb pass over what put refuses: a line or a row whose key is longer
  than `MAX_KEY_SIZE` is not in the database, and of mktbldb's listing the
  numbers are no entry ids behind it (`LoadIsLastAssignment`, `RecordsAreRows`).
- A dump loads as it was only if it is `Plain`: whitespace at the ends of a key or
  value, a '=', a newline, a nul, a leading '#' and lines longer than the buffer
  are lost on the way (`DumpLoadRoundTrip`).
- mkdb faults for a third assignment of a key, for leading whitespace and blank
  lines that together move its line pointer too far, and for a third '='
  (`LoadFaultsOnlyOn`); a line that begins with '=' makes the database
  unreadable (`LoadedDatabaseOpens`).
- mktbldb ends its import at the first blank row, does not count a last row
  without newline, and writes behind its record buffer or its array of tokens
  for rows that `ImportFaultsOnlyOn` describes, or dies of a key that is not
  unique.
- The arena hands out overlapping memory once a 32-bit sum has wrapped.
- The open-addressing table marks a deleted slot empty when malloc fails, after
  which keys behind it are not found; its count of nonempty slots, described in
  its header as the slots ever used, is then wrong.
- The chained table drops entries in a resize without saying so, and frees
  pointers nobody wrote once a bucket has grown.
- Version 3.1 writes over its first records when it inserts after a reopen, loses
  the key in slot 0 when it deletes any other, and counts deletions twice.

## 4. What is proved

`tlapm` checks eight modules. A run checks every invariant on a small instance;
the theorem holds for every value of the constants.

| theorem | states that always | if |
|---|---|---|
| `TypeCorrect` | `TypeOK`: counters stay within the arrays that create and open allocated | |
| `InvariantHolds` | `IInv`, the inductive invariant of `KVDB` | |
| `OneEntryPerKey` | `OneLiveEntryPerKey` | |
| `EntriesStayIndexed` | `LiveEntriesIndexed` | |
| `RecordsStayIntact` | `RecordsIntact` | |
| `RecordsAreContiguous` | `AppendsAtTheEnd` | |
| `IndexNeverFullFirst` | `IndexFullOnlyWhenDBFull` | allocations succeed |
| `NothingIsOverwritten` | `EntriesAreForever` (an action property) | |
| `FullInvariantHolds` | `FullInv`: `IInv`, how the file ends, what it describes | |
| `ClosedDatabaseReopens` | `ReopenSucceeds` | allocations succeed |
| `MarkerEndsFile` | `EOFMarkerIsLast` | allocations succeed |
| `DictionaryIsKept` | `ImplementsStore`: `KVDB` implements `KVStore` | allocations succeed, no key is empty |
| `IndexTypeCorrect` | `TypeOK` of `HashIndex` | |
| `EntriesStayInTheirSlots` | `EntriesInOwnSlot` | |
| `CopyIsExact` | `CopiedSoFar` | |
| `CopyLosesNothing` | `CopyKeepsPairs` (an action property) | |
| `CountsStayExact` | `CountsAgree` | |
| `CopyFailsOnlyFull` | `CopyFailsOnlyWhenFull` (an action property) | allocations succeed |
| `OrderIsKept` | `ImplementsMultimap`: `HashIndex` implements `HashMultimap` | |
| `SessionsInvariant` | `IInv` of `KVDBProcs`, its inductive invariant | |
| `SnapshotsAreStable` | `SnapshotReads` | |
| `DeletionsAreSeen` | `DeletionsSeen` | |
| `CommittedRecordsStay` | `CommittedRecordsSurvive` | |
| `DeletionsKeepTheFile` | `OnlyAppendsBreakTheFile` | |
| `ArenaInvariant` | `ArenaIInv`, the inductive invariant of the arena | |
| `ObjectsStayIntact` | `ObjectsIntact` of the arena | |
| `ProbeInvariant` | `ProbeIInv`, the inductive invariant of the open-addressing table | |
| `KeysInUseAreFound` | `UsedKeysAreFound` of the open-addressing table | |
| `V31Invariant` | `V31Inv`, the inductive invariant of version 3.1 | allocations succeed |
| `RecordsAreKept` | `RecordsKeptUntilAppended` | allocations succeed |
| `LookupsFind` | `LookupFindsAnEntry` | allocations succeed |
| `ToolsInvariant` | `ToolsInv`, the inductive invariant of `DBTools` | |
| `FaultsHaveACause` | `LoadFaultsOnlyOn` | |
| `CompactionKeeps` | `CompactKeepsDictionary` | |
| `LoadingAssigns` | `LoadIsLastAssignment` | |
| `LoadedOpens` | `LoadedDatabaseOpens` | |
| `DumpLoads` | `DumpLoadRoundTrip` | |
| `ImportInvariant` | `ImportInv`, the inductive invariant of `TableTools` | |
| `RowsAreImported` | `RecordsAreRows` | |
| `ImportFaultsHaveACause` | `ImportFaultsOnlyOn` | |
| `ChainInvariant` | `ChainInv`, the inductive invariant of the chained table | |
| `OldestValueIsGot` | `GetsOldestValue` | |

Where the last column is empty, a theorem holds with any allocation failing. The
hypotheses are the code's own limits, not the prover's: with a failing malloc
open gives up and a put can lose the old value or leave a file that does not open
(`Torn`), and a database with an empty key is refused by open. In
`KVDBProcs` the discipline of the callers (`MayModify`) is part of the
specification, as in the run; the number of processes and of cells on the disk
is arbitrary. In `DBTools`, `TableTools` and `DBLibV31` no allocation fails; the bounds of the
run (`MaxRuns`, the initial files, `MaxCounts`) are constants, so the theorems
hold for any number of runs, texts and databases of any length, and any
capacity, buffer and key size. `FewRecounts` is a constraint of the run only.

The assumptions about the constants: `ConstantsAssumption` (lengths and hashes
are numbers, sizes are positive, NULL and the like are not keys or values),
`BucketCapAssumption` (a new bucket has room for an entry), `IndexAssumption`
and `NullAssumption` of `HashIndex` (hashes, ids and capacities are numbers,
NULL is not a table), `ProcsAssumption` and `NoBufAssumption` (the same for
`KVDBProcs`; what `Misread` has are index entries; what stands for an empty
buffer is not a cell), `ArenaAssumption` and `NullAssumption` of `MemArena`
(sizes fit a word, alignments divide the range of a word, NULL is not an arena),
`ProbeAssumption` (hashes and table sizes are numbers), `V31Assumption` (lengths
are numbers, sizes are positive, a database has at least one entry, its keys are
the keys of the table), `ToolsAssumption` (keys, values and texts are sequences
of characters, among which are the separator and the newline, and neither is the
nul; the buffer has room for a character; the files to begin with are texts, of
pieces as fgets returns them, or databases as the engine writes them: not more
entries than the capacity, no key that is too long, one live entry per key, as
`OneEntryPerKey` proves), `TextAssumption` (the separator is not whitespace and
the newline is), `TableAssumption` (a text is a sequence of pieces of
characters, none of them empty or longer than the buffer admits, sizes are
numbers), `ChainAssumption` and `NilAssumption` (hashes are numbers, capacities
positive ones, since get and delete divide by them; NIL is not a table). But for
version 3.1 and the chained table, capacities and sizes of 0 are among them.

The argument, from the bottom up:

- `HashTableProofs`: what an insertion, a deletion and a creation do to a table.
  An insertion loses no pair and uses at most one more slot (`InsertEffect`,
  `InsertKeeps`); a deletion loses no pair of another id (`DeleteEffect`).
- `KVDBProofs`, first part: what a write keeps (`WriteEffect`), what delete gives
  (`DeleteEntryEffect`), what the lookup may answer (`LookupRange`), and then
  `TypeInv`, one lemma per operation. `TypeOK` alone is not inductive: open reads
  its header from the file, so the cells of the file must be typed (`FileOK`),
  and put indexes its arrays with ids from the buckets, so those must be below
  the capacity (`HTObjectOK`).
- `KVDBProofs`, second part: `SafeInv`, the rest of `IInv`, relative to `TypeInv`. Its parts
  need each other. `TableInv`: the entries describe a chain of records from the
  header to the write position. `KeysInv`: the walk of open_load_keys is at the
  record of the entry it fills, and an element of `key_arr` not in use holds no
  key. `IndexInv`: what open has inserted so far, and all live entries in a
  session, are in the index. From these, `LookupFinds`: a lookup that survives
  finds the live entry of a key, or there is none; so put deletes the only other
  entry of its key, which keeps `OneLive`. `DiskInv` carries all this through the
  closed file: `CloseWrites` shows that table, marker and header destroy no
  record and not each other; `UnmodifiedInv` and `TornDisk` are needed for the
  put that fails in a session that wrote nothing else, which destroys the table
  on disk so that the next open finds none. `SlotsInv` counts used slots
  against entries.
- Every step is of one of eight kinds (`Steps`); an invariant is proved for each.
- `KVDBProofs`, third part: `IInv` says nothing of what lies behind the records, so
  it does not imply that open finds its table. `EndInv` adds it: in a closed file
  the table is where the header says, whole, the marker behind it and nothing
  behind that; in a session everything ends before the marker that close is
  going to write, which is why no rest of a longer file survives a close; and
  open has given up only for a missing header or an empty key. `StoreInv` adds
  that a session that changed nothing, and the loops of open, agree with the
  file (`MatchesFile`). Then, for the refinement, each kind of step is shown to
  be a step of the dictionary or to leave `AbstractStore` as it is: the lookup
  finds the live entry (`LookupFinds`), a put adds one and takes one away, close
  and open exchange the session's view for the file's, and a fault is `Die`.
- `HashIndexProofs`: a table is good slot by slot (`GoodSlots`), and each operation
  replaces one slot by a good one (`GoodReplace`; `InsertGood`, `UpdateGood`,
  `DeleteGood`). The inductive invariant `IndexIInv` is `TypeOK`,
  `EntriesInOwnSlot` and `CopiedSoFar`; the last is what the end of a copy needs.
  `CountsAgree` is inductive beside it because it also says what a tombstone
  holds: delete compares the id and not the state, so that only an id of -1
  keeps it from counting a deleted entry a second time. A table that is filled
  has no tombstone, so every slot once used has an entry in use, in its own slot:
  hence `CopyFailsOnlyFull`.
  For the multimap, the ids of a hash are read off its bucket entry by entry
  (`IdsIn`, `IdsFacts`). A tombstone in place of the first entry with an id takes
  away the first such id (`Removes`, `DeletedIds`), a rewritten entry replaces
  the first (`Replaces`, `UpdatedIds`), an entry behind the last is appended
  (`AppendedIds`); other hashes may share the bucket and keep theirs
  (`OthersKept`). `CopiedInOrder`, inductive beside `IndexIInv` and `CountsAgree`,
  says that the table a copy fills has the ids passed, in their order, which
  `CopiedSoFar`, a set of pairs, cannot say. Then each operation that the code
  answers with a number is the operation of the multimap, and every step inside
  a copy leaves the multimap as it is (`MultimapStep`).
- `KVDBProcsProofs`: what every session read and what the last completed close
  wrote are images, chains of records under a header (`Layout`), and each is a
  prefix of the other or goes on where the other ends (`Prefix`). `IInv` relates
  them to the disk: the committed image is on it whatever was killed (`FileInv`);
  a reader has a prefix of it, the one writer an extension, of which every cell
  is on the disk or waits in its stream (`WriterInv`). A write then lies behind
  the committed records (`Begin` of the end), and a header reaches the disk only
  behind everything it describes, since one buffer is flushed before the next
  is filled. All this is about records, and holds of the sessions that misread
  their table as of the others; of a table only those not marked are held to
  what it should say (`TableOf`), and `OverrunInv` says who is not marked: a
  session between the header and the table that will find a whole and right one.
- `UtilsProofs`, the arena: `ArenaIInv` adds that objects end at or before `mem_cur`;
  with `ObjectsIntact` alone the next allocation might begin in one of them.
- `DBLibV31Proofs`, the table: `ProbeIInv` says that no slot between the slot of a
  hash and its key is empty (`Reached`) as long as the count of slots that are
  not empty is right, and that this count is never too low. `search_key` then
  finds the key or an earlier one like it.
- `DBLibV31Proofs`, the engine: `V31Inv` says that there is a capacity with which
  header, index table, records, session and table fit together. The records lie
  one behind the other and each entry points at its own (`FileInv`); the header
  on disk may be older but counts no record that is not there (`HeaderInv`), so
  that DBOpen after a session that was not closed reads a prefix; the session has
  every entry, and the key of each it has not deleted (`SessionInv`). `TableInv`
  is indexed by how many keys are in the table, since DBOpen enters them one by
  one: a slot in use leads to an entry with its key, or is slot 0 after a
  deletion, which clears the map of slot 0 whatever it deleted (`Leads`); and a
  key not in the table had an entry that was deleted (`Listed`). That `DBOpen`'s
  walk by recorded lengths arrives at every record is `ReachesAll`.
- `TxtTokProofs`: lstrip and rstrip leave what is between the first and the last
  character that is not whitespace (`StripsBoth`). After n characters the
  tokenizer has one token per separator passed, each from behind one separator to
  before the next (`TokensTo`, `MarkedFacts`), so a token's text is the field
  (`CellsOf`), and columns that a line does not have are empty. The properties of
  the tools are stated by the positions of the separators, while the code counts
  lengths and offsets; these lemmas bring the two together.
- `DBToolsProofs`: `ToolsInv` says of a run in the middle of its loop what the
  property says of its end: the new database of dbcompact has the live ones of
  the entries passed, in their order (`CopiedUpTo`); that of mkdb has the last
  assignments of those of the lines passed that got an entry, as many as fit and
  as there is room for, and a deleted entry only where a key was repeated
  (`LoadedUpTo`), and its line pointer has moved by the whitespace so far. The
  source is unchanged because a run holds what it read (`src`), and the file is
  the new database once the run is done. `PutAssigns` is the engine's part in it:
  a put overrides one key of the dictionary, whether an entry is replaced or
  added, and a refused one changes nothing. For `DumpLoads`: what is printed of a
  plain entry has its one newline at the end, so fgets takes it in one piece
  (`OnePiece`); its first character and the last before the newline are not
  whitespace, so stripping takes the newline only, and its one separator is where
  it was printed (`LineOfPrinted`, `PlainLine`). So the text of a dump has
  a line for each live entry (`DumpFacts`), no two for one key, and the last
  assignment of a key is its only one (`DumpAssigns`).
- `UtilsProofs`, the table tools. Tokens are fields by `TxtTokProofs`. A record grows
  cell by cell (`RecordGrows`); whatever is appended later, the lengths in front
  of the cells lead the reading loop from one to the next (`ReadFacts`,
  `DecodesTo`), so a record decodes to its fields even if one of them holds what
  would be a length elsewhere. `ImportInv` then says of the rows passed what the
  property says of all: `RowsIn` for the keys listed and the records of the rows that
  are not refused (`Takes`), each at the place that the number of such rows before
  it says, `LastOfKeyLives` for the
  deletions (an entry is deleted exactly if a later one has its key), and that
  `drift` is the leading whitespace so far. A state in which the process died keeps
  the row and the reason (`OverrunIs`, `TombstoneIs`).
- `UtilsProofs`, the chained table. `GetsOldestValue` is about all entries of a
  table, slot by slot; an operation changes one slot. `IsTable` makes one of the
  two: every entry is in the slot of its hash, so that what a table has of a key is
  in the key's bucket (`EntriesOfKey`), and `ht_size` is the number of entries
  (`SlotChanges` says how it moves with one slot). An insertion, whatever fails in
  it, then either leaves the list of every key or appends to that of its own
  (`Refused`, `Taken`), a deletion takes the first of its key's list (`Gone`), and
  a resize that ends with as many entries as it read has refused none, so that it
  has built the list of every key in its order (`CopyKeepsAll`). `ChainInv` compares
  these lists with those of the history.

Induction over numbers is done by hand where a recursive function needs it: a
walk that does not get somewhere has a least place where it goes wrong
(`LeastNumber`), the step from the place before shows that it does not
(`Reaches`, `LoopComputes` in `TxtTokProofs`; `OneWalk` in `DBLibV31Proofs`).
The recursive functions of the models range over numbers for this purpose: `Dump`
and `PiecesOf` in `DBTools`, `MarkedIn` and `MovedUpTo` in `TxtTok`, `BlobUpTo`,
`BytesUpTo` and `ReadUpTo` in `TableTools`, `EntriesUpTo`, `CopyUpTo` and `OfUpTo` in
`ChainTable`, the walk of DBOpen in `DBLibV31`,
`IdsIn` in `HashIndex` (`Onwards` is the induction, upwards, in `HashIndexProofs`).

Only model-checked: `EveryOpenEnds` and `EveryCopyEnds` (liveness under fairness
is out of the prover's reach). `V31Inv`, `ToolsInv`, `ImportInv` and `ChainInv` are
defined beside their proofs and are not among the invariants of a run; the
properties they imply are.

## 5. Not modelled, and why

- `kvdb_print.c`, `global_utils.c`, the printing in `tlv.c`: they print or
  convert, and change no state that a property is about.
- `LastModified`, the magic numbers, versions and byte order: constants of the
  format that nothing but printing reads back; a file with a wrong magic number
  is one without a header.
- A negative capacity passed to create or resize (calloc refuses it, which is an
  allocation that fails), and entry ids beyond the range of int, which no
  database of the engine reaches.
- Errors of fread, fseek and fwrite other than the end of the file: the code
  does not look at the results of its writes.
- In the tools, the types of keys and values and what `dbput` converts them from;
  a nul in a CSV file.
- Power failures: a kill loses what stdio holds, the kernel loses nothing.
- The Python binding: `kvdb.pyx` is one call per engine call, of an interface the
  engine no longer has, and `kvdb.c` beside it is 11505 lines of Cython output.
- Old versions other than 3.1 (versions 1 to 3, core_v4, v4.1, each with its own
  copy of engine, tables and tokenizer): the same code earlier or later. With
  the Cython output they are two thirds of the lines of the repository, which
  is why the mapped share of it is small.
- The subprojects but for `hash_table_lib.c`: `hash_index_lib.c` is an earlier
  version of `hash_index.c`, `kv_dat_lib.c` and `kv_lib.c` are arrays that are
  written to a file once, `dirent.h` is third-party code, the rest are tests of
  library calls.
- Images, scripts, the compression test.

## 6. Plan

1. (done) Engine, hash index, dictionary; the inductive invariant and the
   safety theorems. The hash index as a state machine of its own with update,
   resize and compact, against a multimap; its safety theorems.
2. (done) The file under kills and with several processes; the tools and the
   table tools with the tokenizer; arena, older tables, the engine of version
   3.1: models and runs.
3. (done) Proofs of these: sessions over one file, arena, open-addressing table;
   reopening, the EOF marker, and the refinement of KVStore; the counters of the
   hash index.
4. (done) Proofs of what was left: version 3.1 on top of the open-addressing
   table; the tools; the order of the ids in the hash index, that is its
   refinement of the multimap; the table tools and the tokenizer; the chained table.
