----------------------------- MODULE KVDBProcs -----------------------------
(***************************************************************************)
(* Several processes with sessions of core/src/kvdb/kvdb.c on one database *)
(* file, any of which may be killed at any point.  What fwrite hands to    *)
(* stdio reaches the kernel when the stream is flushed: every fseek and    *)
(* fclose flushes, and a full buffer spills a part earlier.                *)
(*                                                                         *)
(* Nothing in the code locks the file.  The model takes the discipline     *)
(* that callers must then keep themselves: a session modifies the file     *)
(* only if nobody else has modified it since the session opened it         *)
(* (MayModify).  Sessions that only read may come and go at any time.      *)
(*                                                                         *)
(* Of a session, KVDB has the hash index, the counters and the failures of *)
(* malloc; here OffsetPtr is IndexTableOffset (KVDB's AppendsAtTheEnd).    *)
(***************************************************************************)
EXTENDS DBFile

CONSTANTS
    Proc,       \* the processes
    Caps,       \* the capacities create is called with
    Misread,    \* what other bytes may mean when read as an index entry
    NoBuf       \* nothing waits in the stream's buffer

ASSUME ProcsAssumption ==
    /\ KeyLen \in [Key -> Nat] /\ ValLen \in [Val -> Nat] /\ Caps \subseteq Nat
    /\ Misread \subseteq [Offset : Nat, deleted : BOOLEAN, hashed : BOOLEAN]
    /\ {HEADER_SIZE, INDEX_ENTRY_SIZE, DATA_ENTRY_HEADER_SIZE, EOF_SIZE}
          \subseteq Nat \ {0}

\* The headers, and what a stream may have waiting.
Counts  == {0} \cup UNION {0 .. cap : cap \in Caps}
Headers == [EntryCapacity : Caps \cup {0}, EntryCount : Counts, IndexTableOffset : Nat]
Records == [kind : {"record"}, key : Key, val : Val]
\* hashed: the entry has the hash of its key, by which put finds it.
Entries == [Offset : Nat, deleted : BOOLEAN, hashed : BOOLEAN]
Tables  == UNION {[0 .. n - 1 -> Entries] : n \in Counts}
Waits   == [at : Nat,
            cell : Records \cup [kind : {"header"}, hdr : Headers] \cup [kind : {"eof"}]
                   \cup [kind : {"index"}, count : Nat, table : Tables]]

ASSUME NoBufAssumption == NoBuf \notin Waits

VARIABLES
    disk,                                     \* what the kernel has of the file
    phase, Header, IndexTable, key_arr, db_modified,   \* each process's session
    fpos,                                     \* where its walk of open_load_keys is
    buf,                                      \* what its stream has not flushed
    \* history: what the session read and appended, and whether another session
    \* has modified the file since it opened
    saw, stale,
    \* history: what the last completed close wrote (or, of deletions, ought to have
    \* written, when it had misread its table), the entries somebody asked to delete,
    \* whether records have reached the disk since that close
    committed, asked, appended,
    \* history: whether records had reached the disk since the last close when the
    \* session read its index table, and whether such a session closed the file
    overrun, spoiled

session == <<phase, Header, IndexTable, key_arr, db_modified, fpos, buf, saw>>
history == <<stale, committed, asked, appended, overrun, spoiled>>
vars == <<disk, session, history>>

Nothing    == [n \in {} |-> 0]
Nobody     == [recs |-> Nothing, deleted |-> {}]
NoHeader   == [EntryCapacity |-> 0, EntryCount |-> 0, IndexTableOffset |-> HEADER_SIZE]
Upto(n)    == 0 .. n - 1
DeletedIn(T) == {n \in DOMAIN T : T[n].deleted}

Init ==
    /\ disk = EmptyFile
    /\ phase = [p \in Proc |-> "closed"]
    /\ Header = [p \in Proc |-> NoHeader]
    /\ IndexTable = [p \in Proc |-> Nothing]
    /\ key_arr = [p \in Proc |-> Nothing]
    /\ db_modified = [p \in Proc |-> FALSE]
    /\ fpos = [p \in Proc |-> HEADER_SIZE]
    /\ buf = [p \in Proc |-> NoBuf]
    /\ saw = [p \in Proc |-> Nobody]
    /\ stale = [p \in Proc |-> FALSE]
    /\ committed = Nobody
    /\ asked = {}
    /\ appended = FALSE
    /\ overrun = [p \in Proc |-> FALSE]
    /\ spoiled = FALSE

-----------------------------------------------------------------------------
(* The stream. *)

Flushed(p) == IF buf[p] = NoBuf THEN disk ELSE Write(disk, buf[p].at, buf[p].cell)

FlushesRecord(p) == buf[p] # NoBuf /\ buf[p].cell.kind = "record"

\* A record that reaches the disk may lie where a session that has read the header
\* will look for its index table.
RecordReaches(yes) ==
    /\ appended' = (appended \/ yes)
    /\ overrun' = [q \in Proc |-> overrun[q] \/ (yes /\ phase[q] = "header")]

\* fseek flushes what waits; then fwrite leaves what there is to write waiting.
SeekAndWrite(p, waiting) ==
    /\ disk' = Flushed(p)
    /\ RecordReaches(FlushesRecord(p))
    /\ buf' = [buf EXCEPT ![p] = waiting]

Waiting(o, cell) == [at |-> o, cell |-> cell]

\* The first m entries of the table written over what stands at o.
PartOfTable(o, cell, m) ==
    IF Holds(disk, o, "index") /\ disk[o].count = cell.count
    THEN IndexCell(cell.count,
                   [n \in Upto(cell.count) |-> IF n < m THEN cell.table[n]
                                                        ELSE disk[o].table[n]])
    ELSE IndexCell(m, cell.table)

\* A stream whose buffer is full hands a part of the cell to the kernel early.
Spill(p) ==
    /\ buf[p] # NoBuf
    /\ LET o == buf[p].at
           cell == buf[p].cell
       IN  \/ /\ cell.kind = "record"
              /\ disk' = Write(disk, o, TornCell(cell.key))
              /\ RecordReaches(TRUE)
           \/ /\ cell.kind = "index"
              /\ \E m \in 1 .. cell.count - 1 :
                    disk' = Write(disk, o, PartOfTable(o, cell, m))
              /\ UNCHANGED <<appended, overrun>>
    /\ UNCHANGED <<session, stale, committed, asked, spoiled>>

-----------------------------------------------------------------------------
(* The beginning and the end of a session. *)

\* Nothing is left of session p, neither in memory nor in its stream.
Ends(p) ==
    /\ phase' = [phase EXCEPT ![p] = "closed"]
    /\ Header' = [Header EXCEPT ![p] = NoHeader]
    /\ IndexTable' = [IndexTable EXCEPT ![p] = Nothing]
    /\ key_arr' = [key_arr EXCEPT ![p] = Nothing]
    /\ db_modified' = [db_modified EXCEPT ![p] = FALSE]
    /\ fpos' = [fpos EXCEPT ![p] = HEADER_SIZE]
    /\ buf' = [buf EXCEPT ![p] = NoBuf]
    /\ saw' = [saw EXCEPT ![p] = Nobody]
    /\ stale' = [stale EXCEPT ![p] = FALSE]
    /\ overrun' = [overrun EXCEPT ![p] = FALSE]

\* The process dies; the file stays as the kernel has it.
Kill(p) ==
    /\ phase[p] # "closed"
    /\ Ends(p)
    /\ UNCHANGED <<disk, committed, asked, appended, spoiled>>

\* The other sessions that are open must not modify the file any more.
Stale(p) == [q \in Proc |-> stale[q] \/ (q # p /\ phase[q] # "closed")]

NobodyElseModifies(p) == \A q \in Proc \ {p} : ~db_modified[q]

MayModify(p) == ~stale[p] /\ NobodyElseModifies(p)

\* fopen "wb+" empties the file, also under the other sessions.  What these read
\* from then on is not theirs, and they must not modify the file: nothing is kept
\* of them but that they are still to end.
KVDB_DBObject_create(p, cap) ==
    /\ phase[p] = "closed"
    /\ NobodyElseModifies(p)
    /\ disk' = EmptyFile
    /\ phase' = [q \in Proc |-> IF q = p THEN "ready"
                               ELSE IF phase[q] = "closed" THEN "closed" ELSE "emptied"]
    /\ Header' = [q \in Proc |-> IF q = p THEN [NoHeader EXCEPT !.EntryCapacity = cap]
                                         ELSE NoHeader]
    /\ IndexTable' = [q \in Proc |-> Nothing]
    /\ key_arr' = [q \in Proc |-> Nothing]
    /\ db_modified' = [q \in Proc |-> q = p]
    /\ fpos' = [q \in Proc |-> HEADER_SIZE]
    /\ buf' = [q \in Proc |-> NoBuf]
    /\ saw' = [q \in Proc |-> Nobody]
    /\ stale' = [q \in Proc |-> FALSE]
    /\ committed' = Nobody
    /\ asked' = {}
    /\ appended' = FALSE
    /\ overrun' = [q \in Proc |-> FALSE]
    /\ spoiled' = FALSE

\* open reads the header; without one it returns NULL and nothing happened.
OpenHeader(p) ==
    /\ phase[p] = "closed"
    /\ Holds(disk, 0, "header")
    /\ phase' = [phase EXCEPT ![p] = "header"]
    /\ Header' = [Header EXCEPT ![p] = disk[0].hdr]
    /\ saw' = [saw EXCEPT ![p] = committed]
    /\ stale' = [stale EXCEPT ![p] = ~NobodyElseModifies(p)]
    /\ overrun' = [overrun EXCEPT ![p] = appended \/ spoiled]
    /\ UNCHANGED <<disk, IndexTable, key_arr, db_modified, fpos, buf,
                   committed, asked, appended, spoiled>>

\* Fewer than size bytes from o on are known to be in the file.
EndsBefore(o, size) == \A q \in DOMAIN disk : q + SizeOf(disk[q]) < o + size

\* open reads the table where the header says.  It does not check what it reads:
\* where the table is not there any more, open fails at the end of the file, and
\* anywhere else goes on with what the bytes there mean as index entries.
OpenIndexTable(p) ==
    LET n == Header[p].EntryCount
        o == Header[p].IndexTableOffset
    IN  /\ phase[p] = "header"
        /\ \/ /\ n > 0 /\ EndsBefore(o, n * INDEX_ENTRY_SIZE)
              /\ Ends(p)
           \/ /\ \E T \in IF n = 0 THEN {Nothing}
                          ELSE IF Holds(disk, o, "index") /\ disk[o].count = n
                               THEN {disk[o].table}
                               ELSE [Upto(n) -> Misread] :
                    IndexTable' = [IndexTable EXCEPT ![p] = T]
              /\ phase' = [phase EXCEPT ![p] = "loadkeys"]
              /\ UNCHANGED <<Header, key_arr, db_modified, fpos, buf, saw, stale, overrun>>
        /\ UNCHANGED <<disk, committed, asked, appended, spoiled>>

\* Mutant: the record of a deleted entry is not read (kvdb.c 110, commented out).
LoadKeySkipsDeleted(p) ==
    LET n == CHOOSE n \in 0 .. Header[p].EntryCount : DOMAIN key_arr[p] = Upto(n)
        o == fpos[p]
    IN  /\ phase[p] = "loadkeys"
        /\ DOMAIN key_arr[p] # Upto(Header[p].EntryCount)
        /\ key_arr' = [key_arr EXCEPT ![p] =
                         [m \in 0 .. n |-> IF m = n THEN disk[o].key ELSE @[m]]]
        /\ fpos' = [fpos EXCEPT ![p] = IF IndexTable[p][n].deleted THEN o
                                       ELSE o + SizeOf(disk[o])]
        /\ UNCHANGED <<disk, phase, Header, IndexTable, db_modified, buf, saw, history>>

\* One iteration of open_load_keys.  It goes from record to record (KeysInv: that
\* is where it stands), whatever the index table says; fread of an empty key counts
\* no item, which fails the open.
OpenLoadKey(p) ==
    LET n == CHOOSE n \in 0 .. Header[p].EntryCount : DOMAIN key_arr[p] = Upto(n)
        o == fpos[p]
    IN  /\ phase[p] = "loadkeys"
        /\ DOMAIN key_arr[p] # Upto(Header[p].EntryCount)
        /\ IF ~Holds(disk, o, "record") \/ KeyLen[disk[o].key] = 0
           THEN /\ Ends(p)
                /\ UNCHANGED <<disk, committed, asked, appended, spoiled>>
           ELSE /\ key_arr' = [key_arr EXCEPT ![p] =
                                 [m \in 0 .. n |-> IF m = n THEN disk[o].key ELSE @[m]]]
                /\ fpos' = [fpos EXCEPT ![p] = o + SizeOf(disk[o])]
                /\ UNCHANGED <<disk, phase, Header, IndexTable, db_modified, buf, saw,
                               history>>

OpenDone(p) ==
    /\ phase[p] = "loadkeys"
    /\ DOMAIN key_arr[p] = Upto(Header[p].EntryCount)
    /\ phase' = [phase EXCEPT ![p] = "ready"]
    /\ fpos' = [fpos EXCEPT ![p] = HEADER_SIZE]
    /\ UNCHANGED <<disk, Header, IndexTable, key_arr, db_modified, buf, saw, history>>

-----------------------------------------------------------------------------
(* put, delete, get. *)

\* Mutant: a reopened database is appended to from the start of the data section.
StartOfData(p) == IF db_modified[p] THEN Header[p].IndexTableOffset ELSE HEADER_SIZE

OffsetPtr(p) == Header[p].IndexTableOffset

\* The live entries that a lookup of k can meet.
Found(p, k) == {m \in DOMAIN key_arr[p] : /\ key_arr[p][m] = k
                                          /\ IndexTable[p][m].hashed
                                          /\ ~IndexTable[p][m].deleted}

\* put appends a record, and deletes the live entry it found of the key: old is that
\* entry alone, or empty when there is none.
PutOver(p, k, v, old) ==
    LET n    == Header[p].EntryCount
        cell == RecordCell(k, v)
        at   == OffsetPtr(p)
        T    == IndexTable[p]
    IN  /\ phase[p] = "ready" /\ MayModify(p)
        /\ n < Header[p].EntryCapacity
        /\ SeekAndWrite(p, Waiting(at, cell))
        /\ IndexTable' = [IndexTable EXCEPT ![p] =
                            [m \in 0 .. n |-> IF m = n
                                              THEN [Offset |-> at, deleted |-> FALSE,
                                                    hashed |-> TRUE]
                                              ELSE [T[m] EXCEPT !.deleted = @ \/ m \in old]]]
        /\ key_arr' = [key_arr EXCEPT ![p] =
                         [m \in 0 .. n |-> IF m = n THEN k ELSE @[m]]]
        /\ Header' = [Header EXCEPT ![p] =
                        [EntryCapacity |-> @.EntryCapacity, EntryCount |-> n + 1,
                         IndexTableOffset |-> @.IndexTableOffset + SizeOf(cell)]]
        /\ db_modified' = [db_modified EXCEPT ![p] = TRUE]
        /\ saw' = [saw EXCEPT ![p] =
                     [recs |-> [m \in 0 .. n |-> IF m = n
                                                 THEN [Offset |-> at, cell |-> cell]
                                                 ELSE @.recs[m]],
                      deleted |-> @.deleted \cup old]]
        /\ stale' = Stale(p)
        /\ asked' = asked \cup old
        /\ UNCHANGED <<phase, fpos, committed, spoiled>>

KVDB_DBObject_put(p, k, v) ==
    \/ Found(p, k) = {} /\ PutOver(p, k, v, {})
    \/ \E m \in Found(p, k) : PutOver(p, k, v, {m})

\* Deletion is a flag in memory until close; db_modified is set in any case.
KVDB_DBObject_delete(p, n) ==
    /\ phase[p] = "ready" /\ MayModify(p)
    /\ n < Header[p].EntryCount
    /\ IndexTable' = [IndexTable EXCEPT ![p] =
                        [m \in DOMAIN @ |->
                           [IndexTable[p][m] EXCEPT !.deleted = @ \/ m = n]]]
    /\ db_modified' = [db_modified EXCEPT ![p] = TRUE]
    /\ saw' = [saw EXCEPT ![p] = [recs |-> @.recs, deleted |-> @.deleted \cup {n}]]
    /\ stale' = Stale(p)
    /\ asked' = asked \cup {n}
    /\ UNCHANGED <<disk, phase, Header, key_arr, fpos, buf, committed, appended,
                   overrun, spoiled>>

\* get and get_key seek, which flushes; what they read is SnapshotReads below.
KVDB_DBObject_get(p) ==
    /\ phase[p] = "ready"
    /\ buf[p] # NoBuf
    /\ SeekAndWrite(p, NoBuf)
    /\ UNCHANGED <<phase, Header, IndexTable, key_arr, db_modified, fpos, saw,
                   stale, committed, asked, spoiled>>

-----------------------------------------------------------------------------
(* close: index table, EOF marker, header, then fclose. *)

\* Mutants: the loop ends at a deleted entry; no table unless entries were added.
TableUpToDeleted(p) ==
    LET n == CHOOSE n \in 0 .. Header[p].EntryCount :
                /\ \A m \in Upto(n) : ~IndexTable[p][m].deleted
                /\ n < Header[p].EntryCount => IndexTable[p][n].deleted
    IN  IF n = 0 THEN NoBuf
        ELSE Waiting(Header[p].IndexTableOffset, IndexCell(n, IndexTable[p]))

TableIfAppended(p) ==
    IF \/ Header[p].EntryCount = 0
       \/ Holds(disk, 0, "header") /\ disk[0].hdr.EntryCount = Header[p].EntryCount
    THEN NoBuf
    ELSE Waiting(Header[p].IndexTableOffset, IndexCell(Header[p].EntryCount, IndexTable[p]))

TableToWrite(p) ==
    IF Header[p].EntryCount = 0 THEN NoBuf
    ELSE Waiting(Header[p].IndexTableOffset,
                 IndexCell(Header[p].EntryCount, IndexTable[p]))

EOFOffset(p) == Header[p].IndexTableOffset + Header[p].EntryCount * INDEX_ENTRY_SIZE

CloseStep(p, from, to, waiting) ==
    /\ phase[p] = from
    /\ phase' = [phase EXCEPT ![p] = to]
    /\ SeekAndWrite(p, waiting)
    /\ UNCHANGED <<Header, IndexTable, key_arr, db_modified, fpos, saw, stale,
                   committed, asked, spoiled>>

WriteDBIndexTable(p) ==
    /\ db_modified[p]
    /\ CloseStep(p, "ready", "table", TableToWrite(p))

WriteDBEOFHeader(p) ==
    CloseStep(p, "table", "eof", Waiting(EOFOffset(p), EOFCell))

WriteDBFileHeader(p) ==
    CloseStep(p, "eof", "end", Waiting(0, HeaderCell(Header[p])))

\* With the header on the disk the session's changes count.
Fclose(p) ==
    /\ \/ phase[p] = "ready" /\ ~db_modified[p]
       \/ phase[p] = "end"
    /\ disk' = Flushed(p)
    /\ IF phase[p] = "end"
       THEN /\ committed' = [recs |-> saw[p].recs,
                              deleted |-> IF overrun[p] THEN saw[p].deleted
                                                        ELSE DeletedIn(IndexTable[p])]
            /\ appended' = FALSE
            /\ spoiled' = overrun[p]
       ELSE UNCHANGED <<committed, appended, spoiled>>
    /\ Ends(p)
    /\ UNCHANGED asked

Open(p) == OpenHeader(p) \/ OpenIndexTable(p) \/ OpenLoadKey(p) \/ OpenDone(p)

Close(p) == WriteDBIndexTable(p) \/ WriteDBEOFHeader(p) \/ WriteDBFileHeader(p) \/ Fclose(p)

Next == \E p \in Proc :
    \/ \E cap \in Caps : KVDB_DBObject_create(p, cap)
    \/ Open(p)
    \/ \E k \in Key, v \in Val : KVDB_DBObject_put(p, k, v)
    \/ \E n \in Upto(Header[p].EntryCount) : KVDB_DBObject_delete(p, n)
    \/ KVDB_DBObject_get(p)
    \/ Close(p)
    \/ Spill(p)
    \/ Kill(p)

Spec == Init /\ [][Next]_vars

-----------------------------------------------------------------------------
(* Correctness. *)

\* What p's session and its stream agree is at o.
SeenAt(p, o, cell) ==
    IF buf[p] # NoBuf /\ buf[p].at = o THEN buf[p].cell = cell
    ELSE o \in DOMAIN disk /\ disk[o] = cell

Using(p) == phase[p] \in {"ready", "table", "eof", "end"}

(* A session sees the records that were committed when it read the header,   *)
(* and its own, under the keys they have, for as long as it lives: whatever  *)
(* other sessions append, close or lose by being killed, between any two     *)
(* reads of this one.  Its index table says where they are unless records    *)
(* had reached the disk since the last close when it read the table: then it *)
(* goes on with what the bytes there mean (kvdb.c 159-210, 311-323, 222-229). *)
SnapshotReads ==
    \A p \in Proc : Using(p) =>
       /\ DOMAIN saw[p].recs = Upto(Header[p].EntryCount)
       /\ \A n \in DOMAIN saw[p].recs :
             LET rec == saw[p].recs[n]
             IN  /\ ~overrun[p] => IndexTable[p][n].Offset = rec.Offset
                 /\ key_arr[p][n] = rec.cell.key
                 /\ SeenAt(p, rec.Offset, rec.cell)

(* A deletion that a completed close wrote is seen by every session opened    *)
(* later, and no session sees one that nobody asked for: also after a writer  *)
(* was killed, or read the table while another wrote it (kvdb.c 256-260, 180), *)
(* but for the sessions that may have read other bytes as their table.        *)
DeletionsSeen ==
    \A p \in Proc : Using(p) /\ ~overrun[p] =>
       saw[p].deleted \subseteq DeletedIn(IndexTable[p]) /\ DeletedIn(IndexTable[p]) \subseteq asked

(* The records of the last completed close stay where they are on the disk,  *)
(* whatever sessions do and wherever they are killed, those that go on with  *)
(* a table they misread included (kvdb.c 210, 311).                          *)
CommittedRecordsSurvive ==
    Holds(disk, 0, "header") =>
       /\ DOMAIN committed.recs = Upto(disk[0].hdr.EntryCount)
       /\ \A n \in DOMAIN committed.recs :
             LET rec == committed.recs[n]
             IN  rec.Offset \in DOMAIN disk /\ disk[rec.Offset] = rec.cell

(* A file can lose its index table only by a record that reached the disk    *)
(* with no close after it: sessions that delete, however they end, leave a   *)
(* whole table where the header says.  What the table says is right unless a *)
(* session that had read its own among such records wrote it (kvdb.c 222-261). *)
OnlyAppendsBreakTheFile ==
    Holds(disk, 0, "header") /\ ~appended /\ disk[0].hdr.EntryCount > 0 =>
       LET h == disk[0].hdr
       IN  /\ Holds(disk, h.IndexTableOffset, "index")
           /\ disk[h.IndexTableOffset].count = h.EntryCount
           /\ ~spoiled =>
                 \A n \in Upto(h.EntryCount) :
                    disk[h.IndexTableOffset].table[n].Offset = committed.recs[n].Offset
=============================================================================
