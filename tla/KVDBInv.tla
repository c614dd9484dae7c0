------------------------------ MODULE KVDBInv ------------------------------
(***************************************************************************)
(* The inductive invariant behind the safety properties of KVDB: what the  *)
(* file must hold while it is closed, what each loop of open has achieved  *)
(* so far, and what a session in progress relies on.                       *)
(***************************************************************************)
EXTENDS KVDB

CellOK(c) ==
    \/ c.kind = "header" /\ c.hdr \in HeaderType /\ c.hdr.EntryCount <= c.hdr.EntryCapacity
    \/ c.kind = "record" /\ c.key \in Key /\ c.val \in Val
    \/ c.kind = "torn"   /\ c.key \in Key
    \/ c.kind = "index"  /\ c.count \in Nat /\ c.table \in [0 .. c.count - 1 -> IndexEntryType]
    \/ c.kind = "eof"

CellsOK(f) == DOMAIN f \subseteq Nat /\ \A o \in DOMAIN f : CellOK(f[o])

FileOK == CellsOK(file)

\* The table was sized for the database, and its ids are places in key_arr.
HTObjectOK ==
    phase \in {"loadindex", "ready"} =>
       /\ htObj.ht_cap = Header.EntryCapacity
       /\ \A s \in 0 .. htObj.ht_cap - 1 :
             \A p \in DOMAIN htObj.ht[s].bucket :
                htObj.ht[s].bucket[p].entry_id < Header.EntryCapacity

TypeInv == TypeOK /\ FileOK /\ HTObjectOK

-----------------------------------------------------------------------------
(* Entry n of the index table T describes the record found at its offset. *)
Describes(f, T, n) ==
    /\ Holds(f, T[n].Offset, "record")
    /\ T[n].KeyHash = Hash[f[T[n].Offset].key]
    /\ HEADER_SIZE <= T[n].Offset

EndOf(f, T, n) == T[n].Offset + SizeOf(f[T[n].Offset])

\* The first count entries of T describe records that follow each other from
\* the end of the header to end.
Chain(f, T, count, end) ==
    /\ HEADER_SIZE <= end
    /\ count = 0 => end = HEADER_SIZE
    /\ count > 0 => T[0].Offset = HEADER_SIZE
    /\ \A n \in 0 .. count - 1 :
          /\ Describes(f, T, n)
          /\ EndOf(f, T, n) <= end
          /\ EndOf(f, T, n) = IF n + 1 < count THEN T[n + 1].Offset ELSE end

IsLive(T, n) == "FLAG_DELETED" \notin T[n].Flags

OneLive(f, T, count) ==
    \A m, n \in 0 .. count - 1 :
       /\ IsLive(T, m) /\ IsLive(T, n)
       /\ f[T[m].Offset].key = f[T[n].Offset].key
       /\ KeyLen[f[T[m].Offset].key] > 0
       => m = n

\* The index table the header points to, unless a torn record destroyed it.
DiskTableThere ==
    /\ Holds(file, 0, "header")
    /\ file[0].hdr.EntryCount > 0 =>
          /\ Holds(file, file[0].hdr.IndexTableOffset, "index")
          /\ file[file[0].hdr.IndexTableOffset].count = file[0].hdr.EntryCount

DiskTable == file[file[0].hdr.IndexTableOffset].table

DiskOK ==
    DiskTableThere =>
       LET h == file[0].hdr
       IN  /\ h.EntryCount = 0 => h.IndexTableOffset = HEADER_SIZE
           /\ h.EntryCount > 0 =>
                 /\ Chain(file, DiskTable, h.EntryCount, h.IndexTableOffset)
                 /\ OneLive(file, DiskTable, h.EntryCount)

\* Whenever open may read the file, or a session that changed nothing may end,
\* the same can be read from it again.
DiskInv ==
    phase \in {"closed", "loadkeys", "loadindex"} \/ (phase = "ready" /\ ~db_modified)
       => DiskOK

\* While nothing was modified the header on disk is the one in memory.
UnmodifiedInv ==
    phase = "ready" /\ ~db_modified =>
       Holds(file, 0, "header") /\ file[0].hdr.IndexTableOffset = OffsetPtr

TableInv ==
    phase \in {"loadkeys", "loadindex", "ready"} =>
       /\ Chain(file, IndexTable, Header.EntryCount, Header.IndexTableOffset)
       /\ OneLive(file, IndexTable, Header.EntryCount)
       /\ phase = "ready" => OffsetPtr = Header.IndexTableOffset
       /\ phase # "ready" => Holds(file, 0, "header") /\ file[0].hdr = Header

KeyLoaded(n) == key_arr[n] = [key |-> file[IndexTable[n].Offset].key, data |-> TRUE]

\* The keys read so far; an element not in use holds no key to compare.
KeysInv ==
    /\ phase = "loadkeys" =>
          /\ i <= Header.EntryCount
          /\ \A n \in 0 .. i - 1 : KeyLoaded(n)
          /\ \A n \in i .. Header.EntryCapacity - 1 : ~key_arr[n].data
          /\ fpos = IF i < Header.EntryCount THEN IndexTable[i].Offset
                                             ELSE Header.IndexTableOffset
    /\ phase \in {"loadindex", "ready"} =>
          /\ \A n \in Entries : KeyLoaded(n)
          /\ \A n \in Header.EntryCount .. Header.EntryCapacity - 1 : ~key_arr[n].data

Indexed(n) == Holding(htObj, IndexTable[n].KeyHash, n) # {}

IndexInv ==
    /\ phase = "loadindex" => i <= Header.EntryCount /\ \A n \in 0 .. i - 1 : Indexed(n)
    /\ phase = "ready" => \A n \in Live : Indexed(n)

\* With allocations that succeed, a slot is used only by an entry of its own.
SlotsInv ==
    ~AllocFails =>
       /\ phase = "loadindex" => htObj.ht_slot_used_cnt <= i
       /\ phase = "ready" => htObj.ht_slot_used_cnt <= Header.EntryCount

SafeInv == DiskInv /\ UnmodifiedInv /\ TableInv /\ KeysInv /\ IndexInv /\ SlotsInv

IInv == TypeInv /\ SafeInv

-----------------------------------------------------------------------------
(* How the file ends, as long as allocations succeed: with the EOF marker    *)
(* that the last close wrote, or with what a session appended since.         *)

Within(f, end) == \A o \in DOMAIN f : o + SizeOf(f[o]) <= end

\* Where a file with header h ends: records, index table, EOF marker.
FileEnd(h) == h.IndexTableOffset + h.EntryCount * INDEX_ENTRY_SIZE + EOF_SIZE

\* A whole index table, and behind it, where the header says, the marker.
ClosedFile ==
    LET h == file[0].hdr
    IN  /\ DiskTableThere
        /\ h.EOFHeaderOffset = h.IndexTableOffset + h.EntryCount * INDEX_ENTRY_SIZE
        /\ Holds(file, h.EOFHeaderOffset, "eof")
        /\ Within(file, FileEnd(h))

HasEmptyKey == \E o \in DOMAIN file : file[o].kind = "record" /\ KeyLen[file[o].key] = 0

EndInv ==
    ~AllocFails =>
       /\ phase # "garbage"
       /\ phase \in {"closed", "loadkeys", "loadindex"} /\ Holds(file, 0, "header") => ClosedFile
       /\ phase = "ready" /\ ~db_modified => ClosedFile
       /\ phase = "ready" => Within(file, FileEnd(Header))
       /\ ret.op = "open" /\ ret.id = -1 => ~Holds(file, 0, "header") \/ HasEmptyKey

-----------------------------------------------------------------------------
(* What the refinement of KVStore needs besides.                             *)

\* The entries of the session are those that the file describes.
MatchesFile ==
    /\ DiskTableThere /\ file[0].hdr = Header
    /\ \A n \in Entries : IndexTable[n] = DiskTable[n]

\* The file begins with its header, the index table ends with unused entries, and
\* while allocations succeed a session that modified nothing matches the file.
StoreInv ==
    /\ 0 \in DOMAIN file => file[0].kind = "header"
    /\ phase \in {"loadkeys", "loadindex", "ready"} =>
          \A n \in Header.EntryCount .. Header.EntryCapacity - 1 : IndexTable[n] = UnusedEntry
    /\ ~AllocFails /\ (phase \in {"loadkeys", "loadindex"} \/ (phase = "ready" /\ ~db_modified))
          => MatchesFile

\* IInv holds whatever fails; the other two say more while allocations succeed.
FullInv == IInv /\ EndInv /\ StoreInv
=============================================================================
