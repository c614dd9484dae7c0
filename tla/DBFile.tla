------------------------------- MODULE DBFile -------------------------------
(***************************************************************************)
(* The database file of core/src/kvdb/kvdb.c: a partial function from byte *)
(* offsets to what fwrite put there, the header, a record, the index table *)
(* or the EOF marker.  Writing destroys whatever it overlaps.              *)
(***************************************************************************)
EXTENDS Naturals

CONSTANTS
    Key, Val,                \* TLV objects: keys differ in bytes, length or type
    KeyLen, ValLen,          \* their len
    NULL,
    HEADER_SIZE, INDEX_ENTRY_SIZE, DATA_ENTRY_HEADER_SIZE,
    EOF_SIZE                 \* sizeof(DBEOFHeader)

SizeOf(cell) ==
    CASE cell.kind = "header" -> HEADER_SIZE
      [] cell.kind = "record" -> DATA_ENTRY_HEADER_SIZE + KeyLen[cell.key] + ValLen[cell.val]
      [] cell.kind = "torn"   -> DATA_ENTRY_HEADER_SIZE + KeyLen[cell.key]
      [] cell.kind = "index"  -> cell.count * INDEX_ENTRY_SIZE
      [] cell.kind = "eof"    -> EOF_SIZE

EmptyFile == [o \in {} |-> NULL]

\* fseek to o, then fwrite.
Write(f, o, cell) ==
    [p \in {q \in DOMAIN f : q + SizeOf(f[q]) <= o \/ o + SizeOf(cell) <= q} \cup {o}
        |-> IF p = o THEN cell ELSE f[p]]

Holds(f, o, kind) == o \in DOMAIN f /\ f[o].kind = kind

HeaderCell(h)       == [kind |-> "header", hdr |-> h]
RecordCell(k, v)    == [kind |-> "record", key |-> k, val |-> v]
TornCell(k)         == [kind |-> "torn", key |-> k]      \* header and key, no value
IndexCell(count, T) == [kind |-> "index", count |-> count,
                        table |-> [n \in 0 .. count - 1 |-> T[n]]]
EOFCell             == [kind |-> "eof"]
=============================================================================
