----------------------------- MODULE TableTools -----------------------------
(***************************************************************************)
(* The table tools of utils/tbldb: mktbldb imports a CSV table, one record *)
(* per row, and gettbldbrec and dmptbldb take a record apart again.  The   *)
(* text is the sequence of the pieces that fgets returns: each but perhaps *)
(* the last ends in a newline.  The engine is taken as in DBTools.         *)
(***************************************************************************)
EXTENDS Integers, TxtTok

CONSTANTS
    Texts,          \* the CSV files to import
    PKs,            \* the primary key columns asked for
    BUFFER_SIZE,    \* of the line buffer and of the record buffer
    LEN_SIZE,       \* bytes of a length in a record
    DB_ENTRY_CAP,
    MAX_KEY_SIZE,   \* of the engine
    DeletedIDs      \* the entries that mktbldb deletes before it closes

ASSUME TableAssumption ==
    /\ Texts \subseteq Seq(Seq(Char))
    /\ \A t \in Texts : \A n \in DOMAIN t : t[n] # <<>> /\ Len(t[n]) < BUFFER_SIZE
    /\ PKs \subseteq Int /\ DeletedIDs \subseteq Nat
    /\ BUFFER_SIZE \in Nat /\ LEN_SIZE \in Nat
    /\ DB_ENTRY_CAP \in Nat /\ MAX_KEY_SIZE \in Nat

VARIABLES
    csv, pk_col_idx,
    row_cnt, col_cnt,
    i, drift,       \* rows passed; how far lstrip has moved the line in its buffer
    entries,        \* of the database
    keys_txt,       \* the keys in the listing beside the database
    pc              \* "start", "rows", "refused", "dead" or "done"

vars == <<csv, pk_col_idx, row_cnt, col_cnt, i, drift, entries, keys_txt, pc>>

-----------------------------------------------------------------------------
(* The engine, in one session on a new database. *)

LiveIDs == {n \in DOMAIN entries : ~entries[n].deleted}

WithDeleted(ids) ==
    [n \in DOMAIN entries |-> IF n \in ids THEN [entries[n] EXCEPT !.deleted = TRUE]
                                           ELSE entries[n]]

\* Refused when the database is full or the key is too long.
KVDB_DBObject_put(k, v) ==
    entries' = IF Len(entries) >= DB_ENTRY_CAP \/ Len(k) > MAX_KEY_SIZE THEN entries
               ELSE Append(WithDeleted({n \in DOMAIN entries : entries[n].key = k}),
                           [key |-> k, val |-> v, deleted |-> FALSE])

\* After a put over an old key the next lookup, which a refused put does not come
\* to, may meet the tombstone.
MeetsTombstone(k) ==
    Len(entries) < DB_ENTRY_CAP /\ Len(k) <= MAX_KEY_SIZE /\ LiveIDs # DOMAIN entries

-----------------------------------------------------------------------------
(* mktbldb. *)

count_csv_rows == Cardinality({n \in DOMAIN csv : Last(csv[n]) = nl})

\* The columns of the first piece; -1 when there is none.
count_csv_cols == IF csv = <<>> THEN -1 ELSE CntTok(csv[1], Delim)

mktbldb ==
    /\ pc = "start"
    /\ row_cnt' = count_csv_rows
    /\ col_cnt' = count_csv_cols
    /\ pc' = IF pk_col_idx < 0 \/ pk_col_idx > count_csv_cols - 1 THEN "refused" ELSE "rows"
    /\ UNCHANGED <<csv, pk_col_idx, i, drift, entries, keys_txt>>

Piece == csv[i + 1]
Line  == rstrip(lstrip(Piece))
Toks  == MarkTokPosMeta(Line, col_cnt, Delim)

\* A record: the length and the characters of each column, after n columns.
BlobUpTo(line, toks) ==
    LET blob[n \in 0 .. Len(toks)] ==
          IF n = 0 THEN <<>> ELSE blob[n - 1] \o (<<toks[n].tok_len>> \o TokOf(line, toks[n]))
    IN  blob

Blob == BlobUpTo(Line, Toks)[col_cnt]

BytesUpTo(toks) ==
    LET sum[n \in 0 .. Len(toks)] == IF n = 0 THEN 0 ELSE sum[n - 1] + LEN_SIZE + toks[n].tok_len
    IN  sum

BlobBytes == BytesUpTo(Toks)[col_cnt]

\* Mutant of Overruns: fgets is taken to write one byte more.
OverrunsOneMore ==
    \/ drift + Len(Piece) + 2 > BUFFER_SIZE
    \/ Overflows(Line, col_cnt, Delim)
    \/ BlobBytes > BUFFER_SIZE

\* The row writes behind the line buffer, the array of tokens or the record.
Overruns ==
    \/ drift + Len(Piece) + 1 > BUFFER_SIZE
    \/ Overflows(Line, col_cnt, Delim)
    \/ BlobBytes > BUFFER_SIZE

Key == TokOf(Line, Toks[pk_col_idx + 1])

InRow == pc = "rows" /\ i < row_cnt

ImportRow ==
    /\ InRow
    /\ Line # <<>>
    /\ keys_txt' = Append(keys_txt, Key)
    /\ KVDB_DBObject_put(Key, Blob)
    /\ i' = i + 1
    /\ drift' = drift + Leading(Piece)
    /\ UNCHANGED <<csv, pk_col_idx, row_cnt, col_cnt, pc>>

\* A write out of bounds, or a lookup that meets a tombstone, may end the process.
ImportFaults ==
    /\ InRow
    /\ Overruns \/ (Line # <<>> /\ MeetsTombstone(Key))
    /\ pc' = "dead"
    /\ UNCHANGED <<csv, pk_col_idx, row_cnt, col_cnt, i, drift, entries, keys_txt>>

\* The loop ends after the last row, or at one that is blank.
ImportDone ==
    /\ pc = "rows"
    /\ i < row_cnt => Line = <<>>
    /\ entries' = WithDeleted({id + 1 : id \in DeletedIDs})
    /\ pc' = "done"
    /\ UNCHANGED <<csv, pk_col_idx, row_cnt, col_cnt, i, drift, keys_txt>>

-----------------------------------------------------------------------------
(* gettbldbrec and dmptbldb: the loop over the columns of a record. *)

\* How much of a record the loop has read after n columns.
ReadUpTo(blob) ==
    LET read[n \in 0 .. Len(blob)] ==
          IF n = 0 THEN 0
          ELSE IF read[n - 1] >= Len(blob) THEN read[n - 1]
          ELSE read[n - 1] + 1 + blob[read[n - 1] + 1]
    IN  read

DecodeRecord(blob) ==
    LET read == ReadUpTo(blob)
        cols == Cardinality({n \in DOMAIN read : read[n] < Len(blob)})
    IN  [n \in 1 .. cols |-> SubSeq(blob, read[n - 1] + 2, Min({read[n], Len(blob)}))]

-----------------------------------------------------------------------------
Init ==
    /\ csv \in Texts
    /\ pk_col_idx \in PKs
    /\ row_cnt = 0 /\ col_cnt = 0
    /\ i = 0 /\ drift = 0
    /\ entries = <<>>
    /\ keys_txt = <<>>
    /\ pc = "start"

Next == mktbldb \/ ImportRow \/ ImportFaults \/ ImportDone

Spec == Init /\ [][Next]_vars

-----------------------------------------------------------------------------
(* Correctness. *)

(* What is in the database after an import is the rows up to the first blank *)
(* one, a last line without newline left out, whose primary key is not too    *)
(* long, as many as the capacity admits and in their order: a record decodes   *)
(* to the fields of its row, columns that the row does not have are empty, and *)
(* a row is deleted if a later one in the database has its key or if it is one *)
(* of the entries that mktbldb deletes (mktbldb.c 101-158, gettbldbrec.c 71-80,*)
(* kvdb.c 271-279).  The listing has the refused rows too, so that the numbers *)
(* in it and the entry ids part behind the first of them.                      *)
RecordsAreRows ==
    pc = "done" =>
       LET Blank  == {n \in 1 .. row_cnt : Stripped(csv[n]) = <<>>}
           read   == IF Blank = {} THEN row_cnt ELSE Min(Blank) - 1
           Row(n) == RowOf(csv[n], col_cnt)
           PK(n)  == Row(n)[pk_col_idx + 1]
           Taken  == {n \in 1 .. read : Len(PK(n)) <= MAX_KEY_SIZE}
           ID(n)  == Cardinality({m \in Taken : m < n})
           Put    == {n \in Taken : ID(n) < DB_ENTRY_CAP}
       IN  /\ keys_txt = [n \in 1 .. read |-> PK(n)]
           /\ Len(entries) = Min({Cardinality(Taken), DB_ENTRY_CAP})
           /\ \A n \in Put :
                LET record == entries[ID(n) + 1]
                IN  /\ record.key = PK(n)
                    /\ DecodeRecord(record.val) = Row(n)
                    /\ ~record.deleted <=> /\ ID(n) \notin DeletedIDs
                                           /\ \A m \in Put : m > n => PK(m) # PK(n)

(* mktbldb writes or reads out of bounds only for a row of more columns than *)
(* the first, for leading whitespace that moves its line too far, for a      *)
(* record of more bytes than the buffer, and for a primary key that is not   *)
(* unique (mktbldb.c 99-135, txt_tok.c 23-29, kvdb.c 22-29).                 *)
ImportFaultsOnlyOn ==
    pc = "dead" =>
       LET Rows == 1 .. i + 1
       IN  \/ \E n \in Rows : FieldCnt(Stripped(csv[n])) > col_cnt
           \/ \E n \in Rows : MovedUpTo(csv)[n - 1] + Len(csv[n]) >= BUFFER_SIZE
           \/ \E n \in Rows : LET line == Stripped(csv[n])
                               IN  Len(line) - (FieldCnt(line) - 1) + col_cnt * LEN_SIZE > BUFFER_SIZE
           \/ \E m, n \in Rows : /\ m < n /\ n <= i
                                 /\ keys_txt[m] = keys_txt[n] /\ Len(keys_txt[n]) <= MAX_KEY_SIZE
=============================================================================
