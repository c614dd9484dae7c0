---------------------------- MODULE KVDBProcsInv ----------------------------
(***************************************************************************)
(* The inductive invariant behind the safety properties of KVDBProcs: who  *)
(* may write, what the file holds between two writes of anybody, and how   *)
(* the records of every session lie beside those of the last completed     *)
(* close.                                                                  *)
(***************************************************************************)
EXTENDS KVDBProcs

\* A session that has read a header, or made the file.
Live(p) == phase[p] \notin {"closed", "emptied"}

\* The header on the disk; without one the file counts as empty.
DiskHeader == IF Holds(disk, 0, "header") THEN disk[0].hdr ELSE NoHeader

-----------------------------------------------------------------------------
(* An image is the records and the deletions of a session or of a close.    *)
(* Its records follow each other, under a header that says how many they    *)
(* are and where the last one ends.                                         *)

EndOf(rec) == rec.Offset + SizeOf(rec.cell)

\* Where record n begins, and where the last one ends.
Begin(im, h, n) == IF n = h.EntryCount THEN h.IndexTableOffset ELSE im.recs[n].Offset

Layout(im, h) ==
    /\ h \in Headers
    /\ HEADER_SIZE <= h.IndexTableOffset
    /\ DOMAIN im.recs = Upto(h.EntryCount)
    /\ im.deleted \subseteq Upto(h.EntryCount)
    /\ Begin(im, h, 0) = HEADER_SIZE
    /\ \A n \in Upto(h.EntryCount) :
          /\ im.recs[n].Offset \in Nat /\ HEADER_SIZE <= im.recs[n].Offset
          /\ im.recs[n].cell \in Records
          /\ EndOf(im.recs[n]) = Begin(im, h, n + 1)
          /\ EndOf(im.recs[n]) <= h.IndexTableOffset
          /\ \A m \in Upto(n) : EndOf(im.recs[m]) <= im.recs[n].Offset

\* The second image goes on where the first ends, and deletes no less.
Prefix(im1, h1, im2, h2) ==
    /\ h1.EntryCount <= h2.EntryCount
    /\ \A n \in Upto(h1.EntryCount) : im2.recs[n] = im1.recs[n]
    /\ Begin(im2, h2, h1.EntryCount) = h1.IndexTableOffset
    /\ im1.deleted \subseteq im2.deleted

\* Table T describes the records of an image and has all its deletions, which were
\* asked for; one that was misread has entries of the image's number only.
TableOf(T, im, h, wanted, misread) ==
    /\ T \in [Upto(h.EntryCount) -> Entries]
    /\ ~misread =>
          /\ \A n \in Upto(h.EntryCount) : T[n].Offset = im.recs[n].Offset
          /\ im.deleted \subseteq DeletedIn(T)
          /\ DeletedIn(T) \subseteq wanted

\* Every record of an image is where it says in file f.
OnDisk(im, h, f) ==
    \A n \in Upto(h.EntryCount) :
       im.recs[n].Offset \in DOMAIN f /\ f[im.recs[n].Offset] = im.recs[n].cell

\* File f has an index table of the length and at the place that a header says.
TableAt(f, h) ==
    Holds(f, h.IndexTableOffset, "index") /\ f[h.IndexTableOffset].count = h.EntryCount

-----------------------------------------------------------------------------
\* The modes of a session: only one that put or deleted has anything waiting.
ModesInv ==
    /\ phase \in [Proc -> {"closed", "emptied", "header", "loadkeys", "ready",
                           "table", "eof", "end"}]
    /\ db_modified \in [Proc -> BOOLEAN] /\ stale \in [Proc -> BOOLEAN]
    /\ overrun \in [Proc -> BOOLEAN]
    /\ DOMAIN Header = Proc /\ DOMAIN IndexTable = Proc /\ DOMAIN key_arr = Proc
    /\ DOMAIN fpos = Proc /\ DOMAIN buf = Proc /\ DOMAIN saw = Proc
    /\ \A p \in Proc :
          /\ db_modified[p] => Using(p)
          /\ phase[p] \in {"table", "eof", "end"} => db_modified[p]
          /\ ~db_modified[p] => buf[p] = NoBuf

\* While a session has modified the file every other one is stale.
OneWriterInv ==
    \A p, q \in Proc : db_modified[p] /\ q # p /\ Live(q) => stale[q] /\ ~db_modified[q]

\* Records that reached the disk may lie where the header says the table is, or a
\* session that had read its own among such records wrote the table.
Doubted == appended \/ spoiled

\* A session that is still to read its table finds the one of its header, and a
\* right one, unless it is marked; one that may modify the file is marked only if
\* there was cause.
OverrunInv ==
    \A p \in Proc :
       /\ phase[p] = "header" /\ ~overrun[p] =>
             ~Doubted /\ Header[p].EntryCount = DiskHeader.EntryCount
       /\ Live(p) /\ (db_modified[p] \/ ~stale[p]) /\ overrun[p] => Doubted

\* On the disk: the records of the last completed close, and at their end no
\* index table that is as long as theirs but another one.
FileInv ==
    /\ Layout(committed, DiskHeader)
    /\ OnDisk(committed, DiskHeader, disk)
    /\ TableAt(disk, DiskHeader) =>
          TableOf(disk[DiskHeader.IndexTableOffset].table, committed, DiskHeader, asked,
                  Doubted)
    /\ ~appended /\ DiskHeader.EntryCount > 0 => TableAt(disk, DiskHeader)

\* A session that has not modified the file holds a part of what is committed; one
\* that did, or may, holds at least that.
ImageInv(p) ==
    Live(p) =>
       /\ Layout(saw[p], Header[p])
       /\ ~db_modified[p] => /\ Holds(disk, 0, "header")
                             /\ Prefix(saw[p], Header[p], committed, DiskHeader)
       /\ db_modified[p] \/ ~stale[p] => Prefix(committed, DiskHeader, saw[p], Header[p])
       /\ phase[p] # "header" =>
             TableOf(IndexTable[p], saw[p], Header[p], asked, overrun[p])

\* The keys of the first n records have been read.
KeysRead(p, n) ==
    /\ DOMAIN key_arr[p] = Upto(n)
    /\ \A m \in Upto(n) : key_arr[p][m] = saw[p].recs[m].cell.key

KeysInv(p) ==
    /\ ~Live(p) \/ phase[p] = "header" => fpos[p] = HEADER_SIZE /\ key_arr[p] = Nothing
    /\ phase[p] = "loadkeys" =>
          \E n \in 0 .. Header[p].EntryCount :
             KeysRead(p, n) /\ fpos[p] = Begin(saw[p], Header[p], n)
    /\ Using(p) => KeysRead(p, Header[p].EntryCount)

\* The last record that was put waits.
LastWaits(p) ==
    LET n == Header[p].EntryCount - 1
    IN  /\ DiskHeader.EntryCount <= n
        /\ buf[p] = Waiting(saw[p].recs[n].Offset, saw[p].recs[n].cell)

\* What waits in the stream of a session that modified the file.
WaitingInv(p) ==
    /\ phase[p] = "ready" => buf[p] = NoBuf \/ LastWaits(p)
    /\ phase[p] = "table" => buf[p] = TableToWrite(p)
    /\ phase[p] = "eof"   => buf[p] = Waiting(EOFOffset(p), EOFCell)
    /\ phase[p] = "end"   => buf[p] = Waiting(0, HeaderCell(Header[p]))

\* Every record of it is on the disk or waits, and so is its table from "eof" on.
WriterInv(p) ==
    db_modified[p] =>
       LET h == Header[p]
           o == h.IndexTableOffset
       IN  /\ WaitingInv(p)
           /\ \A n \in Upto(h.EntryCount) :
                 SeenAt(p, saw[p].recs[n].Offset, saw[p].recs[n].cell)
           /\ phase[p] \in {"eof", "end"} /\ h.EntryCount > 0 =>
                 o \in DOMAIN disk /\ disk[o] = IndexCell(h.EntryCount, IndexTable[p])
           /\ ~appended /\ DiskHeader.EntryCount < h.EntryCount =>
                 phase[p] = "ready" /\ buf[p] # NoBuf

SessionInv(p) == ImageInv(p) /\ KeysInv(p) /\ WriterInv(p)

IInv == ModesInv /\ OneWriterInv /\ OverrunInv /\ FileInv /\ \A p \in Proc : SessionInv(p)
=============================================================================
