------------------------------ MODULE KVDBProofs ------------------------------
(***************************************************************************)
(* KVDB for every set of keys and values, every capacity and every layout. *)
(*                                                                         *)
(* First, with or without allocations that fail.  Its types: lemmas about  *)
(* the file, the entry table and the index, then TypeInv, one step per     *)
(* action.  Then the inductive invariant IInv and what follows from it.    *)
(*                                                                         *)
(* Then what the database promises as long as allocations succeed.  A      *)
(* database that was closed can be opened again: EndInv, which says how    *)
(* the file ends, is inductive beside IInv.  And, if no key is empty, the  *)
(* database implements the dictionary of KVStore: StoreInv, which ties a   *)
(* session that changed nothing to its file, is inductive beside both, and *)
(* every step is one of the dictionary or leaves it alone.                 *)
(***************************************************************************)
EXTENDS KVDBInv, HashTableProofs

USE ConstantsAssumption

-----------------------------------------------------------------------------
(* Cells and writes. *)

(* A cell takes at least one byte, an index table of no entries apart. *)
LEMMA SizeOfCell ==
    ASSUME NEW c, CellOK(c)
    PROVE  /\ SizeOf(c) \in Nat
           /\ c.kind \in {"record", "torn"} => SizeOf(c) > 0
           /\ c.kind = "header" => SizeOf(c) = HEADER_SIZE
           /\ c.kind = "index" => SizeOf(c) = c.count * INDEX_ENTRY_SIZE
           /\ c.kind = "index" /\ c.count > 0 => SizeOf(c) > 0
<1>1. CASE c.kind = "header"
  BY <1>1 DEF SizeOf, CellOK
<1>2. CASE c.kind = "record"
  BY <1>2 DEF SizeOf, CellOK
<1>3. CASE c.kind = "torn"
  BY <1>3 DEF SizeOf, CellOK
<1>4. CASE c.kind = "index"
  <2>1. c.count \in Nat /\ INDEX_ENTRY_SIZE \in Nat \ {0}
    BY <1>4 DEF CellOK
  <2>2. SizeOf(c) = c.count * INDEX_ENTRY_SIZE
    BY <1>4 DEF SizeOf
  <2>3. \A x \in Nat, y \in Nat \ {0} : x * y \in Nat /\ (x > 0 => x * y > 0)
    OBVIOUS
  <2> QED BY <1>4, <2>1, <2>2, <2>3
<1>5. CASE c.kind = "eof"
  BY <1>5 DEF SizeOf, CellOK
<1> QED BY <1>1, <1>2, <1>3, <1>4, <1>5 DEF CellOK

(* A write puts its cell in place and leaves what ends before it or begins *)
(* behind it. *)
LEMMA WriteEffect ==
    ASSUME NEW f, CellsOK(f), NEW o \in Nat, NEW c, CellOK(c)
    PROVE  /\ CellsOK(Write(f, o, c))
           /\ o \in DOMAIN Write(f, o, c) /\ Write(f, o, c)[o] = c
           /\ \A q \in DOMAIN f :
                 /\ q # o
                 /\ q + SizeOf(f[q]) <= o \/ o + SizeOf(c) <= q
                 => q \in DOMAIN Write(f, o, c) /\ Write(f, o, c)[q] = f[q]
BY DEF Write, CellsOK

(* The cells the code writes are well formed. *)
LEMMA CellsWritten ==
    /\ \A k \in Key, v \in Val : CellOK(RecordCell(k, v))
    /\ \A k \in Key : CellOK(TornCell(k))
    /\ CellOK(EOFCell)
    /\ \A h \in HeaderType : h.EntryCount <= h.EntryCapacity => CellOK(HeaderCell(h))
    /\ \A c \in Nat, cap \in Nat : \A T \in [0 .. cap - 1 -> IndexEntryType] :
          c <= cap => CellOK(IndexCell(c, T))
<1>1. ASSUME NEW c \in Nat, NEW cap \in Nat,
             NEW T \in [0 .. cap - 1 -> IndexEntryType], c <= cap
      PROVE  CellOK(IndexCell(c, T))
  <2>1. [n \in 0 .. c - 1 |-> T[n]] \in [0 .. c - 1 -> IndexEntryType]
    BY <1>1
  <2> QED BY <2>1 DEF CellOK, IndexCell
<1>2. \A k \in Key, v \in Val : CellOK(RecordCell(k, v))
  BY DEF CellOK, RecordCell
<1>3. \A k \in Key : CellOK(TornCell(k))
  BY DEF CellOK, TornCell
<1>4. CellOK(EOFCell)
  BY DEF CellOK, EOFCell
<1>5. \A h \in HeaderType : h.EntryCount <= h.EntryCapacity => CellOK(HeaderCell(h))
  BY DEF CellOK, HeaderCell
<1> QED BY <1>1, <1>2, <1>3, <1>4, <1>5

-----------------------------------------------------------------------------
(* What delete and the lookup give, in a session. *)

(* What any result of delete, and not deleting at all, leaves: at most a flag, *)
(* a pair of the index and the counter have changed. *)
SoundResult(del) ==
    /\ del.ret \in Int
    /\ del.db_modified \in {db_modified, TRUE}
    /\ del.Header \in HeaderType
    /\ del.Header.EntryCount = Header.EntryCount
    /\ del.Header.EntryCapacity = Header.EntryCapacity
    /\ del.Header.IndexTableOffset = Header.IndexTableOffset
    /\ del.IndexTable \in [0 .. Header.EntryCapacity - 1 -> IndexEntryType]
    /\ \A n \in 0 .. Header.EntryCapacity - 1 :
          /\ del.IndexTable[n].KeyHash = IndexTable[n].KeyHash
          /\ del.IndexTable[n].Offset = IndexTable[n].Offset
          /\ ~IsLive(IndexTable, n) => ~IsLive(del.IndexTable, n)
    /\ del.htObj \in HTObject(htObj.ht_cap)
    /\ del.htObj.ht_cap = htObj.ht_cap
    /\ del.htObj.ht_slot_used_cnt = htObj.ht_slot_used_cnt
    /\ IdsBelow(del.htObj, Header.EntryCapacity)

(* What delete(id) leaves: only entry id is touched, and if the index holds it, *)
(* it is deleted. *)
DeleteResult(id, del) ==
    /\ SoundResult(del)
    /\ \A n \in 0 .. Header.EntryCapacity - 1 :
          n # id => del.IndexTable[n] = IndexTable[n]
    /\ \A kh \in Nat, n \in Nat :
          n # id /\ Holding(htObj, kh, n) # {} => Holding(del.htObj, kh, n) # {}
    /\ del.ret < 0 => del.htObj = htObj /\ del.IndexTable = IndexTable
    /\ id < Header.EntryCount /\ Indexed(id) => del.ret = id
    /\ del.ret >= 0 => /\ id < Header.EntryCount
                       /\ del.db_modified = TRUE
                       /\ ~IsLive(del.IndexTable, id)

(* The sizes and the counter's range are positive. *)
LEMMA SizesPositive ==
    /\ HEADER_SIZE \in Nat /\ HEADER_SIZE > 0
    /\ INDEX_ENTRY_SIZE \in Nat /\ INDEX_ENTRY_SIZE > 0
    /\ DATA_ENTRY_HEADER_SIZE \in Nat /\ DATA_ENTRY_HEADER_SIZE > 0
    /\ EOF_SIZE \in Nat /\ EOF_SIZE > 0
    /\ ULONG_RANGE \in Nat /\ ULONG_RANGE > 0
OBVIOUS

(* The session's fields have these types. *)
LEMMA SessionType ==
    ASSUME TypeInv, phase = "ready"
    PROVE  /\ Header \in HeaderType /\ Header.EntryCount \in Nat
           /\ Header.EntryCapacity \in Nat /\ Header.IndexTableOffset \in Nat
           /\ Header.EntryCount <= Header.EntryCapacity
           /\ IndexTable \in [0 .. Header.EntryCapacity - 1 -> IndexEntryType]
           /\ htObj \in HTObject(htObj.ht_cap)
           /\ htObj.ht_cap = Header.EntryCapacity
           /\ IdsBelow(htObj, Header.EntryCapacity)
           /\ db_modified \in BOOLEAN
           /\ OffsetPtr \in Nat
BY DEF TypeInv, TypeOK, HTObjectOK, HeaderType, IdsBelow

(* delete returns such a result. *)
LEMMA DeleteEntryEffect ==
    ASSUME TypeInv, phase = "ready", NEW id \in Nat
    PROVE  DeleteResult(id, DeleteEntry(id))
<1> SUFFICES ASSUME NEW del, del = DeleteEntry(id)
             PROVE  DeleteResult(id, del)
  OBVIOUS
<1>1. /\ Header \in HeaderType /\ Header.EntryCount \in Nat /\ Header.EntryCapacity \in Nat
      /\ Header.EntryCount <= Header.EntryCapacity
      /\ IndexTable \in [0 .. Header.EntryCapacity - 1 -> IndexEntryType]
      /\ htObj \in HTObject(htObj.ht_cap)
      /\ htObj.ht_cap = Header.EntryCapacity
      /\ IdsBelow(htObj, Header.EntryCapacity)
      /\ db_modified \in BOOLEAN
  BY SessionType
<1>2. CASE id >= Header.EntryCount
  <2>1. del = [ret |-> -1, Header |-> Header, IndexTable |-> IndexTable,
               htObj |-> htObj, db_modified |-> db_modified]
    BY <1>2 DEF DeleteEntry, Unchanged
  <2>2. /\ del.ret = -1 /\ del.Header = Header /\ del.IndexTable = IndexTable
        /\ del.htObj = htObj /\ del.db_modified = db_modified
    <3> QED BY <2>1
  <2> QED BY <1>1, <1>2, <2>2 DEF DeleteResult, SoundResult
<1>3. CASE id < Header.EntryCount
  <2> DEFINE kh == IndexTable[id].KeyHash
             d  == HTDelete(htObj, kh, id)
  <2>1. id \in 0 .. Header.EntryCapacity - 1 /\ Header.EntryCapacity > 0
    BY <1>1, <1>3
  <2>2. kh \in Nat
    BY <1>1, <2>1 DEF IndexEntryType
  <2>3. htObj.ht_cap \in Nat /\ htObj.ht_cap > 0
    BY <1>1, <2>1
  <2>4. /\ d.htObj \in HTObject(htObj.ht_cap)
        /\ d.htObj.ht_cap = htObj.ht_cap
        /\ d.htObj.ht_slot_used_cnt = htObj.ht_slot_used_cnt
        /\ Holding(htObj, kh, id) = {} => d.ret = -1 /\ d.htObj = htObj
        /\ Holding(htObj, kh, id) # {} => d.ret \in Nat
        /\ \A x \in Nat, n \in Nat :
              n # id /\ Holding(htObj, x, n) # {} => Holding(d.htObj, x, n) # {}
        /\ \A m \in Nat : IdsBelow(htObj, m)
              => \A s \in 0 .. htObj.ht_cap - 1 : \A p \in DOMAIN d.htObj.ht[s].bucket :
                    d.htObj.ht[s].bucket[p].entry_id < m
    <3> HIDE DEF kh
    <3> QED BY <1>1, <2>2, <2>3, DeleteEffect DEF IdsBelow
  <2>5. IdsBelow(d.htObj, Header.EntryCapacity)
    <3> HIDE DEF d
    <3> QED BY <1>1, <2>4 DEF IdsBelow
  <2>6. Indexed(id) <=> Holding(htObj, kh, id) # {}
    BY DEF Indexed
  <2>7. CASE Holding(htObj, kh, id) = {}
    <3>1. d.ret = -1
      BY <2>4, <2>7
    <3>2. del = [Unchanged(-2) EXCEPT !.db_modified = TRUE]
      <4>1. d.ret < 0 /\ ~(id >= Header.EntryCount)
        <5> HIDE DEF d
        <5> QED BY <1>1, <1>3, <3>1
      <4> QED BY <4>1 DEF DeleteEntry
    <3>3. del = [ret |-> -2, Header |-> Header, IndexTable |-> IndexTable,
                 htObj |-> htObj, db_modified |-> TRUE]
      <4> QED BY <3>2 DEF Unchanged
    <3>4. /\ del.ret = -2 /\ del.Header = Header /\ del.IndexTable = IndexTable
          /\ del.htObj = htObj /\ del.db_modified = TRUE
      <4> QED BY <3>3
    <3>5. ~Indexed(id)
      BY <2>6, <2>7
    <3> HIDE DEF d, kh
    <3>6. del.db_modified \in {db_modified, TRUE}
      <4> QED BY <3>4, Zenon
    <3>7. del.ret \in Int /\ ~(del.ret >= 0)
      <4>1. del.ret = -2
        BY <3>4
      <4> QED BY <4>1
    <3>8. \A n \in 0 .. Header.EntryCapacity - 1 :
             /\ del.IndexTable[n].KeyHash = IndexTable[n].KeyHash
             /\ del.IndexTable[n].Offset = IndexTable[n].Offset
             /\ n # id => del.IndexTable[n] = IndexTable[n]
             /\ ~IsLive(IndexTable, n) => ~IsLive(del.IndexTable, n)
      <4> QED BY <3>4
    <3> QED BY <1>1, <3>4, <3>5, <3>6, <3>7, <3>8 DEF DeleteResult, SoundResult
  <2>8. CASE Holding(htObj, kh, id) # {}
    <3> DEFINE T == [IndexTable EXCEPT ![id].Flags = {"FLAG_DELETED"}]
               H == [Header EXCEPT !.ValidEntryCount = (@ + ULONG_RANGE - 1) % ULONG_RANGE]
    <3>1. del = [ret |-> id, Header |-> H, IndexTable |-> T, htObj |-> d.htObj,
                 db_modified |-> TRUE]
      <4>1. ~(d.ret < 0) /\ ~(id >= Header.EntryCount)
        <5>1. d.ret \in Nat
          BY <2>4, <2>8
        <5> HIDE DEF d
        <5> QED BY <1>1, <1>3, <5>1
      <4> QED BY <4>1 DEF DeleteEntry
    <3>2. /\ H \in HeaderType
          /\ H.EntryCount = Header.EntryCount
          /\ H.EntryCapacity = Header.EntryCapacity
          /\ H.IndexTableOffset = Header.IndexTableOffset
      <4>1. \A x \in Nat : (x + ULONG_RANGE - 1) % ULONG_RANGE \in Nat
        BY SizesPositive
      <4> QED BY <1>1, <4>1 DEF HeaderType
    <3>3. /\ T \in [0 .. Header.EntryCapacity - 1 -> IndexEntryType]
          /\ \A n \in 0 .. Header.EntryCapacity - 1 :
                /\ T[n].KeyHash = IndexTable[n].KeyHash
                /\ T[n].Offset = IndexTable[n].Offset
                /\ n # id => T[n] = IndexTable[n]
                /\ n = id => T[n].Flags = {"FLAG_DELETED"}
      BY SMTT(30), <1>1, <2>1 DEF IndexEntryType
    <3>4. /\ del.ret = id /\ del.Header = H /\ del.IndexTable = T
          /\ del.htObj = d.htObj /\ del.db_modified = TRUE
      <4> HIDE DEF d, T, H
      <4> QED BY <3>1
    <3>5. /\ \A n \in 0 .. Header.EntryCapacity - 1 :
                ~IsLive(IndexTable, n) => ~IsLive(T, n)
          /\ ~IsLive(T, id)
      <4> HIDE DEF T
      <4> QED BY <2>1, <3>3 DEF IsLive
    <3> HIDE DEF d, T, H, kh
    <3>6. del.db_modified \in {db_modified, TRUE}
      <4> QED BY <3>4, Zenon
    <3>7. del.ret \in Int /\ ~(del.ret < 0)
      <4>1. del.ret = id
        BY <3>4
      <4> QED BY <4>1
    <3>8. /\ del.Header \in HeaderType
          /\ del.Header.EntryCount = Header.EntryCount
          /\ del.Header.EntryCapacity = Header.EntryCapacity
          /\ del.Header.IndexTableOffset = Header.IndexTableOffset
      <4> QED BY <3>2, <3>4
    <3>9. /\ del.IndexTable \in [0 .. Header.EntryCapacity - 1 -> IndexEntryType]
          /\ \A n \in 0 .. Header.EntryCapacity - 1 :
                /\ del.IndexTable[n].KeyHash = IndexTable[n].KeyHash
                /\ del.IndexTable[n].Offset = IndexTable[n].Offset
                /\ n # id => del.IndexTable[n] = IndexTable[n]
                /\ ~IsLive(IndexTable, n) => ~IsLive(del.IndexTable, n)
          /\ ~IsLive(del.IndexTable, id)
      <4> QED BY <3>3, <3>4, <3>5
    <3>10. /\ del.htObj \in HTObject(htObj.ht_cap)
          /\ del.htObj.ht_cap = htObj.ht_cap
          /\ del.htObj.ht_slot_used_cnt = htObj.ht_slot_used_cnt
          /\ IdsBelow(del.htObj, Header.EntryCapacity)
          /\ \A x \in Nat, n \in Nat :
                n # id /\ Holding(htObj, x, n) # {} => Holding(del.htObj, x, n) # {}
      <4> QED BY <2>4, <2>5, <3>4
    <3> QED BY <1>3, <3>4, <3>6, <3>7, <3>8, <3>9, <3>10 DEF DeleteResult, SoundResult
  <2> QED BY <2>7, <2>8
<1>4. id >= Header.EntryCount \/ id < Header.EntryCount
  BY <1>1
<1> QED BY <1>2, <1>3, <1>4

-----------------------------------------------------------------------------
(* Type correctness. *)

(* A session is left behind, or never begun: the DBObject is zeroed. *)
LEMMA NoSessionType ==
    ASSUME NoSession, phase' \in {"closed", "garbage", "dead"}, CellsOK(file')
    PROVE  TypeInv'
<1>1. /\ HTCreate(0) \in HTObject(0) /\ HTCreate(0).ht_cap = 0
  BY CreateType
<1>2. NewHeader(0) \in HeaderType /\ NewHeader(0).EntryCount = 0 /\ NewHeader(0).EntryCapacity = 0
  BY SizesPositive DEF NewHeader, HeaderType
<1>3. /\ [n \in {} |-> UnusedEntry] \in [0 .. 0 - 1 -> IndexEntryType]
      /\ [n \in {} |-> ZeroKey] \in [0 .. 0 - 1 -> [key : Key \cup {NoKey}, data : BOOLEAN]]
  <2>1. 0 .. 0 - 1 = {}
    OBVIOUS
  <2> QED BY <2>1
<1>4. TypeOK'
  <2>1. Header' = NewHeader(0) /\ htObj' = HTCreate(0) /\ db_modified' = FALSE
        /\ i' = 0 /\ fpos' = 0 /\ OffsetPtr' = HEADER_SIZE
        /\ IndexTable' = [n \in {} |-> UnusedEntry] /\ key_arr' = [n \in {} |-> ZeroKey]
    BY DEF NoSession
  <2>2. db_modified' \in BOOLEAN
    BY <2>1, Zenon
  <2>3. HTCreate(0).ht_cap \in Nat /\ HTCreate(0) \in HTObject(HTCreate(0).ht_cap)
    BY <1>1
  <2> QED BY <1>2, <1>3, <2>1, <2>2, <2>3, SizesPositive DEF TypeOK
<1> QED BY <1>4 DEF TypeInv, FileOK, HTObjectOK

(* What the steps of a session and of open leave unchanged keeps its type. *)
LEMMA TypeUnchanged ==
    ASSUME TypeInv, UNCHANGED <<phase, file, DBObject, i, fpos>>
    PROVE  TypeInv'
BY DEF TypeInv, TypeOK, FileOK, CellsOK, HTObjectOK, DBObject, HeaderType

(* The header read from the file, and the table it points to. *)
LEMMA HeaderRead ==
    ASSUME CellsOK(file), Holds(file, 0, "header")
    PROVE  /\ file[0].hdr \in HeaderType
           /\ file[0].hdr.EntryCount <= file[0].hdr.EntryCapacity
           /\ \A at : Holds(file, at, "index") =>
                 /\ file[at].count \in Nat
                 /\ file[at].table \in [0 .. file[at].count - 1 -> IndexEntryType]
           /\ \A at : Holds(file, at, "record") => file[at].key \in Key /\ file[at].val \in Val
BY DEF CellsOK, CellOK, Holds

(* The initial state. *)
LEMMA TypeInit == Init => TypeInv
<1> SUFFICES ASSUME Init PROVE TypeInv
  OBVIOUS
<1>1. /\ HTCreate(0) \in HTObject(0) /\ HTCreate(0).ht_cap = 0
  BY CreateType
<1>2. NewHeader(0) \in HeaderType /\ NewHeader(0).EntryCount = 0 /\ NewHeader(0).EntryCapacity = 0
  BY SizesPositive DEF NewHeader, HeaderType
<1>3. 0 .. 0 - 1 = {}
  OBVIOUS
<1>4. phase = "closed" /\ Header = NewHeader(0) /\ htObj = HTCreate(0)
      /\ i = 0 /\ fpos = 0 /\ OffsetPtr = HEADER_SIZE
      /\ IndexTable = [n \in {} |-> UnusedEntry] /\ key_arr = [n \in {} |-> ZeroKey]
  BY DEF Init
<1>5. db_modified \in BOOLEAN
  BY Zenon DEF Init
<1>6. TypeOK
  BY <1>1, <1>2, <1>3, <1>4, <1>5, SizesPositive DEF TypeOK
<1>7. CellsOK(file)
  BY DEF Init, EmptyFile, CellsOK
<1> QED BY <1>4, <1>6, <1>7 DEF TypeInv, FileOK, HTObjectOK

(* create: a new file and a new DBObject, or no session. *)
LEMMA TypeCreate ==
    ASSUME TypeInv, NEW cap \in Caps, NEW ok \in BOOLEAN, KVDB_DBObject_create(cap, ok)
    PROVE  TypeInv'
<1>1. CellsOK(file')
  <2>1. CellsOK(EmptyFile) /\ CellsOK(file)
    BY DEF EmptyFile, CellsOK, TypeInv, FileOK
  <2>2. file' \in {file, EmptyFile}
    BY Zenon DEF KVDB_DBObject_create
  <2>3. CASE file' = file
    BY <2>1, <2>3 DEF CellsOK
  <2>4. CASE file' = EmptyFile
    BY <2>1, <2>4 DEF CellsOK
  <2> QED BY <2>2, <2>3, <2>4
<1>2. CASE ok
  <2>1. cap \in Nat
    OBVIOUS
  <2>2. /\ NewHeader(cap) \in HeaderType
        /\ NewHeader(cap).EntryCount = 0
        /\ NewHeader(cap).EntryCapacity = cap
    BY <2>1, SizesPositive DEF NewHeader, HeaderType
  <2>3. /\ HTCreate(cap) \in HTObject(cap) /\ HTCreate(cap).ht_cap = cap
        /\ \A s \in 0 .. cap - 1 : HTCreate(cap).ht[s].bucket = <<>>
    BY <2>1, CreateType
  <2>4. /\ UnusedEntry \in IndexEntryType
        /\ ZeroKey \in [key : Key \cup {NoKey}, data : BOOLEAN]
    BY DEF UnusedEntry, IndexEntryType, ZeroKey
  <2>5. /\ phase' = "ready" /\ Header' = NewHeader(cap)
        /\ IndexTable' = [n \in 0 .. cap - 1 |-> UnusedEntry]
        /\ key_arr' = [n \in 0 .. cap - 1 |-> ZeroKey]
        /\ htObj' = HTCreate(cap) /\ OffsetPtr' = HEADER_SIZE /\ i' = 0 /\ fpos' = 0
    BY <1>2 DEF KVDB_DBObject_create
  <2>6. db_modified' \in BOOLEAN
    BY <1>2, Zenon DEF KVDB_DBObject_create
  <2>7. TypeOK'
    BY <2>1, <2>2, <2>3, <2>4, <2>5, <2>6, SizesPositive DEF TypeOK
  <2>8. HTObjectOK'
    BY <2>2, <2>3, <2>5 DEF HTObjectOK
  <2> QED BY <1>1, <2>7, <2>8 DEF TypeInv, FileOK
<1>3. CASE ~ok
  BY <1>1, <1>3, NoSessionType DEF KVDB_DBObject_create
<1> QED BY <1>2, <1>3

(* A failing open, a fault, garbage: no session, the file as it was. *)
LEMMA TypeNoOpen ==
    ASSUME TypeInv, OpenFails \/ OpenReadsGarbage \/ \E op : Dies(op)
    PROVE  TypeInv'
<1>1. CellsOK(file')
  BY DEF TypeInv, FileOK, CellsOK, OpenFails, OpenReadsGarbage, Dies
<1>2. NoSession /\ phase' \in {"closed", "garbage", "dead"}
  BY DEF OpenFails, OpenReadsGarbage, Dies
<1> QED BY <1>1, <1>2, NoSessionType

(* open up to its loops. *)
LEMMA TypeOpen ==
    ASSUME TypeInv, NEW ok \in BOOLEAN, KVDB_DBObject_open(ok)
    PROVE  TypeInv'
<1>1. CASE OpenFails \/ OpenReadsGarbage
  BY <1>1, TypeNoOpen
<1>2. CASE ~(OpenFails \/ OpenReadsGarbage)
  <2> DEFINE h  == file[0].hdr
             at == h.IndexTableOffset
  <2>1. /\ Holds(file, 0, "header")
        /\ h.EntryCount > 0 => Holds(file, at, "index") /\ file[at].count = h.EntryCount
        /\ phase' = "loadkeys" /\ Header' = h
        /\ IndexTable' = [n \in 0 .. h.EntryCapacity - 1 |->
                            IF n < h.EntryCount THEN file[at].table[n] ELSE UnusedEntry]
        /\ key_arr' = [n \in 0 .. h.EntryCapacity - 1 |-> ZeroKey]
        /\ fpos' = HEADER_SIZE /\ i' = 0
        /\ UNCHANGED <<file, htObj, OffsetPtr, db_modified>>
    BY <1>2 DEF KVDB_DBObject_open
  <2>2. /\ h \in HeaderType /\ h.EntryCount <= h.EntryCapacity
        /\ Holds(file, at, "index") =>
              file[at].table \in [0 .. file[at].count - 1 -> IndexEntryType]
    BY <2>1, HeaderRead DEF TypeInv, FileOK
  <2>3. h.EntryCount \in Nat /\ h.EntryCapacity \in Nat
    <3> HIDE DEF h
    <3> QED BY <2>2 DEF HeaderType
  <2>4. /\ UnusedEntry \in IndexEntryType
        /\ ZeroKey \in [key : Key \cup {NoKey}, data : BOOLEAN]
    BY DEF UnusedEntry, IndexEntryType, ZeroKey
  <2>5. IndexTable' \in [0 .. h.EntryCapacity - 1 -> IndexEntryType]
    <3> HIDE DEF h, at
    <3> QED BY SMTT(30), <2>1, <2>2, <2>3, <2>4
  <2>6. key_arr' \in [0 .. h.EntryCapacity - 1 -> [key : Key \cup {NoKey}, data : BOOLEAN]]
    <3> HIDE DEF h, at
    <3> QED BY <2>1, <2>4
  <2>7. TypeOK'
    <3> HIDE DEF h, at
    <3> QED BY <2>1, <2>2, <2>5, <2>6, SizesPositive DEF TypeInv, TypeOK
  <2> QED BY <2>1, <2>7 DEF TypeInv, FileOK, HTObjectOK, CellsOK
<1> QED BY <1>1, <1>2

(* One step of open's loops. *)
LEMMA TypeOpenStep ==
    ASSUME TypeInv, OpenStep
    PROVE  TypeInv'
<1>1. /\ Header \in HeaderType /\ Header.EntryCount \in Nat /\ Header.EntryCapacity \in Nat
      /\ Header.EntryCount <= Header.EntryCapacity /\ Header.IndexTableOffset \in Nat
      /\ i \in Nat /\ fpos \in Nat
      /\ IndexTable \in [0 .. Header.EntryCapacity - 1 -> IndexEntryType]
      /\ key_arr \in [0 .. Header.EntryCapacity - 1 ->
                        [key : Key \cup {NoKey}, data : BOOLEAN]]
  BY DEF TypeInv, TypeOK, HeaderType
<1> SUFFICES ASSUME ~(OpenFails \/ OpenReadsGarbage \/ Dies("open"))
             PROVE  TypeInv'
  BY TypeNoOpen
<1>2. PICK ok \in BOOLEAN : \/ KVDB_DBObject_open_load_keys(ok)
                            \/ KVDB_DBObject_open_new_index(ok)
                            \/ KVDB_DBObject_open_load_index(ok)
                            \/ KVDB_DBObject_open_done
  BY DEF OpenStep, AllocOutcome
<1>3. CASE KVDB_DBObject_open_load_keys(ok)
  <2>1. /\ Holds(file, fpos, "record") /\ i < Header.EntryCount
        /\ key_arr' = [key_arr EXCEPT ![i] = [key |-> file[fpos].key, data |-> TRUE]]
        /\ fpos' = fpos + SizeOf(file[fpos]) /\ i' = i + 1
        /\ phase = "loadkeys"
        /\ UNCHANGED <<phase, file, Header, IndexTable, htObj, OffsetPtr, db_modified>>
    BY <1>3 DEF KVDB_DBObject_open_load_keys
  <2>2. CellOK(file[fpos]) /\ file[fpos].key \in Key
    BY <2>1 DEF TypeInv, FileOK, CellsOK, Holds, CellOK
  <2>3. SizeOf(file[fpos]) \in Nat
    BY <2>2, SizeOfCell
  <2>4. key_arr' \in [0 .. Header.EntryCapacity - 1 ->
                        [key : Key \cup {NoKey}, data : BOOLEAN]]
    BY <1>1, <2>1, <2>2
  <2>5. fpos' \in Nat /\ i' \in Nat
    BY SMTT(30), <1>1, <2>1, <2>3
  <2>6. TypeOK'
    BY <1>1, <2>1, <2>4, <2>5 DEF TypeInv, TypeOK
  <2> QED BY <2>1, <2>6 DEF TypeInv, FileOK, HTObjectOK, CellsOK
<1>4. CASE KVDB_DBObject_open_new_index(ok)
  <2>1. /\ phase' = "loadindex" /\ htObj' = HTCreate(Header.EntryCapacity) /\ i' = 0
        /\ UNCHANGED <<file, Header, IndexTable, key_arr, OffsetPtr, db_modified, fpos>>
    BY <1>4 DEF KVDB_DBObject_open_new_index
  <2>2. /\ htObj'.ht_cap = Header.EntryCapacity
        /\ htObj' \in HTObject(htObj'.ht_cap)
        /\ \A s \in 0 .. Header.EntryCapacity - 1 : htObj'.ht[s].bucket = <<>>
    BY <1>1, <2>1, CreateType
  <2>3. TypeOK'
    BY <1>1, <2>1, <2>2 DEF TypeInv, TypeOK
  <2>4. HTObjectOK'
    BY <2>1, <2>2 DEF HTObjectOK
  <2> QED BY <2>1, <2>3, <2>4 DEF TypeInv, FileOK, CellsOK
<1>5. CASE KVDB_DBObject_open_load_index(ok)
  <2> SUFFICES ASSUME NEW kh, kh = IndexTable[i].KeyHash,
                      NEW ins, ins = HTInsert(htObj, kh, i, ok)
               PROVE  TypeInv'
    OBVIOUS
  <2>1. /\ i < Header.EntryCount /\ phase = "loadindex" /\ ~(ins.ret < 0)
        /\ htObj' = ins.htObj /\ i' = i + 1
        /\ UNCHANGED <<phase, file, Header, IndexTable, key_arr, OffsetPtr, db_modified, fpos>>
    BY <1>5 DEF KVDB_DBObject_open_load_index
  <2>2. kh \in Nat
    BY <1>1, <2>1 DEF IndexEntryType
  <2>3. /\ htObj.ht_cap \in Nat /\ htObj \in HTObject(htObj.ht_cap)
        /\ htObj.ht_cap = Header.EntryCapacity
        /\ IdsBelow(htObj, Header.EntryCapacity)
    BY <2>1 DEF TypeInv, TypeOK, HTObjectOK, IdsBelow
  <2>4. InsertResult(htObj, kh, i, ins)
    <3>1. i \in Nat /\ htObj.ht_cap \in Nat /\ htObj \in HTObject(htObj.ht_cap)
      BY <1>1, <2>3
    <3> QED BY <2>2, <3>1, InsertEffect
  <2>5. IdsBelow(ins.htObj, Header.EntryCapacity)
    <3>1. ins.ret >= 0 /\ i < Header.EntryCapacity
      BY <1>1, <2>1, <2>4 DEF InsertResult
    <3>2. /\ i \in Nat /\ htObj.ht_cap \in Nat /\ htObj \in HTObject(htObj.ht_cap)
          /\ Header.EntryCapacity \in Nat /\ IdsBelow(htObj, Header.EntryCapacity)
      BY <1>1, <2>3
    <3> QED BY <2>2, <2>4, <3>1, <3>2, InsertKeeps
  <2>6. TypeOK'
    BY <1>1, <2>1, <2>3, <2>4 DEF TypeInv, TypeOK, InsertResult
  <2>7. HTObjectOK'
    <3>1. /\ htObj'.ht_cap = Header.EntryCapacity
          /\ htObj' = ins.htObj /\ Header' = Header
      BY <2>1, <2>3, <2>4 DEF InsertResult
    <3> QED BY <2>5, <3>1 DEF HTObjectOK, IdsBelow
  <2> QED BY <2>1, <2>6, <2>7 DEF TypeInv, FileOK, CellsOK
<1>6. CASE KVDB_DBObject_open_done
  <2>1. /\ phase = "loadindex" /\ phase' = "ready" /\ OffsetPtr' = Header.IndexTableOffset
        /\ i' = 0 /\ fpos' = 0
        /\ UNCHANGED <<file, Header, IndexTable, key_arr, htObj, db_modified>>
    BY <1>6 DEF KVDB_DBObject_open_done
  <2>2. TypeOK'
    BY <1>1, <2>1 DEF TypeInv, TypeOK
  <2> QED BY <2>1, <2>2 DEF TypeInv, FileOK, HTObjectOK, CellsOK
<1> QED BY <1>2, <1>3, <1>4, <1>5, <1>6

(* What a session's operation needs to know of the result it goes on with. *)
LEMMA UnchangedSound ==
    ASSUME TypeInv, phase = "ready", NEW r \in Int
    PROVE  SoundResult(Unchanged(r))
<1>1. /\ Unchanged(r).ret = r /\ Unchanged(r).Header = Header
      /\ Unchanged(r).IndexTable = IndexTable /\ Unchanged(r).htObj = htObj
      /\ Unchanged(r).db_modified = db_modified
  BY DEF Unchanged
<1>2. Unchanged(r).db_modified \in {db_modified, TRUE}
  BY <1>1, Zenon
<1> HIDE DEF Unchanged
<1> QED BY <1>1, <1>2, SessionType DEF SoundResult

(* A session goes on with such a result, and nothing else changes. *)
LEMMA TypeAfterDelete ==
    ASSUME TypeInv, phase = "ready", NEW del, SoundResult(del),
           NEW op, NEW result, AfterDelete(op, result, del)
    PROVE  TypeInv'
<1> USE DEF AfterDelete
<1>1. db_modified' \in BOOLEAN
  <2>1. db_modified \in BOOLEAN
    BY SessionType
  <2> QED BY <2>1, Zenon DEF SoundResult
<1>2. /\ Header' \in HeaderType /\ Header'.EntryCount = Header.EntryCount
      /\ Header'.EntryCapacity = Header.EntryCapacity
      /\ IndexTable' \in [0 .. Header.EntryCapacity - 1 -> IndexEntryType]
      /\ htObj' \in HTObject(htObj.ht_cap) /\ htObj'.ht_cap = htObj.ht_cap
      /\ IdsBelow(htObj', Header.EntryCapacity)
  BY DEF SoundResult
<1>3. htObj' \in HTObject(htObj'.ht_cap)
  BY <1>2
<1>4. TypeOK'
  BY <1>1, <1>2, <1>3 DEF TypeInv, TypeOK
<1>5. HTObjectOK'
  BY <1>2 DEF TypeInv, HTObjectOK, IdsBelow
<1> QED BY <1>4, <1>5 DEF TypeInv, FileOK, CellsOK

(* delete by id. *)
LEMMA TypeDeletes ==
    ASSUME TypeInv, phase = "ready", NEW op, NEW id \in Nat, Deletes(op, id)
    PROVE  TypeInv'
<1>1. SoundResult(DeleteEntry(id))
  BY DeleteEntryEffect DEF DeleteResult
<1> QED BY <1>1, TypeAfterDelete DEF Deletes

(* An answer of the lookup is FAULT, -1 or a place in key_arr. *)
LEMMA LookupRange ==
    ASSUME TypeInv, phase = "ready", NEW k \in Key, NEW id \in KVDB_conv_key_entry_id(k)
    PROVE  id \in {FAULT, -1} \cup 0 .. Header.EntryCapacity - 1
<1>1. CASE htObj.ht_cap = 0
  BY <1>1 DEF KVDB_conv_key_entry_id
<1>2. CASE htObj.ht_cap # 0
  <2> DEFINE bucket == SlotOf(htObj, Hash[k]).bucket
             Id(p)  == bucket[p].entry_id
             hits   == {p \in DOMAIN bucket :
                          /\ ~(Id(p) = -1)
                          /\ key_arr[Id(p)].key = k
                          /\ "FLAG_DELETED" \notin IndexTable[Id(p)].Flags}
             answer == IF hits = {} THEN -1 ELSE Id(FirstOf(hits))
  <2>1. id = FAULT \/ id = -1 \/ id = answer
    BY <1>2 DEF KVDB_conv_key_entry_id
  <2>2. /\ Hash[k] % htObj.ht_cap \in 0 .. htObj.ht_cap - 1
        /\ bucket \in Seq(HashTableEntry)
        /\ \A p \in DOMAIN bucket : Id(p) < Header.EntryCapacity
    <3>1. htObj.ht_cap \in Nat /\ htObj.ht_cap > 0 /\ Hash[k] \in Nat
      BY <1>2, SessionType DEF HTObject
    <3>2. Hash[k] % htObj.ht_cap \in 0 .. htObj.ht_cap - 1
      BY <3>1, SlotIndex
    <3>3. htObj.ht[Hash[k] % htObj.ht_cap] \in HashTableSlot
      BY <3>2, SessionType DEF HTObject
    <3> QED BY <3>2, <3>3, SessionType DEF SlotOf, HashTableSlot, IdsBelow
  <2>3. ASSUME hits # {} PROVE FirstOf(hits) \in hits
    <3>1. hits \subseteq Nat
      BY <2>2
    <3> QED BY <2>3, <3>1, FirstOfIsLeast
  <2>4. \A p \in hits : Id(p) \in 0 .. Header.EntryCapacity - 1
    <3>1. \A p \in DOMAIN bucket : Id(p) \in Nat \cup {-1}
      <4>1. bucket \in Seq(HashTableEntry)
        BY <2>2
      <4> HIDE DEF bucket
      <4>2. \A p \in DOMAIN bucket : bucket[p] \in HashTableEntry
        BY <4>1
      <4> QED BY <4>2 DEF HashTableEntry
    <3>2. Header.EntryCapacity \in Nat
      BY SessionType
    <3> HIDE DEF bucket
    <3> QED BY <2>2, <3>1, <3>2
  <2> HIDE DEF hits, bucket
  <2> QED BY <2>1, <2>3, <2>4
<1> QED BY <1>1, <1>2

(* The types of a session's next state, gathered. *)
LEMMA SessionNext ==
    ASSUME phase' = "ready", i' \in Nat, fpos' \in Nat, db_modified' \in BOOLEAN,
           htObj'.ht_cap \in Nat, htObj' \in HTObject(htObj'.ht_cap), OffsetPtr' \in Nat,
           Header' \in HeaderType, Header'.EntryCapacity = Header.EntryCapacity,
           Header'.EntryCount <= Header'.EntryCapacity,
           IndexTable' \in [0 .. Header.EntryCapacity - 1 -> IndexEntryType],
           key_arr' \in [0 .. Header.EntryCapacity - 1 ->
                            [key : Key \cup {NoKey}, data : BOOLEAN]]
    PROVE  TypeOK'
BY DEF TypeOK

(* put after the deletion of the old entry. *)
LEMMA TypeAppend ==
    ASSUME TypeInv, phase = "ready", Header.EntryCount < Header.EntryCapacity,
           NEW k \in Key, NEW v \in Val, NEW del, SoundResult(del),
           NEW rok \in BOOLEAN, NEW mok \in BOOLEAN, Append_(k, v, del, rok, mok)
    PROVE  TypeInv'
<1> SUFFICES ASSUME NEW n, n = del.Header.EntryCount,
                    NEW ins, ins = HTInsert(del.htObj, Hash[k], n, rok),
                    NEW rec, rec = RecordCell(k, v),
                    AppendStep(k, n, del, ins, rec, mok)
             PROVE  TypeInv'
  BY DEF Append_
<1>1. /\ n \in Nat /\ Header.EntryCapacity \in Nat /\ n < Header.EntryCapacity
      /\ n \in 0 .. Header.EntryCapacity - 1
      /\ Hash[k] \in Nat
      /\ OffsetPtr \in Nat
      /\ CellsOK(file)
      /\ key_arr \in [0 .. Header.EntryCapacity - 1 ->
                        [key : Key \cup {NoKey}, data : BOOLEAN]]
      /\ i \in Nat /\ fpos \in Nat
  BY SessionType DEF TypeInv, TypeOK, FileOK, SoundResult
<1>2. /\ del.Header \in HeaderType /\ del.Header.EntryCount = n
      /\ del.Header.EntryCapacity = Header.EntryCapacity
      /\ del.Header.IndexTableOffset \in Nat
      /\ del.IndexTable \in [0 .. Header.EntryCapacity - 1 -> IndexEntryType]
  BY DEF SoundResult, HeaderType
<1>3. /\ del.htObj.ht_cap \in Nat /\ del.htObj \in HTObject(del.htObj.ht_cap)
      /\ IdsBelow(del.htObj, Header.EntryCapacity)
  <2>1. htObj.ht_cap \in Nat
    BY SessionType
  <2> QED BY <2>1 DEF SoundResult
<1>4. InsertResult(del.htObj, Hash[k], n, ins)
  BY <1>1, <1>3, InsertEffect
<1>5. /\ ins.htObj.ht_cap = del.htObj.ht_cap
      /\ ins.htObj \in HTObject(ins.htObj.ht_cap)
      /\ IdsBelow(ins.htObj, Header.EntryCapacity)
  <2>1. CASE ins.ret < 0
    BY <1>3, <1>4, <2>1 DEF InsertResult
  <2>2. CASE ins.ret >= 0
    <3>1. IdsBelow(ins.htObj, Header.EntryCapacity)
      <4>1. n \in Nat /\ n < Header.EntryCapacity /\ Header.EntryCapacity \in Nat /\ Hash[k] \in Nat
        BY <1>1
      <4> QED BY <1>3, <1>4, <2>2, <4>1, InsertKeeps
    <3> QED BY <1>3, <1>4, <3>1 DEF InsertResult
  <2> QED BY <1>4, <2>1, <2>2 DEF InsertResult
<1>6. htObj' = ins.htObj /\ phase' = phase /\ UNCHANGED <<i, fpos>>
  BY DEF AppendStep
<1>7. db_modified' \in BOOLEAN
  <2>1. db_modified \in BOOLEAN
    BY SessionType
  <2>2. db_modified' \in {del.db_modified, TRUE}
    BY Zenon DEF AppendStep
  <2> QED BY <2>1, <2>2, Zenon DEF SoundResult
<1>8. /\ phase' = "ready" /\ i' \in Nat /\ fpos' \in Nat /\ db_modified' \in BOOLEAN
       /\ htObj'.ht_cap \in Nat /\ htObj' \in HTObject(htObj'.ht_cap)
  BY <1>1, <1>3, <1>5, <1>6, <1>7
<1>9. /\ del.Header \in HeaderType /\ del.Header.EntryCapacity = Header.EntryCapacity
       /\ del.Header.EntryCount <= del.Header.EntryCapacity
       /\ del.IndexTable \in [0 .. Header.EntryCapacity - 1 -> IndexEntryType]
  BY <1>1, <1>2
<1>10. CASE NotIndexed(del)
  <2>1. /\ Header' = del.Header /\ IndexTable' = del.IndexTable
        /\ UNCHANGED <<file, key_arr, OffsetPtr>>
    BY <1>10 DEF NotIndexed
  <2>2. TypeOK'
    <3>1. /\ OffsetPtr' \in Nat
          /\ key_arr' \in [0 .. Header.EntryCapacity - 1 ->
                               [key : Key \cup {NoKey}, data : BOOLEAN]]
      BY <1>1, <2>1
    <3>2. /\ Header' \in HeaderType /\ Header'.EntryCapacity = Header.EntryCapacity
          /\ Header'.EntryCount <= Header'.EntryCapacity
          /\ IndexTable' \in [0 .. Header.EntryCapacity - 1 -> IndexEntryType]
      BY <1>9, <2>1
    <3> QED BY <1>8, <3>1, <3>2, SessionNext
  <2>3. HTObjectOK'
    <3>1. del.htObj.ht_cap = Header.EntryCapacity
      BY SessionType DEF SoundResult
    <3> QED BY <1>2, <1>5, <1>6, <2>1, <3>1 DEF HTObjectOK, IdsBelow
  <2> QED BY <1>1, <2>1, <2>2, <2>3 DEF TypeInv, FileOK, CellsOK
<1>11. CASE Torn(k, n, del)
  <2>1. /\ Header' = del.Header /\ IndexTable' = del.IndexTable
        /\ key_arr' = [key_arr EXCEPT ![n] = [key |-> k, data |-> FALSE]]
        /\ file' = Write(file, OffsetPtr, TornCell(k))
        /\ UNCHANGED OffsetPtr
    BY <1>11 DEF Torn
  <2>2. key_arr' \in [0 .. Header.EntryCapacity - 1 ->
                        [key : Key \cup {NoKey}, data : BOOLEAN]]
    <3>1. FALSE \in BOOLEAN
      OBVIOUS
    <3> QED BY <1>1, <2>1, <3>1
  <2>3. TypeOK'
    <3>1. OffsetPtr' \in Nat
      BY <1>1, <2>1
    <3>2. /\ Header' \in HeaderType /\ Header'.EntryCapacity = Header.EntryCapacity
          /\ Header'.EntryCount <= Header'.EntryCapacity
          /\ IndexTable' \in [0 .. Header.EntryCapacity - 1 -> IndexEntryType]
      BY <1>9, <2>1
    <3> QED BY <1>8, <2>2, <3>1, <3>2, SessionNext
  <2>4. HTObjectOK'
    <3>1. del.htObj.ht_cap = Header.EntryCapacity
      BY SessionType DEF SoundResult
    <3> QED BY <1>2, <1>5, <1>6, <2>1, <3>1 DEF HTObjectOK, IdsBelow
  <2>5. CellsOK(file')
    BY <1>1, <2>1, WriteEffect, CellsWritten
  <2> QED BY <2>3, <2>4, <2>5 DEF TypeInv, FileOK, CellsOK
<1>12. CASE Appended(k, n, del, rec)
  <2> DEFINE H == [EntryCapacity    |-> del.Header.EntryCapacity,
                   EntryCount       |-> n + 1,
                   ValidEntryCount  |-> (del.Header.ValidEntryCount + 1) % ULONG_RANGE,
                   IndexTableOffset |-> del.Header.IndexTableOffset + SizeOf(rec),
                   EOFHeaderOffset  |-> del.Header.EOFHeaderOffset]
  <2>1. /\ Header' = H
        /\ IndexTable' = [del.IndexTable EXCEPT
                            ![n] = [KeyHash |-> Hash[k],
                                    Flags   |-> @.Flags \cup {"FLAG_VALID"},
                                    Offset  |-> OffsetPtr]]
        /\ key_arr' = [key_arr EXCEPT ![n] = [key |-> k, data |-> TRUE]]
        /\ file' = Write(file, OffsetPtr, rec)
        /\ OffsetPtr' = OffsetPtr + SizeOf(rec)
    BY <1>12 DEF Appended
  <2>2. CellOK(rec) /\ SizeOf(rec) \in Nat
    <3>1. CellOK(rec)
      BY CellsWritten
    <3> QED BY <3>1, SizeOfCell
  <2>3. H \in HeaderType /\ H.EntryCount = n + 1 /\ H.EntryCapacity = Header.EntryCapacity
    <3>1. /\ del.Header.ValidEntryCount \in Nat /\ del.Header.EOFHeaderOffset \in Nat
          /\ del.Header.EntryCapacity \in Nat
      BY <1>2 DEF HeaderType
    <3>2. (del.Header.ValidEntryCount + 1) % ULONG_RANGE \in Nat
      BY <3>1, SizesPositive
    <3>3. \A x, y \in Nat : x + y \in Nat /\ x + 1 \in Nat
      OBVIOUS
    <3>4. n \in Nat
      BY <1>1
    <3>5. n + 1 \in Nat /\ del.Header.IndexTableOffset + SizeOf(rec) \in Nat
      BY <1>2, <2>2, <3>3, <3>4
    <3> QED BY <1>2, <3>1, <3>2, <3>5 DEF HeaderType
  <2> HIDE DEF H
  <2>5. IndexTable' \in [0 .. Header.EntryCapacity - 1 -> IndexEntryType]
    <3>1. del.IndexTable[n] \in IndexEntryType
      BY <1>1, <1>2
    <3>2. [KeyHash |-> Hash[k], Flags |-> del.IndexTable[n].Flags \cup {"FLAG_VALID"},
           Offset |-> OffsetPtr] \in IndexEntryType
      BY <1>1, <3>1 DEF IndexEntryType
    <3> QED BY <1>1, <1>2, <2>1, <3>2
  <2>6. key_arr' \in [0 .. Header.EntryCapacity - 1 ->
                        [key : Key \cup {NoKey}, data : BOOLEAN]]
    <3>1. TRUE \in BOOLEAN
      OBVIOUS
    <3> QED BY <1>1, <2>1, <3>1
  <2>7. OffsetPtr' \in Nat /\ n + 1 <= Header.EntryCapacity
    <3>1. \A x, y \in Nat : x + y \in Nat /\ (x < y => x + 1 <= y)
      OBVIOUS
    <3>2. n \in Nat /\ n < Header.EntryCapacity /\ Header.EntryCapacity \in Nat /\ OffsetPtr \in Nat
      BY <1>1
    <3> QED BY <2>1, <2>2, <3>1, <3>2
  <2>8. TypeOK'
    <3>1. /\ Header' \in HeaderType /\ Header'.EntryCapacity = Header.EntryCapacity
          /\ Header'.EntryCount <= Header'.EntryCapacity
      BY <2>1, <2>3, <2>7
    <3> QED BY <1>8, <2>5, <2>6, <2>7, <3>1, SessionNext
  <2>9. HTObjectOK'
    <3>1. del.htObj.ht_cap = Header.EntryCapacity
      BY SessionType DEF SoundResult
    <3> QED BY <1>2, <1>5, <1>6, <2>1, <2>3, <3>1 DEF HTObjectOK, IdsBelow
  <2>10. CellsOK(file')
    BY <1>1, <2>1, <2>2, WriteEffect
  <2> QED BY <2>8, <2>9, <2>10 DEF TypeInv, FileOK, CellsOK
<1> QED BY <1>10, <1>11, <1>12 DEF AppendStep

(* put. *)
LEMMA TypePut ==
    ASSUME TypeInv, NEW k \in Key, NEW v \in Val, NEW rok \in BOOLEAN, NEW mok \in BOOLEAN,
           KVDB_DBObject_put(k, v, rok, mok)
    PROVE  TypeInv'
<1>1. phase = "ready" /\ Header.EntryCount \in Nat /\ Header.EntryCapacity \in Nat
  BY SessionType DEF KVDB_DBObject_put
<1>2. CASE ~Accepts(k)
  BY <1>2, TypeUnchanged DEF KVDB_DBObject_put, OnlyReturns
<1>3. CASE Accepts(k)
  <2>1. PICK id \in KVDB_conv_key_entry_id(k) :
           IF id = FAULT THEN Dies("put")
           ELSE IF DeleteOld(id).ret < 0
           THEN AfterDelete("put", -1, DeleteOld(id))
           ELSE Append_(k, v, DeleteOld(id), rok, mok)
    BY <1>3 DEF KVDB_DBObject_put
  <2>2. CASE id = FAULT
    BY <2>1, <2>2, TypeNoOpen
  <2>3. CASE id # FAULT
    <3> SUFFICES ASSUME NEW del, del = DeleteOld(id)
                 PROVE  TypeInv'
      OBVIOUS
    <3>1. SoundResult(del)
      <4>1. CASE id >= 0
        <5>1. id \in Nat
          BY <1>1, <2>3, <4>1, LookupRange
        <5> QED BY <1>1, <4>1, <5>1, DeleteEntryEffect DEF DeleteResult, DeleteOld
      <4>2. CASE ~(id >= 0)
        BY <1>1, <4>2, UnchangedSound DEF DeleteOld
      <4> QED BY <4>1, <4>2
    <3>2. CASE del.ret < 0
      BY <1>1, <2>1, <2>3, <3>1, <3>2, TypeAfterDelete
    <3>3. CASE ~(del.ret < 0)
      <4>1. Append_(k, v, del, rok, mok)
        BY <2>1, <2>3, <3>3
      <4>2. Header.EntryCount < Header.EntryCapacity
        BY <1>3 DEF Accepts
      <4> QED BY <1>1, <3>1, <4>1, <4>2, TypeAppend
    <3> QED BY <3>2, <3>3
  <2> QED BY <2>2, <2>3
<1> QED BY <1>2, <1>3

(* close writes well-formed cells and ends the session. *)
LEMMA TypeClose ==
    ASSUME TypeInv, KVDB_DBObject_close
    PROVE  TypeInv'
<1>1. phase = "ready" /\ phase' = "closed" /\ NoSession
  BY DEF KVDB_DBObject_close
<1>2. /\ Header \in HeaderType /\ Header.EntryCount \in Nat /\ Header.EntryCapacity \in Nat
      /\ Header.EntryCount <= Header.EntryCapacity /\ Header.IndexTableOffset \in Nat
      /\ IndexTable \in [0 .. Header.EntryCapacity - 1 -> IndexEntryType]
      /\ CellsOK(file)
  BY <1>1, SessionType DEF TypeInv, FileOK
<1>3. EOFOffset \in Nat
  <2>1. \A x, y, z \in Nat : x + y * z \in Nat
    OBVIOUS
  <2> QED BY <1>2, <2>1, SizesPositive DEF EOFOffset
<1>4. CellsOK(WriteDBIndexTable(file))
  <2>1. CellOK(IndexCell(Header.EntryCount, IndexTable))
    BY <1>2, CellsWritten
  <2> QED BY <1>2, <2>1, WriteEffect DEF WriteDBIndexTable
<1>5. CellsOK(Write(WriteDBIndexTable(file), EOFOffset, EOFCell))
  BY <1>3, <1>4, CellsWritten, WriteEffect
<1>6. CellOK(HeaderCell([Header EXCEPT !.EOFHeaderOffset = EOFOffset]))
  <2> SUFFICES ASSUME NEW h, h = [Header EXCEPT !.EOFHeaderOffset = EOFOffset]
               PROVE  CellOK(HeaderCell(h))
    OBVIOUS
  <2>1. h \in HeaderType /\ h.EntryCount <= h.EntryCapacity
    BY <1>2, <1>3 DEF HeaderType
  <2> QED BY <2>1, CellsWritten
<1>7. CellsOK(WriteDBFileHeader(Write(WriteDBIndexTable(file), EOFOffset, EOFCell)))
  <2>1. 0 \in Nat
    OBVIOUS
  <2> QED BY <1>5, <1>6, <2>1, WriteEffect DEF WriteDBFileHeader
<1>8. CellsOK(file')
  BY <1>2, <1>7, Zenon DEF KVDB_DBObject_close
<1> QED BY <1>1, <1>8, NoSessionType

(* Every step keeps the types. *)
LEMMA TypeStep == TypeInv /\ [Next]_vars => TypeInv'
<1> SUFFICES ASSUME TypeInv, [Next]_vars PROVE TypeInv'
  OBVIOUS
<1>1. CASE UNCHANGED vars
  BY <1>1, TypeUnchanged DEF vars
<1>2. ASSUME NEW alloc_ok \in BOOLEAN, NEW cap \in Caps, KVDB_DBObject_create(cap, alloc_ok)
      PROVE  TypeInv'
  BY <1>2, TypeCreate
<1>3. ASSUME NEW alloc_ok \in BOOLEAN, KVDB_DBObject_open(alloc_ok)
      PROVE  TypeInv'
  BY <1>3, TypeOpen
<1>4. ASSUME NEW alloc_ok \in BOOLEAN, NEW id,
             KVDB_DBObject_get(id, alloc_ok) \/ KVDB_DBObject_get_key(id, alloc_ok)
      PROVE  TypeInv'
  BY <1>4, TypeUnchanged DEF KVDB_DBObject_get, KVDB_DBObject_get_key, OnlyReturns
<1>5. ASSUME NEW alloc_ok \in BOOLEAN, NEW k \in Key, KVDB_DBObject_get_by_key(k, alloc_ok)
      PROVE  TypeInv'
  <2>1. CASE Dies("get_by_key")
    BY <2>1, TypeNoOpen
  <2>2. CASE \E id, obj : OnlyReturns("get_by_key", id, obj)
    BY <2>2, TypeUnchanged DEF OnlyReturns
  <2> QED BY <1>5, <2>1, <2>2, Zenon DEF KVDB_DBObject_get_by_key
<1>6. ASSUME NEW k \in Key, NEW v \in Val, NEW rok \in BOOLEAN, NEW mok \in BOOLEAN,
             KVDB_DBObject_put(k, v, rok, mok)
      PROVE  TypeInv'
  BY <1>6, TypePut
<1>7. ASSUME OpenStep PROVE TypeInv'
  BY <1>7, TypeOpenStep
<1>8. ASSUME NEW id \in EntryIDs, KVDB_DBObject_delete(id) PROVE TypeInv'
  <2>1. id \in Nat /\ phase = "ready" /\ Deletes("delete", id)
    BY <1>8, SessionType DEF EntryIDs, KVDB_DBObject_delete
  <2> QED BY <2>1, TypeDeletes
<1>9. ASSUME NEW k \in Key, KVDB_DBObject_delete_by_key(k) PROVE TypeInv'
  <2>1. phase = "ready"
    BY <1>9 DEF KVDB_DBObject_delete_by_key
  <2>2. PICK id \in KVDB_conv_key_entry_id(k) :
           \/ Dies("delete_by_key")
           \/ OnlyReturns("delete_by_key", -1, NULL)
           \/ id # FAULT /\ id # -1 /\ Deletes("delete_by_key", id)
    BY <1>9, Zenon DEF KVDB_DBObject_delete_by_key
  <2>3. CASE Dies("delete_by_key")
    BY <2>3, TypeNoOpen
  <2>4. CASE OnlyReturns("delete_by_key", -1, NULL)
    BY <2>4, TypeUnchanged DEF OnlyReturns
  <2>5. CASE id # FAULT /\ id # -1 /\ Deletes("delete_by_key", id)
    <3>1. id \in Nat
      BY <2>1, <2>5, LookupRange
    <3> QED BY <2>1, <2>5, <3>1, TypeDeletes
  <2> QED BY <2>2, <2>3, <2>4, <2>5
<1>10. ASSUME KVDB_DBObject_EntryCount PROVE TypeInv'
  BY <1>10, TypeUnchanged DEF KVDB_DBObject_EntryCount, OnlyReturns
<1>11. ASSUME KVDB_DBObject_close PROVE TypeInv'
  BY <1>11, TypeClose
<1>12. AllocOutcome \subseteq BOOLEAN
  BY DEF AllocOutcome
<1> QED BY <1>1, <1>2, <1>3, <1>4, <1>5, <1>6, <1>7, <1>8, <1>9, <1>10, <1>11, <1>12 DEF Next

(* In every reachable state the DBObject and the file are well typed: no      *)
(* sequence of calls, whatever allocation fails, grows a counter past the     *)
(* arrays that create and open allocated (kvdb.c 272, 61-96, 154-217).        *)
THEOREM TypeCorrect == Spec => []TypeOK
<1>1. Init => TypeInv
  BY TypeInit
<1>2. TypeInv /\ [Next]_vars => TypeInv'
  BY TypeStep
<1>3. TypeInv => TypeOK
  BY DEF TypeInv
<1> QED BY <1>1, <1>2, <1>3, PTL DEF Spec

HIDE ConstantsAssumption

-----------------------------------------------------------------------------
(* Chains of records. *)

(* The entries of U describe in g what those of T describe in f, and no more *)
(* of them are live. *)
Same(f, T, g, U, count) ==
    \A n \in 0 .. count - 1 :
       /\ U[n].Offset = T[n].Offset
       /\ U[n].KeyHash = T[n].KeyHash
       /\ T[n].Offset \in DOMAIN g
       /\ g[T[n].Offset] = f[T[n].Offset]
       /\ IsLive(U, n) => IsLive(T, n)

LEMMA ChainSame ==
    ASSUME NEW f, NEW T, NEW g, NEW U, NEW count \in Nat, NEW end,
           Chain(f, T, count, end), Same(f, T, g, U, count)
    PROVE  Chain(g, U, count, end)
<1>1. ASSUME count > 0 PROVE U[0].Offset = HEADER_SIZE
  BY <1>1 DEF Chain, Same
<1>2. ASSUME NEW n \in 0 .. count - 1
      PROVE  /\ Describes(g, U, n)
             /\ EndOf(g, U, n) = EndOf(f, T, n)
             /\ n + 1 < count => U[n + 1].Offset = T[n + 1].Offset
  <2>1. /\ Holds(f, T[n].Offset, "record")
        /\ T[n].KeyHash = Hash[f[T[n].Offset].key]
        /\ HEADER_SIZE <= T[n].Offset
    BY DEF Chain, Describes
  <2>2. /\ U[n].Offset = T[n].Offset /\ U[n].KeyHash = T[n].KeyHash
        /\ T[n].Offset \in DOMAIN g /\ g[T[n].Offset] = f[T[n].Offset]
        /\ n + 1 < count => U[n + 1].Offset = T[n + 1].Offset
    BY DEF Same
  <2> QED BY <2>1, <2>2 DEF Describes, EndOf, Holds
<1> QED BY <1>1, <1>2 DEF Chain

LEMMA OneLiveSame ==
    ASSUME NEW f, NEW T, NEW g, NEW U, NEW count \in Nat,
           OneLive(f, T, count), Same(f, T, g, U, count)
    PROVE  OneLive(g, U, count)
BY DEF OneLive, Same

(* A write at or behind the end of the chain keeps its records. *)
LEMMA WriteBehind ==
    ASSUME NEW f, CellsOK(f), NEW T, NEW count \in Nat, NEW end \in Nat,
           Chain(f, T, count, end), NEW o \in Nat, end <= o, NEW c, CellOK(c)
    PROVE  Same(f, T, Write(f, o, c), T, count)
<1> SUFFICES ASSUME NEW n \in 0 .. count - 1, NEW q, q = T[n].Offset
             PROVE  q \in DOMAIN Write(f, o, c) /\ Write(f, o, c)[q] = f[q]
  BY DEF Same
<1>1. Holds(f, q, "record") /\ q + SizeOf(f[q]) <= end
  BY DEF Chain, Describes, EndOf
<1>2. q \in DOMAIN f /\ q \in Nat /\ CellOK(f[q]) /\ f[q].kind = "record"
  BY <1>1 DEF CellsOK, Holds
<1>3. SizeOf(f[q]) \in Nat /\ SizeOf(f[q]) > 0
  BY <1>2, SizeOfCell
<1>4. q # o /\ q + SizeOf(f[q]) <= o
  <2>1. \A x, y, z, w \in Nat : x + y <= z /\ z <= w /\ y > 0 => x # w /\ x + y <= w
    OBVIOUS
  <2> QED BY <1>1, <1>2, <1>3, <2>1
<1>5. \A x \in DOMAIN f :
         /\ x # o
         /\ x + SizeOf(f[x]) <= o \/ o + SizeOf(c) <= x
         => x \in DOMAIN Write(f, o, c) /\ Write(f, o, c)[x] = f[x]
  BY WriteEffect
<1> QED BY <1>2, <1>4, <1>5

(* So does the header: it ends before the first record. *)
LEMMA WriteHeader ==
    ASSUME NEW f, CellsOK(f), NEW T, NEW count \in Nat, NEW end,
           Chain(f, T, count, end), NEW h, CellOK(HeaderCell(h))
    PROVE  Same(f, T, Write(f, 0, HeaderCell(h)), T, count)
<1> SUFFICES ASSUME NEW n \in 0 .. count - 1
             PROVE  /\ T[n].Offset \in DOMAIN Write(f, 0, HeaderCell(h))
                    /\ Write(f, 0, HeaderCell(h))[T[n].Offset] = f[T[n].Offset]
  BY DEF Same
<1>1. Holds(f, T[n].Offset, "record") /\ HEADER_SIZE <= T[n].Offset
  BY DEF Chain, Describes
<1>2. T[n].Offset \in DOMAIN f /\ T[n].Offset \in Nat
  BY <1>1 DEF CellsOK, Holds
<1>3. SizeOf(HeaderCell(h)) = HEADER_SIZE
  BY SizeOfCell DEF HeaderCell
<1>4. T[n].Offset # 0 /\ 0 + SizeOf(HeaderCell(h)) <= T[n].Offset
  BY <1>1, <1>2, <1>3, SizesPositive
<1> QED BY <1>2, <1>4, WriteEffect

LEMMA SameTrans ==
    ASSUME NEW f, NEW T, NEW g, NEW e, NEW count,
           Same(f, T, g, T, count), Same(g, T, e, T, count)
    PROVE  Same(f, T, e, T, count)
BY DEF Same

-----------------------------------------------------------------------------
(* The steps. *)

(* put goes on after the lookup found id, or nothing. *)
PutAppends(k, v, id, rok, mok) ==
    /\ id \in KVDB_conv_key_entry_id(k)
    /\ id # FAULT
    /\ Accepts(k)
    /\ ~(DeleteOld(id).ret < 0)
    /\ Append_(k, v, DeleteOld(id), rok, mok)

\* What the step returns, if anything, is not the answer of open.
NotOpen == ret' = ret \/ ret'.op # "open"

StepKind ==
    \/ UNCHANGED <<phase, file, DBObject, i, fpos>> /\ NotOpen
    \/ \E cap \in Caps, ok \in AllocOutcome : KVDB_DBObject_create(cap, ok)
    \/ \E ok \in AllocOutcome : KVDB_DBObject_open(ok)
    \/ OpenStep
    \/ \E op : Dies(op) /\ op # "open"
    \/ \E id \in Nat : \E op, result :
          phase = "ready" /\ AfterDelete(op, result, DeleteEntry(id)) /\ NotOpen
    \/ \E k \in Key, v \in Val, rok \in BOOLEAN, mok \in AllocOutcome : \E id :
          phase = "ready" /\ PutAppends(k, v, id, rok, mok)
    \/ KVDB_DBObject_close

(* Every step is of one of these kinds. *)
LEMMA Steps == TypeInv /\ [Next]_vars => StepKind
<1> SUFFICES ASSUME TypeInv, [Next]_vars PROVE StepKind
  OBVIOUS
<1> USE Zenon DEF StepKind
<1>0. \A op, id, obj : Returns(op, id, obj) /\ op # "open" => NotOpen
  <2> SUFFICES ASSUME NEW op, NEW id, NEW obj, Returns(op, id, obj), op # "open"
               PROVE  ret'.op # "open"
    BY DEF NotOpen
  <2> QED BY SMT DEF Returns
<1>a. ASSUME NEW op, NEW id, NEW obj, OnlyReturns(op, id, obj), op # "open"
      PROVE  StepKind
  BY <1>0, <1>a DEF OnlyReturns
<1>b. ASSUME NEW op, NEW result, NEW id \in Nat, phase = "ready",
             AfterDelete(op, result, DeleteEntry(id)), op # "open"
      PROVE  StepKind
  BY <1>0, <1>b DEF AfterDelete
<1>c. ASSUME NEW op, Dies(op), op # "open" PROVE StepKind
  BY <1>c
<1>1. CASE UNCHANGED vars
  BY <1>1 DEF vars, NotOpen
<1>2. ASSUME NEW ok \in BOOLEAN, NEW id,
             \/ KVDB_DBObject_get(id, ok)
             \/ KVDB_DBObject_get_key(id, ok)
             \/ KVDB_DBObject_EntryCount
      PROVE  StepKind
  <2>1. CASE KVDB_DBObject_get(id, ok)
    BY <1>a, <2>1 DEF KVDB_DBObject_get
  <2>2. CASE KVDB_DBObject_get_key(id, ok)
    BY <1>a, <2>2 DEF KVDB_DBObject_get_key
  <2>3. CASE KVDB_DBObject_EntryCount
    BY <1>a, <2>3 DEF KVDB_DBObject_EntryCount
  <2> QED BY <1>2, <2>1, <2>2, <2>3
<1>3. ASSUME NEW ok \in BOOLEAN, NEW k \in Key, KVDB_DBObject_get_by_key(k, ok)
      PROVE  StepKind
  <2>1. \/ Dies("get_by_key")
        \/ \E n, obj : OnlyReturns("get_by_key", n, obj)
    BY <1>3 DEF KVDB_DBObject_get_by_key
  <2> QED BY <1>a, <1>c, <2>1
<1>4. ASSUME NEW id \in EntryIDs, KVDB_DBObject_delete(id)
      PROVE  StepKind
  <2>1. id \in Nat /\ phase = "ready"
    BY <1>4, SessionType, SMT DEF EntryIDs, KVDB_DBObject_delete
  <2> QED BY <1>b, <1>4, <2>1 DEF KVDB_DBObject_delete, Deletes
<1>5. ASSUME NEW k \in Key, KVDB_DBObject_delete_by_key(k)
      PROVE  StepKind
  <2>1. phase = "ready"
    BY <1>5 DEF KVDB_DBObject_delete_by_key
  <2>2. PICK id \in KVDB_conv_key_entry_id(k) :
           \/ Dies("delete_by_key")
           \/ OnlyReturns("delete_by_key", -1, NULL)
           \/ id # FAULT /\ id # -1 /\ Deletes("delete_by_key", id)
    BY <1>5 DEF KVDB_DBObject_delete_by_key
  <2>3. CASE id # FAULT /\ id # -1 /\ Deletes("delete_by_key", id)
    <3>1. id \in Nat
      BY <2>1, <2>3, LookupRange, SMT
    <3> QED BY <1>b, <2>1, <2>3, <3>1 DEF Deletes
  <2> QED BY <1>a, <1>c, <2>2, <2>3
<1>6. ASSUME NEW k \in Key, NEW v \in Val, NEW rok \in BOOLEAN, NEW mok \in AllocOutcome,
             KVDB_DBObject_put(k, v, rok, mok)
      PROVE  StepKind
  <2>1. phase = "ready"
    BY <1>6 DEF KVDB_DBObject_put
  <2>2. CASE ~Accepts(k)
    <3>1. OnlyReturns("put", -1, NULL)
      BY <1>6, <2>2 DEF KVDB_DBObject_put
    <3> QED BY <1>a, <3>1
  <2>3. CASE Accepts(k)
    <3>1. PICK id \in KVDB_conv_key_entry_id(k) :
             IF id = FAULT THEN Dies("put")
             ELSE IF DeleteOld(id).ret < 0
             THEN AfterDelete("put", -1, DeleteOld(id))
             ELSE Append_(k, v, DeleteOld(id), rok, mok)
      BY <1>6, <2>3 DEF KVDB_DBObject_put
    <3>2. CASE id = FAULT
      BY <1>c, <3>1, <3>2
    <3>3. CASE id # FAULT /\ DeleteOld(id).ret < 0
      <4>1. AfterDelete("put", -1, DeleteOld(id))
        BY <3>1, <3>3
      <4>2. id \in {FAULT, -1} \cup 0 .. Header.EntryCapacity - 1
        BY <2>1, LookupRange
      <4>3. ~(id >= 0) => DeleteOld(id).ret = 0
        BY DEF DeleteOld, Unchanged
      <4>4. id >= 0 /\ id \in Nat
        BY <2>1, <3>3, <4>2, <4>3, SessionType, SMT DEF FAULT
      <4>5. DeleteOld(id) = DeleteEntry(id)
        BY <4>4 DEF DeleteOld
      <4> QED BY <1>b, <2>1, <4>1, <4>4, <4>5
    <3>4. CASE id # FAULT /\ ~(DeleteOld(id).ret < 0)
      <4>1. PutAppends(k, v, id, rok, mok)
        BY <2>3, <3>1, <3>4 DEF PutAppends
      <4> QED BY <2>1, <4>1
    <3> QED BY <3>2, <3>3, <3>4
  <2> QED BY <2>2, <2>3
<1>7. AllocOutcome \subseteq BOOLEAN
  BY DEF AllocOutcome
<1>8. ASSUME \/ \E cap \in Caps, ok \in AllocOutcome : KVDB_DBObject_create(cap, ok)
             \/ \E ok \in AllocOutcome : KVDB_DBObject_open(ok)
             \/ OpenStep
             \/ KVDB_DBObject_close
      PROVE  StepKind
  BY <1>8
<1> HIDE DEF StepKind
<1> QED BY <1>1, <1>2, <1>3, <1>4, <1>5, <1>6, <1>7, <1>8 DEF Next

-----------------------------------------------------------------------------
(* create and open. *)

(* Where there is no session only the file matters. *)
LEMMA SafeLeave ==
    ASSUME NoSession, phase' \in {"closed", "garbage", "dead"},
           phase' = "closed" => DiskOK'
    PROVE  SafeInv'
BY DEF SafeInv, DiskInv, UnmodifiedInv, TableInv, KeysInv, IndexInv, SlotsInv

LEMMA DiskUnchanged ==
    ASSUME DiskOK, UNCHANGED file
    PROVE  DiskOK'
BY ZenonT(60) DEF DiskOK, DiskTableThere, DiskTable, Chain, Describes, EndOf, Holds, OneLive, IsLive,
       SizeOf

LEMMA SafeUnchanged ==
    ASSUME SafeInv, UNCHANGED <<phase, file, DBObject, i, fpos>>
    PROVE  SafeInv'
<1>1. DiskInv'
  BY DiskUnchanged DEF SafeInv, DiskInv, DBObject
<1>2. UnmodifiedInv' /\ TableInv'
  BY DEF SafeInv, UnmodifiedInv, TableInv, DBObject, Chain, Describes, EndOf, Holds, OneLive,
         IsLive, SizeOf
<1>3. KeysInv'
  BY DEF SafeInv, KeysInv, KeyLoaded, Entries, DBObject
<1>4. IndexInv'
  BY DEF SafeInv, IndexInv, Live, Entries, Indexed, DBObject
<1>5. SlotsInv'
  BY DEF SafeInv, SlotsInv, DBObject
<1> QED BY <1>1, <1>2, <1>3, <1>4, <1>5 DEF SafeInv

(* A failing open, a fault, garbage. *)
LEMMA SafeNoOpen ==
    ASSUME SafeInv, OpenReadsGarbage \/ (\E op : Dies(op))
                    \/ (OpenFails /\ phase \in {"closed", "loadkeys", "loadindex"})
    PROVE  SafeInv'
<1>1. CASE OpenFails /\ phase \in {"closed", "loadkeys", "loadindex"}
  <2>1. DiskOK'
    BY <1>1, DiskUnchanged DEF SafeInv, DiskInv, OpenFails
  <2> QED BY <1>1, <2>1, SafeLeave DEF OpenFails
<1>2. CASE OpenReadsGarbage \/ \E op : Dies(op)
  BY <1>2, SafeLeave DEF OpenReadsGarbage, Dies
<1> QED BY <1>1, <1>2

LEMMA SafeInit == Init => SafeInv
<1> SUFFICES ASSUME Init PROVE SafeInv
  OBVIOUS
<1>1. phase = "closed" /\ file = EmptyFile
  BY DEF Init
<1>2. DiskOK
  BY <1>1 DEF DiskOK, DiskTableThere, Holds, EmptyFile
<1> QED BY <1>1, <1>2
        DEF SafeInv, DiskInv, UnmodifiedInv, TableInv, KeysInv, IndexInv, SlotsInv

LEMMA SafeCreate ==
    ASSUME SafeInv, NEW cap \in Caps, NEW ok \in BOOLEAN, KVDB_DBObject_create(cap, ok)
    PROVE  SafeInv'
<1>1. CASE ok
  <2>1. /\ phase' = "ready" /\ db_modified' = TRUE
        /\ Header' = NewHeader(cap) /\ OffsetPtr' = HEADER_SIZE
        /\ key_arr' = [n \in 0 .. cap - 1 |-> ZeroKey]
        /\ htObj' = HTCreate(cap)
    BY <1>1 DEF KVDB_DBObject_create
  <2>2. /\ Header'.EntryCount = 0 /\ Header'.EntryCapacity = cap
        /\ Header'.IndexTableOffset = HEADER_SIZE
    BY <2>1 DEF NewHeader
  <2>3. 0 .. 0 - 1 = {} /\ cap \in Nat
    BY ConstantsAssumption
  <2>4. TableInv'
    BY <2>1, <2>2, <2>3, SizesPositive DEF TableInv, Chain, OneLive
  <2>5. KeysInv'
    BY <2>1, <2>2, <2>3 DEF KeysInv, Entries, ZeroKey
  <2>6. IndexInv'
    BY <2>1, <2>2, <2>3 DEF IndexInv, Live, Entries
  <2>7. SlotsInv'
    BY <2>1, <2>2, <2>3, CreateType DEF SlotsInv
  <2> QED BY <2>1, <2>4, <2>5, <2>6, <2>7 DEF SafeInv, DiskInv, UnmodifiedInv
<1>2. CASE ~ok
  <2>1. /\ phase = "closed" /\ phase' = "closed" /\ NoSession
        /\ file' \in {file, EmptyFile}
    BY <1>2, Zenon DEF KVDB_DBObject_create
  <2>2. CASE file' = file
    <3>1. DiskOK'
      BY <2>1, <2>2, DiskUnchanged DEF SafeInv, DiskInv
    <3> QED BY <2>1, <3>1, SafeLeave
  <2>3. CASE file' = EmptyFile
    <3>1. DiskOK'
      BY <2>3 DEF DiskOK, DiskTableThere, Holds, EmptyFile
    <3> QED BY <2>1, <3>1, SafeLeave
  <2> QED BY <2>1, <2>2, <2>3
<1> QED BY <1>1, <1>2

(* open reads a table that describes the records behind the header. *)
LEMMA SafeOpen ==
    ASSUME TypeInv, SafeInv, NEW ok \in BOOLEAN, KVDB_DBObject_open(ok)
    PROVE  SafeInv'
<1>0. phase = "closed" /\ DiskOK
  BY DEF KVDB_DBObject_open, SafeInv, DiskInv
<1>1. CASE OpenFails \/ OpenReadsGarbage
  BY <1>0, <1>1, SafeNoOpen
<1>2. CASE ~(OpenFails \/ OpenReadsGarbage)
  <2> SUFFICES ASSUME NEW h, h = file[0].hdr, NEW at, at = h.IndexTableOffset
               PROVE  SafeInv'
    OBVIOUS
  <2>1. /\ Holds(file, 0, "header")
        /\ h.EntryCount > 0 => Holds(file, at, "index") /\ file[at].count = h.EntryCount
        /\ phase' = "loadkeys" /\ Header' = h
        /\ IndexTable' = [n \in 0 .. h.EntryCapacity - 1 |->
                            IF n < h.EntryCount THEN file[at].table[n] ELSE UnusedEntry]
        /\ key_arr' = [n \in 0 .. h.EntryCapacity - 1 |-> ZeroKey]
        /\ fpos' = HEADER_SIZE /\ i' = 0
        /\ UNCHANGED file
    BY <1>2 DEF KVDB_DBObject_open
  <2>2. /\ h.EntryCount \in Nat /\ h.EntryCapacity \in Nat
        /\ h.EntryCount <= h.EntryCapacity
    BY <2>1, HeaderRead DEF TypeInv, FileOK, HeaderType
  <2>3. /\ h.EntryCount = 0 => at = HEADER_SIZE
        /\ h.EntryCount > 0 => /\ Chain(file, file[at].table, h.EntryCount, at)
                               /\ OneLive(file, file[at].table, h.EntryCount)
    BY <1>0, <2>1 DEF DiskOK, DiskTableThere, DiskTable
  <2>4. Chain(file, IndexTable', h.EntryCount, at) /\ OneLive(file, IndexTable', h.EntryCount)
    <3>1. CASE h.EntryCount = 0
      BY <2>3, <3>1, SizesPositive DEF Chain, OneLive
    <3>2. CASE h.EntryCount > 0
      <4>1. ASSUME NEW n \in 0 .. h.EntryCount - 1
            PROVE  IndexTable'[n] = file[at].table[n]
        BY <2>1, <2>2
      <4>2. ASSUME NEW n \in 0 .. h.EntryCount - 1
            PROVE  file[at].table[n].Offset \in DOMAIN file
        BY <2>3, <3>2 DEF Chain, Describes, Holds
      <4>3. Same(file, file[at].table, file, IndexTable', h.EntryCount)
        BY <4>1, <4>2 DEF Same, IsLive
      <4>4. Chain(file, IndexTable', h.EntryCount, at)
        BY <2>2, <2>3, <3>2, <4>3, ChainSame
      <4>5. OneLive(file, IndexTable', h.EntryCount)
        BY <2>2, <2>3, <3>2, <4>3, OneLiveSame
      <4> QED BY <4>4, <4>5
    <3> QED BY <2>2, <3>1, <3>2
  <2>5. TableInv'
    BY <2>1, <2>4 DEF TableInv, Holds
  <2>6. KeysInv'
    <3>1. h.EntryCount > 0 => IndexTable'[0].Offset = HEADER_SIZE
      BY <2>4 DEF Chain
    <3>2. fpos' = IF 0 < h.EntryCount THEN IndexTable'[0].Offset ELSE at
      <4>1. CASE h.EntryCount > 0
        <5>1. fpos' = HEADER_SIZE
          BY <2>1
        <5> QED BY <3>1, <4>1, <5>1
      <4>2. CASE h.EntryCount = 0
        <5>1. fpos' = HEADER_SIZE /\ at = HEADER_SIZE
          BY <2>1, <2>3, <4>2
        <5> QED BY <4>2, <5>1
      <4> QED BY <2>2, <4>1, <4>2
    <3>3. \A n \in 0 .. h.EntryCapacity - 1 : ~key_arr'[n].data
      BY <2>1 DEF ZeroKey
    <3>4. /\ phase' = "loadkeys" /\ i' = 0
          /\ Header'.EntryCount = h.EntryCount /\ Header'.EntryCapacity = h.EntryCapacity
          /\ Header'.IndexTableOffset = at
      BY <2>1
    <3> QED BY <2>2, <3>2, <3>3, <3>4 DEF KeysInv
  <2>7. DiskInv'
    BY <1>0, <2>1, DiskUnchanged DEF DiskInv
  <2> QED BY <2>1, <2>5, <2>6, <2>7 DEF SafeInv, UnmodifiedInv, IndexInv, SlotsInv
<1> QED BY <1>1, <1>2

(* The walk through the data section stays on the records of the index table. *)
LEMMA SafeLoadKeys ==
    ASSUME TypeInv, SafeInv, NEW ok \in BOOLEAN, KVDB_DBObject_open_load_keys(ok),
           ~(OpenFails \/ OpenReadsGarbage)
    PROVE  SafeInv'
<1>1. /\ phase = "loadkeys" /\ i < Header.EntryCount
      /\ key_arr' = [key_arr EXCEPT ![i] = [key |-> file[fpos].key, data |-> TRUE]]
      /\ fpos' = fpos + SizeOf(file[fpos]) /\ i' = i + 1
      /\ UNCHANGED <<phase, file, Header, IndexTable, htObj, OffsetPtr, db_modified>>
  BY DEF KVDB_DBObject_open_load_keys
<1>2. /\ Header.EntryCount \in Nat /\ Header.EntryCapacity \in Nat
      /\ Header.EntryCount <= Header.EntryCapacity /\ i \in Nat
      /\ i \in 0 .. Header.EntryCount - 1 /\ i \in 0 .. Header.EntryCapacity - 1
      /\ DOMAIN key_arr = 0 .. Header.EntryCapacity - 1
  BY <1>1 DEF TypeInv, TypeOK, HeaderType
<1>3. /\ Chain(file, IndexTable, Header.EntryCount, Header.IndexTableOffset)
      /\ fpos = IndexTable[i].Offset
      /\ \A n \in 0 .. i - 1 : KeyLoaded(n)
      /\ \A n \in i .. Header.EntryCapacity - 1 : ~key_arr[n].data
  BY <1>1 DEF SafeInv, TableInv, KeysInv
<1>4. fpos' = IF i + 1 < Header.EntryCount THEN IndexTable[i + 1].Offset
                                           ELSE Header.IndexTableOffset
  BY <1>1, <1>2, <1>3 DEF Chain, EndOf
<1>5. ASSUME NEW n \in 0 .. i PROVE KeyLoaded(n)'
  <2>1. CASE n = i
    BY <1>1, <1>2, <1>3, <2>1 DEF KeyLoaded
  <2>2. CASE n # i
    <3>1. n \in 0 .. i - 1 /\ n \in 0 .. Header.EntryCapacity - 1
      BY <1>2, <2>2
    <3> QED BY <1>1, <1>2, <1>3, <2>2, <3>1 DEF KeyLoaded
  <2> QED BY <2>1, <2>2
<1>6. ASSUME NEW n \in i + 1 .. Header.EntryCapacity - 1 PROVE ~key_arr'[n].data
  BY <1>1, <1>2, <1>3
<1>7. KeysInv'
  <2>1. 0 .. i' - 1 = 0 .. i /\ i' <= Header.EntryCount
    BY <1>1, <1>2
  <2> QED BY <1>1, <1>4, <1>5, <1>6, <2>1 DEF KeysInv
<1>8. TableInv'
  BY <1>1 DEF SafeInv, TableInv, Holds
<1>9. DiskInv'
  BY <1>1, DiskUnchanged DEF SafeInv, DiskInv
<1> QED BY <1>1, <1>7, <1>8, <1>9 DEF SafeInv, UnmodifiedInv, IndexInv, SlotsInv

LEMMA SafeNewIndex ==
    ASSUME TypeInv, SafeInv, NEW ok \in BOOLEAN, KVDB_DBObject_open_new_index(ok), ~OpenFails
    PROVE  SafeInv'
<1>1. /\ phase = "loadkeys" /\ i >= Header.EntryCount
      /\ phase' = "loadindex" /\ htObj' = HTCreate(Header.EntryCapacity) /\ i' = 0
      /\ UNCHANGED <<file, Header, IndexTable, key_arr, OffsetPtr, db_modified, fpos>>
  BY DEF KVDB_DBObject_open_new_index
<1>2. /\ Header.EntryCount \in Nat /\ Header.EntryCapacity \in Nat /\ i \in Nat
  BY DEF TypeInv, TypeOK, HeaderType
<1>3. i = Header.EntryCount
  BY <1>1, <1>2 DEF SafeInv, KeysInv
<1>4. KeysInv'
  BY <1>1, <1>3 DEF SafeInv, KeysInv, KeyLoaded, Entries
<1>5. TableInv'
  BY <1>1 DEF SafeInv, TableInv, Holds
<1>6. DiskInv'
  BY <1>1, DiskUnchanged DEF SafeInv, DiskInv
<1>7. IndexInv' /\ SlotsInv'
  <2>1. HTCreate(Header.EntryCapacity).ht_slot_used_cnt = 0
    BY <1>2, CreateType
  <2> QED BY <1>1, <1>2, <2>1 DEF IndexInv, SlotsInv
<1> QED BY <1>1, <1>4, <1>5, <1>6, <1>7 DEF SafeInv, UnmodifiedInv

(* One more entry is in the index, and at most one more slot in use. *)
LEMMA SafeLoadIndex ==
    ASSUME TypeInv, SafeInv, NEW ok \in BOOLEAN, KVDB_DBObject_open_load_index(ok),
           ~Dies("open")
    PROVE  SafeInv'
<1> SUFFICES ASSUME NEW kh, kh = IndexTable[i].KeyHash,
                    NEW ins, ins = HTInsert(htObj, kh, i, ok)
             PROVE  SafeInv'
  OBVIOUS
<1>1. /\ i < Header.EntryCount /\ phase = "loadindex" /\ ~(ins.ret < 0)
      /\ htObj' = ins.htObj /\ i' = i + 1
      /\ UNCHANGED <<phase, file, Header, IndexTable, key_arr, OffsetPtr, db_modified, fpos>>
  BY DEF KVDB_DBObject_open_load_index
<1>2. /\ Header.EntryCount \in Nat /\ Header.EntryCapacity \in Nat
      /\ Header.EntryCount <= Header.EntryCapacity /\ i \in Nat
      /\ IndexTable \in [0 .. Header.EntryCapacity - 1 -> IndexEntryType]
      /\ htObj.ht_cap \in Nat /\ htObj \in HTObject(htObj.ht_cap)
  BY DEF TypeInv, TypeOK, HeaderType
<1>3. \A n \in 0 .. Header.EntryCount - 1 : IndexTable[n].KeyHash \in Nat
  BY <1>2 DEF IndexEntryType
<1>4. i \in 0 .. Header.EntryCount - 1 /\ kh \in Nat
  BY <1>1, <1>2, <1>3
<1>5. InsertResult(htObj, kh, i, ins)
  BY <1>2, <1>4, InsertEffect
<1>6. ins.ret >= 0
  BY <1>1, <1>5 DEF InsertResult
<1>7. /\ Holding(ins.htObj, kh, i) # {}
      /\ \A x \in Nat, n \in Nat :
            Holding(htObj, x, n) # {} => Holding(ins.htObj, x, n) # {}
  BY <1>2, <1>4, <1>5, <1>6, InsertKeeps
<1>8. ASSUME NEW n \in 0 .. i PROVE Indexed(n)'
  <2>1. CASE n = i
    BY <1>1, <1>7, <2>1 DEF Indexed
  <2>2. CASE n # i
    <3>1. n \in 0 .. i - 1 /\ n \in 0 .. Header.EntryCount - 1 /\ n \in Nat
      BY <1>2, <1>4, <2>2
    <3>2. Indexed(n)
      BY <1>1, <3>1 DEF SafeInv, IndexInv
    <3> QED BY <1>1, <1>3, <1>7, <3>1, <3>2 DEF Indexed
  <2> QED BY <2>1, <2>2
<1>9. IndexInv'
  <2>1. 0 .. i' - 1 = 0 .. i /\ i' <= Header.EntryCount
    BY <1>1, <1>2, <1>4
  <2> QED BY <1>1, <1>8, <2>1 DEF IndexInv
<1>10. SlotsInv'
  <2>1. ~AllocFails => htObj.ht_slot_used_cnt <= i
    BY <1>1 DEF SafeInv, SlotsInv
  <2>2. /\ ins.htObj.ht_slot_used_cnt <= htObj.ht_slot_used_cnt + 1
        /\ htObj.ht_slot_used_cnt \in Nat /\ ins.htObj.ht_slot_used_cnt \in Nat
    BY <1>2, <1>5, <1>6 DEF InsertResult, HTObject
  <2> QED BY <1>1, <1>2, <2>1, <2>2 DEF SlotsInv
<1>11. TableInv'
  BY <1>1 DEF SafeInv, TableInv, Holds
<1>12. KeysInv'
  BY <1>1 DEF SafeInv, KeysInv, KeyLoaded, Entries
<1>13. DiskInv'
  BY <1>1, DiskUnchanged DEF SafeInv, DiskInv
<1> QED BY <1>1, <1>9, <1>10, <1>11, <1>12, <1>13 DEF SafeInv, UnmodifiedInv

LEMMA SafeOpenDone ==
    ASSUME TypeInv, SafeInv, KVDB_DBObject_open_done
    PROVE  SafeInv'
<1>1. /\ phase = "loadindex" /\ i >= Header.EntryCount
      /\ phase' = "ready" /\ OffsetPtr' = Header.IndexTableOffset
      /\ UNCHANGED <<file, Header, IndexTable, key_arr, htObj, db_modified>>
  BY DEF KVDB_DBObject_open_done
<1>2. Header.EntryCount \in Nat /\ i \in Nat
  BY DEF TypeInv, TypeOK, HeaderType
<1>3. i = Header.EntryCount
  BY <1>1, <1>2 DEF SafeInv, IndexInv
<1>4. TableInv' /\ UnmodifiedInv'
  BY <1>1 DEF SafeInv, TableInv, UnmodifiedInv, Holds
<1>5. KeysInv'
  BY <1>1 DEF SafeInv, KeysInv, KeyLoaded, Entries
<1>6. IndexInv'
  BY <1>1, <1>3 DEF SafeInv, IndexInv, Indexed, Live, Entries
<1>7. SlotsInv'
  BY <1>1, <1>3 DEF SafeInv, SlotsInv
<1>8. DiskInv'
  BY <1>1, DiskUnchanged DEF SafeInv, DiskInv
<1> QED BY <1>4, <1>5, <1>6, <1>7, <1>8 DEF SafeInv

LEMMA SafeOpenStep ==
    ASSUME TypeInv, SafeInv, OpenStep
    PROVE  SafeInv'
<1>1. PICK ok \in BOOLEAN : \/ KVDB_DBObject_open_load_keys(ok)
                            \/ KVDB_DBObject_open_new_index(ok)
                            \/ KVDB_DBObject_open_load_index(ok)
                            \/ KVDB_DBObject_open_done
  BY DEF OpenStep, AllocOutcome
<1>2. phase \in {"loadkeys", "loadindex"}
  BY <1>1 DEF KVDB_DBObject_open_load_keys, KVDB_DBObject_open_new_index,
              KVDB_DBObject_open_load_index, KVDB_DBObject_open_done
<1>3. CASE OpenFails \/ OpenReadsGarbage \/ Dies("open")
  BY <1>2, <1>3, SafeNoOpen
<1>4. CASE ~(OpenFails \/ OpenReadsGarbage \/ Dies("open"))
  BY <1>1, <1>4, SafeLoadKeys, SafeNewIndex, SafeLoadIndex, SafeOpenDone
<1> QED BY <1>3, <1>4

-----------------------------------------------------------------------------
(* The lookup. *)

(* A lookup that survives finds the live entry of a key that is not empty, or *)
(* there is none. *)
LEMMA LookupFinds ==
    ASSUME TypeInv, SafeInv, phase = "ready", NEW k \in Key, KeyLen[k] > 0,
           NEW id \in KVDB_conv_key_entry_id(k), id # FAULT
    PROVE  \/ id = -1 /\ \A n \in Live : file[IndexTable[n].Offset].key # k
           \/ id \in Live /\ file[IndexTable[id].Offset].key = k
<1> DEFINE bucket  == SlotOf(htObj, Hash[k]).bucket
           Id(p)   == bucket[p].entry_id
           Wild(p) == Id(p) = -1
           Null(p) == ~Wild(p) /\ ~key_arr[Id(p)].data
           hits    == {p \in DOMAIN bucket :
                         /\ ~Wild(p)
                         /\ key_arr[Id(p)].key = k
                         /\ "FLAG_DELETED" \notin IndexTable[Id(p)].Flags}
           passed  == {p \in DOMAIN bucket : \A q \in hits : p <= q}
           answer  == IF hits = {} THEN -1 ELSE Id(FirstOf(hits))
<1>1. htObj.ht_cap # 0
  BY DEF KVDB_conv_key_entry_id
<1>2. KeyLen[k] # 0
  BY ConstantsAssumption
<1>3. id = answer /\ ~\E p \in passed : Null(p)
  BY <1>1, <1>2 DEF KVDB_conv_key_entry_id
<1>4. /\ htObj.ht_cap \in Nat /\ htObj.ht_cap > 0 /\ Hash[k] \in Nat
      /\ htObj.ht_cap = Header.EntryCapacity
      /\ Hash[k] % htObj.ht_cap \in 0 .. htObj.ht_cap - 1
      /\ Header.EntryCount \in Nat /\ Header.EntryCapacity \in Nat
  <2>1. htObj.ht_cap \in Nat /\ htObj.ht_cap > 0 /\ Hash[k] \in Nat
    BY <1>1, SessionType, ConstantsAssumption DEF HTObject
  <2> QED BY <2>1, SessionType, SlotIndex
<1>5. /\ bucket \in Seq(HashTableEntry)
      /\ \A p \in DOMAIN bucket : Id(p) < Header.EntryCapacity
  <2>1. htObj.ht[Hash[k] % htObj.ht_cap] \in HashTableSlot
    BY <1>4, SessionType DEF HTObject
  <2> QED BY <1>4, <2>1, SessionType DEF SlotOf, HashTableSlot, IdsBelow
<1>6. \A p \in DOMAIN bucket : Id(p) \in Nat \cup {-1}
  <2>1. bucket \in Seq(HashTableEntry)
    BY <1>5
  <2> HIDE DEF bucket
  <2>2. \A p \in DOMAIN bucket : bucket[p] \in HashTableEntry
    BY <2>1
  <2> QED BY <2>2 DEF HashTableEntry
<1>7. /\ \A n \in Entries : KeyLoaded(n)
      /\ \A n \in Header.EntryCount .. Header.EntryCapacity - 1 : ~key_arr[n].data
      /\ \A n \in Live : Indexed(n)
      /\ \A n \in Entries : IndexTable[n].KeyHash = Hash[file[IndexTable[n].Offset].key]
  BY DEF SafeInv, KeysInv, IndexInv, TableInv, Chain, Describes, Entries
<1>8. CASE hits = {}
  <2>1. id = -1
    BY <1>3, <1>8
  <2>2. ASSUME NEW n \in Live, file[IndexTable[n].Offset].key = k
        PROVE  FALSE
    <3>1. n \in Entries /\ n \in Nat /\ "FLAG_DELETED" \notin IndexTable[n].Flags
      BY <1>4 DEF Live, Entries
    <3>2. IndexTable[n].KeyHash = Hash[k] /\ key_arr[n].key = k
      <4>1. key_arr[n] = [key |-> file[IndexTable[n].Offset].key, data |-> TRUE]
        BY <1>7, <3>1 DEF KeyLoaded
      <4>2. IndexTable[n].KeyHash = Hash[file[IndexTable[n].Offset].key]
        BY <1>7, <3>1
      <4> QED BY <2>2, <4>1, <4>2
    <3>3. PICK p \in Holding(htObj, Hash[k], n) : TRUE
      BY <1>7, <3>2 DEF Indexed
    <3>4. p \in DOMAIN bucket /\ Id(p) = n
      BY <3>3 DEF Holding
    <3>5. p \in hits
      <4> HIDE DEF bucket
      <4> QED BY <3>1, <3>2, <3>4
    <3> QED BY <1>8, <3>5
  <2> QED BY <2>1, <2>2
<1>9. CASE hits # {}
  <2>1. FirstOf(hits) \in hits /\ \A q \in hits : FirstOf(hits) <= q
    <3>1. hits \subseteq Nat
      BY <1>5
    <3> HIDE DEF hits
    <3> QED BY <1>9, <3>1, FirstOfIsLeast
  <2> SUFFICES ASSUME NEW p, p = FirstOf(hits), p \in hits, p \in passed, id = Id(p)
               PROVE  id \in Live /\ file[IndexTable[id].Offset].key = k
    <3>1. FirstOf(hits) \in passed /\ id = Id(FirstOf(hits))
      <4>1. FirstOf(hits) \in DOMAIN bucket
        BY <2>1
      <4> HIDE DEF hits
      <4> QED BY <1>3, <1>9, <2>1, <4>1
    <3> HIDE DEF hits, passed, bucket
    <3> QED BY <2>1, <3>1
  <2>2. /\ id # -1 /\ key_arr[id].key = k /\ "FLAG_DELETED" \notin IndexTable[id].Flags
        /\ key_arr[id].data
    <3>1. ~Null(p)
      <4> HIDE DEF passed, Null
      <4> QED BY <1>3
    <3> HIDE DEF bucket, passed
    <3> QED BY <3>1
  <2>3. id \in 0 .. Header.EntryCapacity - 1
    <3>1. p \in DOMAIN bucket
      OBVIOUS
    <3> HIDE DEF bucket, passed, hits
    <3> QED BY <1>4, <1>5, <1>6, <2>2, <3>1
  <2>4. id \in Entries
    <3> HIDE DEF bucket, passed, hits
    <3> QED BY <1>4, <1>7, <2>2, <2>3 DEF Entries
  <2>5. key_arr[id] = [key |-> file[IndexTable[id].Offset].key, data |-> TRUE]
    BY <1>7, <2>4 DEF KeyLoaded
  <2> HIDE DEF bucket, passed, hits
  <2> QED BY <2>2, <2>4, <2>5 DEF Live
<1> QED BY <1>8, <1>9

-----------------------------------------------------------------------------
(* The operations of a session that change it. *)

(* What delete, or nothing, leaves keeps the index and the records together. *)
SafeResult(del) ==
    /\ SoundResult(del)
    /\ Same(file, IndexTable, file, del.IndexTable, Header.EntryCount)
    /\ \A n \in Entries : IsLive(del.IndexTable, n)
                             => Holding(del.htObj, IndexTable[n].KeyHash, n) # {}

LEMMA SafeDelete ==
    ASSUME TypeInv, SafeInv, phase = "ready", NEW id \in Nat, NEW del, DeleteResult(id, del)
    PROVE  SafeResult(del)
<1>1. /\ Header.EntryCount \in Nat /\ Header.EntryCapacity \in Nat
      /\ Header.EntryCount <= Header.EntryCapacity
      /\ \A n \in Entries : n \in 0 .. Header.EntryCapacity - 1 /\ n \in Nat
      /\ \A n \in Entries : IndexTable[n].KeyHash \in Nat
  <2>1. \A n \in Entries : n \in 0 .. Header.EntryCapacity - 1 /\ n \in Nat
    BY SessionType DEF Entries
  <2>2. \A n \in 0 .. Header.EntryCapacity - 1 : IndexTable[n] \in IndexEntryType
    BY SessionType
  <2> QED BY <2>1, <2>2, SessionType DEF IndexEntryType
<1>2. SoundResult(del)
  BY DEF DeleteResult
<1>3. /\ \A n \in Live : Indexed(n)
      /\ \A n \in Entries : IndexTable[n].Offset \in DOMAIN file
  BY DEF SafeInv, IndexInv, TableInv, Chain, Describes, Entries, Holds
<1>4. \A n \in Entries : IsLive(del.IndexTable, n) => n \in Live
  BY <1>1, <1>2 DEF SoundResult, Live, IsLive
<1>5. Same(file, IndexTable, file, del.IndexTable, Header.EntryCount)
  BY <1>1, <1>2, <1>3, <1>4 DEF Same, SoundResult, Entries, Live, IsLive
<1>6. ASSUME NEW n \in Entries, IsLive(del.IndexTable, n)
      PROVE  Holding(del.htObj, IndexTable[n].KeyHash, n) # {}
  <2>1. Holding(htObj, IndexTable[n].KeyHash, n) # {}
    BY <1>3, <1>4, <1>6 DEF Indexed
  <2>2. CASE n # id
    BY <1>1, <2>1, <2>2 DEF DeleteResult
  <2>3. CASE n = id
    <3>1. del.ret < 0
      BY <1>2, <1>6, <2>3 DEF DeleteResult, SoundResult
    <3> QED BY <2>1, <3>1 DEF DeleteResult
  <2> QED BY <2>2, <2>3
<1> QED BY <1>2, <1>5, <1>6 DEF SafeResult

LEMMA SafeNoDelete ==
    ASSUME TypeInv, SafeInv, phase = "ready", NEW r \in Int
    PROVE  SafeResult(Unchanged(r))
<1>1. Unchanged(r).IndexTable = IndexTable /\ Unchanged(r).htObj = htObj
  BY DEF Unchanged
<1>2. SoundResult(Unchanged(r))
  BY UnchangedSound
<1>3. /\ \A n \in Live : Indexed(n)
      /\ \A n \in Entries : IndexTable[n].Offset \in DOMAIN file
  BY DEF SafeInv, IndexInv, TableInv, Chain, Describes, Entries, Holds
<1> HIDE DEF Unchanged
<1> QED BY <1>1, <1>2, <1>3 DEF SafeResult, Same, Indexed, Entries, Live, IsLive

(* A session that goes on with such a result, adds no entry and keeps the    *)
(* records it has.                                                           *)
LEMMA SafeSession ==
    ASSUME TypeInv, SafeInv, phase = "ready", phase' = "ready",
           NEW del, SafeResult(del),
           Header' = del.Header, IndexTable' = del.IndexTable, UNCHANGED OffsetPtr,
           \A kh \in Nat, n \in Nat :
              Holding(del.htObj, kh, n) # {} => Holding(htObj', kh, n) # {},
           ~AllocFails => htObj'.ht_slot_used_cnt <= Header.EntryCount,
           Same(file, IndexTable, file', IndexTable, Header.EntryCount),
           \A n \in Entries : key_arr'[n] = key_arr[n],
           \A n \in Header.EntryCount .. Header.EntryCapacity - 1 : ~key_arr'[n].data,
           DiskInv', UnmodifiedInv'
    PROVE  SafeInv'
<1>1. /\ Header.EntryCount \in Nat /\ Header.EntryCapacity \in Nat
      /\ Header'.EntryCount = Header.EntryCount
      /\ Header'.EntryCapacity = Header.EntryCapacity
      /\ Header'.IndexTableOffset = Header.IndexTableOffset
  BY SessionType DEF SafeResult, SoundResult
<1>2. Same(file, IndexTable, file', IndexTable', Header.EntryCount)
  BY DEF Same, SafeResult
<1>3. /\ Chain(file, IndexTable, Header.EntryCount, Header.IndexTableOffset)
      /\ OneLive(file, IndexTable, Header.EntryCount)
      /\ OffsetPtr = Header.IndexTableOffset
  BY DEF SafeInv, TableInv
<1>4. TableInv'
  <2> SUFFICES ASSUME NEW U, U = IndexTable', NEW g, g = file'
               PROVE  /\ Chain(g, U, Header.EntryCount, Header.IndexTableOffset)
                      /\ OneLive(g, U, Header.EntryCount)
    BY <1>1, <1>3 DEF TableInv
  <2>1. Same(file, IndexTable, g, U, Header.EntryCount)
    BY <1>2
  <2> QED BY <1>1, <1>3, <2>1, ChainSame, OneLiveSame
<1>5. KeysInv'
  <2>1. Entries' = Entries
    BY <1>1 DEF Entries
  <2>2. ASSUME NEW n \in Entries PROVE KeyLoaded(n)'
    <3>1. KeyLoaded(n)
      BY DEF SafeInv, KeysInv
    <3>2. /\ IndexTable'[n].Offset = IndexTable[n].Offset
          /\ file'[IndexTable[n].Offset] = file[IndexTable[n].Offset]
      BY <1>2 DEF Same, Entries
    <3> QED BY <3>1, <3>2 DEF KeyLoaded
  <2> QED BY <1>1, <2>1, <2>2 DEF KeysInv
<1>6. IndexInv'
  <2>1. ASSUME NEW n \in Live' PROVE Indexed(n)'
    <3>1. n \in Entries /\ IsLive(del.IndexTable, n)
      BY <1>1 DEF Live, Entries, IsLive
    <3>2. n \in Nat /\ n \in 0 .. Header.EntryCapacity - 1
      BY <3>1, SessionType DEF Entries
    <3>3. IndexTable[n].KeyHash \in Nat
      BY <3>2, SessionType DEF IndexEntryType
    <3>4. Holding(del.htObj, IndexTable[n].KeyHash, n) # {}
      BY <3>1 DEF SafeResult
    <3>5. IndexTable'[n].KeyHash = IndexTable[n].KeyHash
      BY <1>2, <3>1 DEF Same, Entries
    <3> QED BY <3>2, <3>3, <3>4, <3>5 DEF Indexed
  <2> QED BY <2>1 DEF IndexInv
<1>7. SlotsInv'
  BY <1>1 DEF SlotsInv
<1> QED BY <1>4, <1>5, <1>6, <1>7 DEF SafeInv

(* Nothing is written in delete. *)
LEMMA SafeAfterDelete ==
    ASSUME TypeInv, SafeInv, phase = "ready", NEW id \in Nat, NEW op, NEW result,
           NEW del, DeleteResult(id, del), AfterDelete(op, result, del)
    PROVE  SafeInv'
<1>1. SafeResult(del) /\ SoundResult(del)
  BY SafeDelete DEF DeleteResult
<1>2. /\ Header' = del.Header /\ IndexTable' = del.IndexTable /\ htObj' = del.htObj
      /\ db_modified' = del.db_modified
      /\ UNCHANGED <<phase, file, key_arr, OffsetPtr>>
  BY DEF AfterDelete
<1>3. DiskInv' /\ UnmodifiedInv'
  <2>1. ~db_modified' => ~db_modified
    BY <1>1, <1>2, Zenon DEF SoundResult
  <2>2. DiskInv'
    BY <1>2, <2>1, DiskUnchanged DEF SafeInv, DiskInv
  <2>3. UnmodifiedInv'
    BY <1>2, <2>1 DEF SafeInv, UnmodifiedInv, Holds
  <2> QED BY <2>2, <2>3
<1>4. /\ \A n \in Entries : key_arr'[n] = key_arr[n]
      /\ \A n \in Header.EntryCount .. Header.EntryCapacity - 1 : ~key_arr'[n].data
  BY <1>2 DEF SafeInv, KeysInv
<1>5. ~AllocFails => htObj'.ht_slot_used_cnt <= Header.EntryCount
  BY <1>1, <1>2 DEF SafeInv, SlotsInv, SoundResult
<1>6. Same(file, IndexTable, file', IndexTable, Header.EntryCount)
  BY <1>2 DEF Same, SafeInv, TableInv, Chain, Describes, Holds
<1>7. phase' = "ready" /\ UNCHANGED OffsetPtr
      /\ \A kh \in Nat, n \in Nat :
            Holding(del.htObj, kh, n) # {} => Holding(htObj', kh, n) # {}
  BY <1>2
<1> QED BY <1>1, <1>2, <1>3, <1>4, <1>5, <1>6, <1>7, SafeSession

(* The cells that a write at the end of the chain of an unmodified session    *)
(* leaves: the table it overwrites is not there any more.                     *)
LEMMA TornDisk ==
    ASSUME TypeInv, SafeInv, phase = "ready", ~db_modified, NEW k \in Key,
           NEW g, g = Write(file, OffsetPtr, TornCell(k))
    PROVE  /\ Holds(g, 0, "header") /\ g[0] = file[0]
           /\ ~Holds(g, OffsetPtr, "index")
<1>1. CellsOK(file) /\ CellOK(TornCell(k)) /\ OffsetPtr \in Nat
  BY CellsWritten, SessionType DEF TypeInv, FileOK
<1>2. /\ 0 \in DOMAIN file /\ file[0].kind = "header" /\ CellOK(file[0])
      /\ HEADER_SIZE <= OffsetPtr
  BY <1>1 DEF SafeInv, UnmodifiedInv, TableInv, Chain, Holds, CellsOK
<1>3. SizeOf(file[0]) = HEADER_SIZE
  BY <1>2, SizeOfCell
<1>4. 0 # OffsetPtr /\ 0 + SizeOf(file[0]) <= OffsetPtr
  BY <1>1, <1>2, <1>3, SizesPositive
<1>5. /\ OffsetPtr \in DOMAIN g /\ g[OffsetPtr] = TornCell(k)
      /\ \A x \in DOMAIN file :
            /\ x # OffsetPtr
            /\ x + SizeOf(file[x]) <= OffsetPtr \/ OffsetPtr + SizeOf(TornCell(k)) <= x
            => x \in DOMAIN g /\ g[x] = file[x]
  BY <1>1, WriteEffect
<1> QED BY <1>2, <1>4, <1>5 DEF Holds, TornCell

(* put when the index refuses the entry or there is no memory for the key. *)
LEMMA SafePutFails ==
    ASSUME TypeInv, SafeInv, phase = "ready", Header.EntryCount < Header.EntryCapacity,
           NEW k \in Key, NEW n, n = Header.EntryCount, NEW del, SafeResult(del),
           NEW ins, InsertResult(del.htObj, Hash[k], n, ins),
           phase' = "ready", htObj' = ins.htObj, db_modified' = del.db_modified,
           \/ ins.ret < 0 /\ NotIndexed(del)
           \/ ins.ret >= 0 /\ AllocFails /\ Torn(k, n, del)
    PROVE  SafeInv'
<1>1. /\ n \in Nat /\ Header.EntryCapacity \in Nat /\ n < Header.EntryCapacity
      /\ DOMAIN key_arr = 0 .. Header.EntryCapacity - 1
      /\ OffsetPtr \in Nat /\ CellsOK(file) /\ Hash[k] \in Nat
  BY SessionType, ConstantsAssumption DEF TypeInv, TypeOK, FileOK
<1>2. SoundResult(del)
  BY DEF SafeResult
<1>3. del.htObj.ht_cap \in Nat /\ del.htObj \in HTObject(del.htObj.ht_cap)
  BY <1>2, SessionType DEF SoundResult
<1>4. ~db_modified' => ~db_modified
  BY <1>2, Zenon DEF SoundResult
<1>5. /\ \A m \in Entries : KeyLoaded(m)
      /\ \A m \in Header.EntryCount .. Header.EntryCapacity - 1 : ~key_arr[m].data
      /\ Chain(file, IndexTable, Header.EntryCount, OffsetPtr)
  BY DEF SafeInv, KeysInv, TableInv
<1>6. CASE ins.ret < 0 /\ NotIndexed(del)
  <2>1. /\ Header' = del.Header /\ IndexTable' = del.IndexTable
        /\ UNCHANGED <<file, key_arr, OffsetPtr>>
    BY <1>6 DEF NotIndexed
  <2>2. htObj' = del.htObj
    BY <1>6 DEF InsertResult
  <2>3. DiskInv'
    BY <1>4, <2>1, DiskUnchanged DEF SafeInv, DiskInv
  <2>4. UnmodifiedInv'
    BY <1>4, <2>1 DEF SafeInv, UnmodifiedInv, Holds
  <2>5. ~AllocFails => htObj'.ht_slot_used_cnt <= Header.EntryCount
    BY <1>2, <2>2 DEF SafeInv, SlotsInv, SoundResult
  <2>6. Same(file, IndexTable, file', IndexTable, Header.EntryCount)
    BY <1>5, <2>1 DEF Same, Chain, Describes, Holds
  <2>7. \A kh \in Nat, m \in Nat :
           Holding(del.htObj, kh, m) # {} => Holding(htObj', kh, m) # {}
    BY <2>2
  <2>8. /\ \A m \in Entries : key_arr'[m] = key_arr[m]
        /\ \A m \in Header.EntryCount .. Header.EntryCapacity - 1 : ~key_arr'[m].data
    BY <1>5, <2>1
  <2> QED BY <2>1, <2>3, <2>4, <2>5, <2>6, <2>7, <2>8, SafeSession
<1>7. CASE ins.ret >= 0 /\ AllocFails /\ Torn(k, n, del)
  <2>1. /\ Header' = del.Header /\ IndexTable' = del.IndexTable
        /\ key_arr' = [key_arr EXCEPT ![n] = [key |-> k, data |-> FALSE]]
        /\ file' = Write(file, OffsetPtr, TornCell(k))
        /\ UNCHANGED OffsetPtr
    BY <1>7 DEF Torn
  <2>2. /\ \A m \in Entries : key_arr'[m] = key_arr[m]
        /\ \A m \in Header.EntryCount .. Header.EntryCapacity - 1 : ~key_arr'[m].data
    BY <1>1, <1>5, <2>1 DEF Entries
  <2>3. Same(file, IndexTable, file', IndexTable, Header.EntryCount)
    <3>1. CellOK(TornCell(k)) /\ Header.EntryCount \in Nat /\ OffsetPtr <= OffsetPtr
      BY <1>1, CellsWritten
    <3>2. Same(file, IndexTable, Write(file, OffsetPtr, TornCell(k)), IndexTable,
               Header.EntryCount)
      BY <1>1, <1>5, <3>1, WriteBehind
    <3> QED BY <2>1, <3>2
  <2>4. \A kh \in Nat, m \in Nat :
           Holding(del.htObj, kh, m) # {} => Holding(htObj', kh, m) # {}
    BY <1>1, <1>3, <1>7, InsertKeeps
  <2>5. ASSUME ~db_modified
        PROVE  /\ Holds(file', 0, "header") /\ file'[0] = file[0]
               /\ ~Holds(file', OffsetPtr, "index")
               /\ file[0].hdr.IndexTableOffset = OffsetPtr
    <3>1. file[0].hdr.IndexTableOffset = OffsetPtr
      BY <2>5 DEF SafeInv, UnmodifiedInv
    <3> QED BY <2>1, <2>5, <3>1, TornDisk
  <2>6. UnmodifiedInv'
    BY <1>4, <2>1, <2>5 DEF UnmodifiedInv
  <2>7. ASSUME ~db_modified PROVE DiskOK'
    <3>1. DiskOK /\ Holds(file, 0, "header")
      BY <2>7 DEF SafeInv, DiskInv, UnmodifiedInv
    <3>2. CASE file[0].hdr.EntryCount > 0
      BY <2>5, <2>7, <3>2 DEF DiskOK, DiskTableThere
    <3>3. CASE ~(file[0].hdr.EntryCount > 0)
      <4>1. DiskTableThere
        BY <3>1, <3>3 DEF DiskTableThere
      <4>2. file[0].hdr.EntryCount = 0 => file[0].hdr.IndexTableOffset = HEADER_SIZE
        BY <3>1, <4>1 DEF DiskOK
      <4> QED BY <2>5, <2>7, <3>3, <4>2 DEF DiskOK
    <3> QED BY <3>2, <3>3
  <2>8. DiskInv'
    BY <1>4, <2>7 DEF DiskInv
  <2> QED BY <1>7, <2>1, <2>2, <2>3, <2>4, <2>6, <2>8, SafeSession
<1> QED BY <1>6, <1>7

(* put when everything succeeds: one more record at the end, one more entry    *)
(* that describes it, and if its key is not empty no other live one of it.     *)
LEMMA SafeAppended ==
    ASSUME TypeInv, SafeInv, phase = "ready", Header.EntryCount < Header.EntryCapacity,
           NEW k \in Key, NEW v \in Val, NEW n, n = Header.EntryCount,
           NEW del, SafeResult(del),
           KeyLen[k] > 0 => \A m \in Entries : IsLive(del.IndexTable, m)
                                                => file[IndexTable[m].Offset].key # k,
           NEW ins, InsertResult(del.htObj, Hash[k], n, ins), ins.ret >= 0,
           phase' = "ready", htObj' = ins.htObj, db_modified' = TRUE,
           NEW rec, rec = RecordCell(k, v), Appended(k, n, del, rec)
    PROVE  SafeInv'
<1>1. /\ n \in Nat /\ Header.EntryCapacity \in Nat /\ n < Header.EntryCapacity
      /\ n \in 0 .. Header.EntryCapacity - 1
      /\ DOMAIN key_arr = 0 .. Header.EntryCapacity - 1
      /\ OffsetPtr \in Nat /\ CellsOK(file) /\ Hash[k] \in Nat
      /\ Header.EntryCount \in Nat
  BY SessionType, ConstantsAssumption DEF TypeInv, TypeOK, FileOK
<1>2. SoundResult(del)
  BY DEF SafeResult
<1>3. del.htObj.ht_cap \in Nat /\ del.htObj \in HTObject(del.htObj.ht_cap)
  BY <1>2, SessionType DEF SoundResult
<1>4. /\ CellOK(rec) /\ SizeOf(rec) \in Nat /\ rec.kind = "record" /\ rec.key = k
  <2>1. CellOK(rec)
    BY CellsWritten
  <2> QED BY <2>1, SizeOfCell DEF RecordCell
<1>5. /\ \A m \in Entries : KeyLoaded(m)
      /\ \A m \in Header.EntryCount .. Header.EntryCapacity - 1 : ~key_arr[m].data
      /\ Chain(file, IndexTable, Header.EntryCount, OffsetPtr)
      /\ OneLive(file, IndexTable, Header.EntryCount)
      /\ OffsetPtr = Header.IndexTableOffset
  BY DEF SafeInv, KeysInv, TableInv
<1>6. /\ Header'.EntryCount = n + 1 /\ Header'.EntryCapacity = Header.EntryCapacity
      /\ Header'.IndexTableOffset = OffsetPtr + SizeOf(rec)
      /\ OffsetPtr' = OffsetPtr + SizeOf(rec)
      /\ key_arr' = [key_arr EXCEPT ![n] = [key |-> k, data |-> TRUE]]
      /\ file' = Write(file, OffsetPtr, rec)
  BY <1>2, <1>5 DEF Appended, SoundResult
<1>7. /\ IndexTable'[n].Offset = OffsetPtr /\ IndexTable'[n].KeyHash = Hash[k]
      /\ \A m \in 0 .. n - 1 : IndexTable'[m] = del.IndexTable[m]
  <2>1. DOMAIN del.IndexTable = 0 .. Header.EntryCapacity - 1
    BY <1>2 DEF SoundResult
  <2>2. IndexTable' = [del.IndexTable EXCEPT
                         ![n] = [KeyHash |-> Hash[k],
                                 Flags   |-> del.IndexTable[n].Flags \cup {"FLAG_VALID"},
                                 Offset  |-> OffsetPtr]]
    BY DEF Appended
  <2> QED BY <1>1, <2>1, <2>2
<1>8. 0 .. n - 1 = Entries /\ 0 .. (n + 1) - 1 = 0 .. n
      /\ \A m \in 0 .. n : m \in 0 .. n - 1 \/ m = n
  BY <1>1 DEF Entries
<1>9. /\ Holds(file', OffsetPtr, "record") /\ file'[OffsetPtr] = rec
  <2>1. /\ OffsetPtr \in DOMAIN Write(file, OffsetPtr, rec)
        /\ Write(file, OffsetPtr, rec)[OffsetPtr] = rec
    BY <1>1, <1>4, WriteEffect
  <2>2. OffsetPtr \in DOMAIN file' /\ file'[OffsetPtr] = rec
    BY <1>6, <2>1
  <2> QED BY <1>4, <2>2 DEF Holds
<1>10. Same(file, IndexTable, file', IndexTable', n)
  <2>1. Same(file, IndexTable, Write(file, OffsetPtr, rec), IndexTable, Header.EntryCount)
    <3>1. OffsetPtr <= OffsetPtr
      BY <1>1
    <3> QED BY <1>1, <1>4, <1>5, <3>1, WriteBehind
  <2>2. Same(file, IndexTable, file, del.IndexTable, Header.EntryCount)
    BY DEF SafeResult
  <2> QED BY <1>6, <1>7, <2>1, <2>2 DEF Same, IsLive
<1>11. TableInv'
  <2> SUFFICES ASSUME NEW U, U = IndexTable', NEW g, g = file',
                      NEW end, end = OffsetPtr + SizeOf(rec)
               PROVE  Chain(g, U, n + 1, end) /\ OneLive(g, U, n + 1)
    BY <1>6 DEF TableInv
  <2>1. /\ Same(file, IndexTable, g, U, n)
        /\ U[n].Offset = OffsetPtr /\ U[n].KeyHash = Hash[k]
        /\ Holds(g, OffsetPtr, "record") /\ g[OffsetPtr] = rec
    BY <1>7, <1>9, <1>10
  <2>2. Chain(g, U, n, OffsetPtr) /\ OneLive(g, U, n)
    BY <1>1, <1>5, <2>1, ChainSame, OneLiveSame
  <2>3. end \in Nat /\ OffsetPtr <= end /\ HEADER_SIZE <= OffsetPtr /\ HEADER_SIZE <= end
    <3>1. HEADER_SIZE <= OffsetPtr
      BY <1>5 DEF Chain
    <3> QED BY <1>1, <1>4, <3>1, SizesPositive
  <2>4. U[0].Offset = HEADER_SIZE
    BY <1>1, <2>1, <2>2 DEF Chain
  <2>5. ASSUME NEW m \in 0 .. n
        PROVE  /\ Describes(g, U, m)
               /\ EndOf(g, U, m) <= end
               /\ EndOf(g, U, m) = IF m + 1 < n + 1 THEN U[m + 1].Offset ELSE end
    <3>1. CASE m = n
      <4>1. Describes(g, U, m)
        BY <1>4, <2>1, <2>3, <3>1 DEF Describes
      <4>2. EndOf(g, U, m) = end
        BY <2>1, <3>1 DEF EndOf
      <4> QED BY <1>1, <2>3, <3>1, <4>1, <4>2
    <3>2. CASE m \in 0 .. n - 1
      <4>1. /\ Describes(g, U, m)
            /\ EndOf(g, U, m) <= OffsetPtr
            /\ EndOf(g, U, m) = IF m + 1 < n THEN U[m + 1].Offset ELSE OffsetPtr
        BY <2>2, <3>2 DEF Chain
      <4>2. EndOf(g, U, m) \in Nat
        <5>1. U[m].Offset \in DOMAIN g /\ CellsOK(g)
          BY <1>1, <1>4, <1>6, <4>1, WriteEffect DEF Describes, Holds
        <5>2. SizeOf(g[U[m].Offset]) \in Nat /\ U[m].Offset \in Nat
          BY <5>1, SizeOfCell DEF CellsOK
        <5> QED BY <5>2 DEF EndOf
      <4>3. EndOf(g, U, m) <= end
        BY <1>1, <2>3, <4>1, <4>2
      <4>4. EndOf(g, U, m) = IF m + 1 < n + 1 THEN U[m + 1].Offset ELSE end
        <5>1. m + 1 < n + 1
          BY <1>1, <3>2
        <5>2. m + 1 < n \/ m + 1 = n
          BY <1>1, <3>2
        <5>3. CASE m + 1 < n
          BY <4>1, <5>1, <5>3
        <5>4. CASE m + 1 = n
          <6>1. ~(m + 1 < n)
            BY <1>1, <5>4
          <6> QED BY <2>1, <4>1, <5>1, <5>4, <6>1
        <5> QED BY <5>2, <5>3, <5>4
      <4> QED BY <4>1, <4>3, <4>4
    <3> QED BY <1>8, <3>1, <3>2
  <2>6. Chain(g, U, n + 1, end)
    <3>1. n + 1 # 0 /\ 0 .. (n + 1) - 1 = 0 .. n
      BY <1>1
    <3> QED BY <2>3, <2>4, <2>5, <3>1 DEF Chain
  <2>7. ASSUME NEW m \in 0 .. n - 1, IsLive(U, m), KeyLen[k] > 0
        PROVE  g[U[m].Offset].key # k
    <3>1. IsLive(del.IndexTable, m)
      BY <1>7, <2>7 DEF IsLive
    <3>2. file[IndexTable[m].Offset].key # k
      BY <1>8, <2>7, <3>1
    <3> QED BY <2>1, <3>2 DEF Same
  <2>8. OneLive(g, U, n + 1)
    <3> SUFFICES ASSUME NEW m \in 0 .. n, NEW l \in 0 .. n, IsLive(U, m), IsLive(U, l),
                        g[U[m].Offset].key = g[U[l].Offset].key,
                        KeyLen[g[U[m].Offset].key] > 0
                 PROVE  m = l
      BY <1>8 DEF OneLive
    <3>1. g[U[n].Offset].key = k
      BY <1>4, <2>1
    <3>2. CASE m = n /\ l \in 0 .. n - 1
      BY <2>7, <3>1, <3>2
    <3>3. CASE l = n /\ m \in 0 .. n - 1
      BY <2>7, <3>1, <3>3
    <3>4. CASE m \in 0 .. n - 1 /\ l \in 0 .. n - 1
      BY <2>2, <3>4 DEF OneLive
    <3> QED BY <1>8, <3>2, <3>3, <3>4
  <2> QED BY <2>6, <2>8
<1>12. KeysInv'
  <2>1. ASSUME NEW m \in 0 .. n PROVE KeyLoaded(m)'
    <3>1. CASE m = n
      BY <1>1, <1>4, <1>6, <1>7, <1>9, <3>1 DEF KeyLoaded
    <3>2. CASE m \in 0 .. n - 1
      <4>1. KeyLoaded(m)
        BY <1>5, <1>8, <3>2
      <4>2. key_arr'[m] = key_arr[m]
        BY <1>1, <1>6, <3>2
      <4>3. /\ IndexTable'[m].Offset = IndexTable[m].Offset
            /\ file'[IndexTable[m].Offset] = file[IndexTable[m].Offset]
        BY <1>10, <3>2 DEF Same
      <4> QED BY <4>1, <4>2, <4>3 DEF KeyLoaded
    <3> QED BY <1>8, <3>1, <3>2
  <2>2. ASSUME NEW m \in n + 1 .. Header.EntryCapacity - 1 PROVE ~key_arr'[m].data
    BY <1>1, <1>5, <1>6
  <2> QED BY <1>6, <1>8, <2>1, <2>2 DEF KeysInv, Entries
<1>13. IndexInv'
  <2>1. ASSUME NEW m \in Live' PROVE Indexed(m)'
    <3>1. m \in 0 .. n /\ IsLive(IndexTable', m)
      BY <1>6, <1>8 DEF Live, Entries, IsLive
    <3>2. /\ Holding(ins.htObj, Hash[k], n) # {}
          /\ \A x \in Nat, l \in Nat :
                Holding(del.htObj, x, l) # {} => Holding(ins.htObj, x, l) # {}
      BY <1>1, <1>3, InsertKeeps
    <3>3. CASE m = n
      BY <1>7, <3>2, <3>3 DEF Indexed
    <3>4. CASE m \in 0 .. n - 1
      <4>1. m \in Entries /\ IsLive(del.IndexTable, m) /\ m \in Nat
        <5>1. IndexTable'[m] = del.IndexTable[m]
          BY <1>7, <3>4
        <5>2. m \in Entries /\ m \in Nat
          BY <1>1, <1>8, <3>4
        <5> QED BY <3>1, <5>1, <5>2 DEF IsLive
      <4>2. Holding(del.htObj, IndexTable[m].KeyHash, m) # {}
        BY <4>1 DEF SafeResult
      <4>3. IndexTable'[m].KeyHash = IndexTable[m].KeyHash
        BY <1>10, <3>4 DEF Same
      <4>4. IndexTable[m].KeyHash \in Nat
        <5>1. m \in 0 .. Header.EntryCapacity - 1
          BY <1>1, <3>4
        <5> QED BY <5>1, SessionType DEF IndexEntryType
      <4> QED BY <3>2, <4>1, <4>2, <4>3, <4>4 DEF Indexed
    <3> QED BY <1>8, <3>1, <3>3, <3>4
  <2> QED BY <2>1 DEF IndexInv
<1>14. SlotsInv'
  <2>1. /\ ins.htObj.ht_slot_used_cnt <= htObj.ht_slot_used_cnt + 1
        /\ htObj.ht_slot_used_cnt \in Nat /\ ins.htObj.ht_slot_used_cnt \in Nat
    BY <1>2, <1>3, SessionType DEF InsertResult, SoundResult, HTObject
  <2>2. ~AllocFails => htObj.ht_slot_used_cnt <= n
    BY DEF SafeInv, SlotsInv
  <2> QED BY <1>1, <1>6, <2>1, <2>2 DEF SlotsInv
<1> QED BY <1>11, <1>12, <1>13, <1>14 DEF SafeInv, DiskInv, UnmodifiedInv

(* put: the old entry is deleted, if there is one, and the new one appended. *)
LEMMA SafePut ==
    ASSUME TypeInv, SafeInv, phase = "ready", NEW k \in Key, NEW v \in Val,
           NEW rok \in BOOLEAN, NEW mok \in AllocOutcome, NEW id,
           PutAppends(k, v, id, rok, mok)
    PROVE  SafeInv'
<1> SUFFICES ASSUME NEW del, del = DeleteOld(id),
                    NEW n, n = del.Header.EntryCount,
                    NEW ins, ins = HTInsert(del.htObj, Hash[k], n, rok),
                    NEW rec, rec = RecordCell(k, v),
                    AppendStep(k, n, del, ins, rec, mok)
             PROVE  SafeInv'
  BY DEF PutAppends, Append_
<1>1. /\ id \in KVDB_conv_key_entry_id(k) /\ id # FAULT /\ ~(del.ret < 0)
      /\ Header.EntryCount < Header.EntryCapacity
  BY DEF PutAppends, Accepts
<1>2. id \in {-1} \cup 0 .. Header.EntryCapacity - 1
  BY <1>1, LookupRange
<1>3. SafeResult(del) /\ (id >= 0 => id \in Nat /\ DeleteResult(id, del))
  <2>1. CASE id >= 0
    <3>1. id \in Nat
      BY <1>2, <2>1, SessionType
    <3>2. DeleteResult(id, del)
      BY <2>1, <3>1, DeleteEntryEffect DEF DeleteOld
    <3> QED BY <3>1, <3>2, SafeDelete
  <2>2. CASE ~(id >= 0)
    BY <2>2, SafeNoDelete DEF DeleteOld
  <2> QED BY <2>1, <2>2
<1>4. n = Header.EntryCount /\ n \in Nat /\ Hash[k] \in Nat /\ SoundResult(del)
  <2>1. SoundResult(del)
    BY <1>3 DEF SafeResult
  <2> QED BY <2>1, SessionType, ConstantsAssumption DEF SoundResult
<1>5. InsertResult(del.htObj, Hash[k], n, ins)
  <2>1. del.htObj.ht_cap \in Nat /\ del.htObj \in HTObject(del.htObj.ht_cap)
    BY <1>4, SessionType DEF SoundResult
  <2> QED BY <1>4, <2>1, InsertEffect
<1>6. ASSUME KeyLen[k] > 0, NEW m \in Entries, IsLive(del.IndexTable, m)
      PROVE  file[IndexTable[m].Offset].key # k
  <2>1. m \in Live
    <3>1. m \in 0 .. Header.EntryCapacity - 1
      BY SessionType DEF Entries
    <3> QED BY <1>4, <1>6, <3>1 DEF SoundResult, Live, IsLive
  <2>2. CASE id = -1
    <3>1. id \notin Live
      BY <2>2 DEF Live, Entries
    <3> QED BY <1>1, <1>6, <2>1, <3>1, LookupFinds
  <2>3. CASE id # -1
    <3>1. id \in Live /\ file[IndexTable[id].Offset].key = k
      BY <1>1, <1>6, <2>3, LookupFinds
    <3>2. id >= 0
      BY <3>1, SessionType DEF Live, Entries
    <3>3. ~IsLive(del.IndexTable, id)
      BY <1>1, <1>3, <1>4, <3>2 DEF DeleteResult, SoundResult
    <3>4. ASSUME file[IndexTable[m].Offset].key = k PROVE m = id
      <4>1. OneLive(file, IndexTable, Header.EntryCount)
        BY DEF SafeInv, TableInv
      <4> QED BY <1>6, <2>1, <3>1, <3>4, <4>1 DEF OneLive, Live, Entries, IsLive
    <3> QED BY <1>6, <3>3, <3>4
  <2> QED BY <2>2, <2>3
<1>7. phase' = "ready" /\ htObj' = ins.htObj
  BY DEF AppendStep
<1>8. CASE ins.ret < 0 /\ NotIndexed(del) /\ db_modified' = del.db_modified
  BY <1>1, <1>3, <1>4, <1>5, <1>7, <1>8, SafePutFails
<1>9. CASE ins.ret >= 0 /\ ~mok /\ Torn(k, n, del) /\ db_modified' = del.db_modified
  <2>1. AllocFails
    BY <1>9 DEF AllocOutcome
  <2> QED BY <1>1, <1>3, <1>4, <1>5, <1>7, <1>9, <2>1, SafePutFails
<1>10. CASE ins.ret >= 0 /\ mok /\ Appended(k, n, del, rec) /\ db_modified' = TRUE
  BY <1>1, <1>3, <1>4, <1>5, <1>6, <1>7, <1>10, SafeAppended
<1> QED BY <1>8, <1>9, <1>10 DEF AppendStep

-----------------------------------------------------------------------------
(* close. *)

(* The file that close writes describes the session. *)
LEMMA CloseWrites ==
    ASSUME TypeInv, SafeInv, phase = "ready",
           NEW f, f = Write(WriteDBIndexTable(file), EOFOffset, EOFCell),
           NEW g, g = WriteDBFileHeader(f)
    PROVE  /\ Holds(g, 0, "header")
           /\ g[0].hdr.EntryCount = Header.EntryCount
           /\ g[0].hdr.IndexTableOffset = Header.IndexTableOffset
           /\ Same(file, IndexTable, g, IndexTable, Header.EntryCount)
           /\ Header.EntryCount > 0 =>
                 /\ Header.IndexTableOffset \in DOMAIN g
                 /\ g[Header.IndexTableOffset] = IndexCell(Header.EntryCount, IndexTable)
<1> SUFFICES ASSUME NEW count, count = Header.EntryCount,
                    NEW at, at = Header.IndexTableOffset,
                    NEW idx, idx = IndexCell(count, IndexTable),
                    NEW t, t = WriteDBIndexTable(file),
                    NEW h, h = [Header EXCEPT !.EOFHeaderOffset = EOFOffset],
                    NEW e, e = EOFOffset
             PROVE  /\ Holds(g, 0, "header")
                    /\ g[0].hdr.EntryCount = count
                    /\ g[0].hdr.IndexTableOffset = at
                    /\ Same(file, IndexTable, g, IndexTable, count)
                    /\ count > 0 => at \in DOMAIN g /\ g[at] = idx
  OBVIOUS
<1>1. /\ count \in Nat /\ at \in Nat /\ CellsOK(file) /\ CellOK(idx) /\ CellOK(EOFCell)
      /\ Chain(file, IndexTable, count, at) /\ HEADER_SIZE <= at /\ HEADER_SIZE > 0
      /\ HEADER_SIZE \in Nat
  <2>1. CellOK(idx)
    BY SessionType, CellsWritten
  <2>2. Chain(file, IndexTable, count, at)
    BY DEF SafeInv, TableInv
  <2> QED BY <2>1, <2>2, SessionType, CellsWritten, SizesPositive DEF TypeInv, FileOK, Chain
<1>2. /\ e \in Nat /\ at <= e /\ e = at + count * INDEX_ENTRY_SIZE
  <2>1. \A x, y, z \in Nat : x + y * z \in Nat /\ x <= x + y * z
    OBVIOUS
  <2> QED BY <1>1, <2>1, SizesPositive DEF EOFOffset
<1>3. SizeOf(idx) = count * INDEX_ENTRY_SIZE /\ (count > 0 => SizeOf(idx) > 0)
      /\ SizeOf(idx) \in Nat
  <2>1. idx.kind = "index" /\ idx.count = count
    BY DEF IndexCell
  <2> QED BY <1>1, <2>1, SizeOfCell
<1>4. /\ CellsOK(t) /\ Same(file, IndexTable, t, IndexTable, count)
      /\ count > 0 => at \in DOMAIN t /\ t[at] = idx
  <2>1. CASE count = 0
    BY <1>1, <2>1 DEF WriteDBIndexTable, Same
  <2>2. CASE count # 0
    <3>1. t = Write(file, at, idx)
      BY <2>2 DEF WriteDBIndexTable
    <3>2. at <= at
      BY <1>1
    <3>3. Same(file, IndexTable, Write(file, at, idx), IndexTable, count)
      BY <1>1, <3>2, WriteBehind
    <3>4. /\ CellsOK(Write(file, at, idx))
          /\ at \in DOMAIN Write(file, at, idx) /\ Write(file, at, idx)[at] = idx
      BY <1>1, WriteEffect
    <3> QED BY <3>1, <3>3, <3>4
  <2> QED BY <2>1, <2>2
<1>5. /\ CellsOK(f) /\ Same(file, IndexTable, f, IndexTable, count)
      /\ count > 0 => at \in DOMAIN f /\ f[at] = idx
  <2>1. f = Write(t, e, EOFCell)
    OBVIOUS
  <2>2. /\ CellsOK(f)
        /\ \A q \in DOMAIN t :
              /\ q # e
              /\ q + SizeOf(t[q]) <= e \/ e + SizeOf(EOFCell) <= q
              => q \in DOMAIN f /\ f[q] = t[q]
    <3>1. CellsOK(t) /\ e \in Nat /\ CellOK(EOFCell)
      BY <1>1, <1>2, <1>4
    <3> QED BY <2>1, <3>1, WriteEffect
  <2>3. Chain(t, IndexTable, count, at)
    BY <1>1, <1>4, ChainSame
  <2>4. Same(t, IndexTable, Write(t, e, EOFCell), IndexTable, count)
    BY <1>1, <1>2, <1>4, <2>3, WriteBehind
  <2>5. ASSUME count > 0 PROVE at \in DOMAIN f /\ f[at] = idx
    <3>1. at # e /\ at + SizeOf(idx) <= e
      <4>1. \A x, y, z \in Nat : z = x + y /\ y > 0 => x # z /\ x + y <= z
        OBVIOUS
      <4>2. count * INDEX_ENTRY_SIZE \in Nat /\ count * INDEX_ENTRY_SIZE > 0
        BY <1>3, <2>5
      <4> QED BY <1>1, <1>2, <1>3, <4>1, <4>2
    <3> QED BY <1>4, <2>1, <2>2, <2>5, <3>1
  <2> QED BY <1>4, <2>1, <2>2, <2>4, <2>5, SameTrans
<1>6. /\ h \in HeaderType /\ h.EntryCount = count /\ h.IndexTableOffset = at
      /\ CellOK(HeaderCell(h)) /\ SizeOf(HeaderCell(h)) = HEADER_SIZE
  <2>1. h \in HeaderType /\ h.EntryCount = count /\ h.IndexTableOffset = at
        /\ h.EntryCount <= h.EntryCapacity
    BY <1>2, SessionType DEF HeaderType
  <2>2. CellOK(HeaderCell(h))
    BY <2>1, CellsWritten
  <2>3. SizeOf(HeaderCell(h)) = HEADER_SIZE
    BY <2>2, SizeOfCell DEF HeaderCell
  <2> QED BY <2>1, <2>2, <2>3
<1>7. g = Write(f, 0, HeaderCell(h))
  BY DEF WriteDBFileHeader
<1>8. /\ 0 \in DOMAIN g /\ g[0] = HeaderCell(h)
      /\ \A q \in DOMAIN f :
            /\ q # 0
            /\ q + SizeOf(f[q]) <= 0 \/ 0 + SizeOf(HeaderCell(h)) <= q
            => q \in DOMAIN g /\ g[q] = f[q]
  <2>1. 0 \in Nat
    OBVIOUS
  <2> QED BY <1>5, <1>6, <1>7, <2>1, WriteEffect
<1>9. Same(file, IndexTable, g, IndexTable, count)
  <2>1. Chain(f, IndexTable, count, at)
    BY <1>1, <1>5, ChainSame
  <2>2. Same(f, IndexTable, Write(f, 0, HeaderCell(h)), IndexTable, count)
    BY <1>1, <1>5, <1>6, <2>1, WriteHeader
  <2> QED BY <1>5, <1>7, <2>2, SameTrans
<1>10. ASSUME count > 0 PROVE at \in DOMAIN g /\ g[at] = idx
  <2>1. at # 0 /\ 0 + SizeOf(HeaderCell(h)) <= at
    BY <1>1, <1>6
  <2> QED BY <1>5, <1>8, <1>10, <2>1
<1>11. g[0].hdr = h /\ g[0].kind = "header"
  BY <1>8 DEF HeaderCell
<1> QED BY <1>6, <1>8, <1>9, <1>10, <1>11 DEF Holds

LEMMA SafeClose ==
    ASSUME TypeInv, SafeInv, KVDB_DBObject_close
    PROVE  SafeInv'
<1>1. phase = "ready" /\ phase' = "closed" /\ NoSession
  BY DEF KVDB_DBObject_close
<1>2. CASE ~db_modified
  <2>1. DiskOK /\ file' = file
    BY <1>1, <1>2 DEF SafeInv, DiskInv, KVDB_DBObject_close
  <2> QED BY <1>1, <2>1, DiskUnchanged, SafeLeave
<1>3. CASE db_modified
  <2> SUFFICES ASSUME NEW g, g = file' PROVE DiskOK'
    BY <1>1, SafeLeave
  <2> SUFFICES ASSUME NEW count, count = Header.EntryCount,
                      NEW at, at = Header.IndexTableOffset
               PROVE  DiskOK'
    OBVIOUS
  <2>1. g = WriteDBFileHeader(Write(WriteDBIndexTable(file), EOFOffset, EOFCell))
    BY <1>3 DEF KVDB_DBObject_close
  <2>2. /\ g[0].hdr.EntryCount = count
        /\ g[0].hdr.IndexTableOffset = at
        /\ Same(file, IndexTable, g, IndexTable, count)
        /\ count > 0 => g[at] = IndexCell(count, IndexTable)
    BY <1>1, <2>1, CloseWrites
  <2>3. /\ Chain(file, IndexTable, count, at) /\ OneLive(file, IndexTable, count)
        /\ count \in Nat
    BY <1>1, SessionType DEF SafeInv, TableInv
  <2>4. count = 0 => at = HEADER_SIZE
    BY <2>3 DEF Chain
  <2>5. ASSUME count > 0, NEW U, U = IndexCell(count, IndexTable).table
        PROVE  Chain(g, U, count, at) /\ OneLive(g, U, count)
    <3>1. \A n \in 0 .. count - 1 : U[n] = IndexTable[n]
      BY <2>5 DEF IndexCell
    <3>2. Same(file, IndexTable, g, U, count)
      BY <2>2, <3>1 DEF Same, IsLive
    <3> QED BY <2>3, <3>2, ChainSame, OneLiveSame
  <2>6. count > 0 => Chain(g, g[at].table, count, at) /\ OneLive(g, g[at].table, count)
    BY <2>2, <2>5
  <2> QED BY <2>2, <2>4, <2>6 DEF DiskOK, DiskTable
<1> QED BY <1>2, <1>3

-----------------------------------------------------------------------------
(* The invariant, and what it gives. *)

LEMMA SafeStep == TypeInv /\ SafeInv /\ [Next]_vars => SafeInv'
<1> SUFFICES ASSUME TypeInv, SafeInv, StepKind PROVE SafeInv'
  BY Steps
<1>1. CASE UNCHANGED <<phase, file, DBObject, i, fpos>>
  BY <1>1, SafeUnchanged
<1>2. ASSUME NEW cap \in Caps, NEW ok \in BOOLEAN, KVDB_DBObject_create(cap, ok)
      PROVE  SafeInv'
  BY <1>2, SafeCreate
<1>3. ASSUME NEW ok \in BOOLEAN, KVDB_DBObject_open(ok) PROVE SafeInv'
  BY <1>3, SafeOpen
<1>4. CASE OpenStep
  BY <1>4, SafeOpenStep
<1>5. CASE \E op : Dies(op)
  BY <1>5, SafeNoOpen
<1>6. ASSUME NEW id \in Nat, NEW op, NEW result, phase = "ready",
             AfterDelete(op, result, DeleteEntry(id))
      PROVE  SafeInv'
  BY <1>6, DeleteEntryEffect, SafeAfterDelete
<1>7. ASSUME NEW k \in Key, NEW v \in Val, NEW rok \in BOOLEAN, NEW mok \in AllocOutcome,
             NEW id, phase = "ready", PutAppends(k, v, id, rok, mok)
      PROVE  SafeInv'
  BY <1>7, SafePut
<1>8. CASE KVDB_DBObject_close
  BY <1>8, SafeClose
<1>9. AllocOutcome \subseteq BOOLEAN
  BY DEF AllocOutcome
<1> QED BY <1>1, <1>2, <1>3, <1>4, <1>5, <1>6, <1>7, <1>8, <1>9 DEF StepKind

(* The invariant holds in every reachable state: what is in memory, in the    *)
(* index and in the file agree, through every loop of open, every failing     *)
(* allocation and every close (kvdb.c 61-367).                                *)
THEOREM InvariantHolds == Spec => []IInv
<1>1. Init => IInv
  BY TypeInit, SafeInit DEF IInv
<1>2. IInv /\ [Next]_vars => IInv'
  BY TypeStep, SafeStep DEF IInv
<1> QED BY <1>1, <1>2, PTL DEF Spec

(* At most one entry of a key that is not empty is live, in any session: put  *)
(* never leaves an older value behind that a later deletion would bring back  *)
(* (kvdb.c 290-298).                                                          *)
THEOREM OneEntryPerKey == Spec => []OneLiveEntryPerKey
<1>1. IInv => OneLiveEntryPerKey
  <2> SUFFICES ASSUME SafeInv, phase = "ready"
               PROVE  \A m, n \in Live : /\ key_arr[m].key = key_arr[n].key
                                         /\ KeyLen[key_arr[m].key] > 0
                                         => m = n
    BY DEF IInv, OneLiveEntryPerKey
  <2>1. \A n \in Live : /\ n \in 0 .. Header.EntryCount - 1
                        /\ IsLive(IndexTable, n)
                        /\ key_arr[n].key = file[IndexTable[n].Offset].key
    <3> SUFFICES ASSUME NEW n \in Live
                 PROVE  /\ n \in 0 .. Header.EntryCount - 1
                        /\ IsLive(IndexTable, n)
                        /\ key_arr[n].key = file[IndexTable[n].Offset].key
      OBVIOUS
    <3>1. n \in Entries /\ IsLive(IndexTable, n)
      BY DEF Live, IsLive
    <3>2. KeyLoaded(n)
      BY <3>1 DEF SafeInv, KeysInv
    <3> QED BY <3>1, <3>2 DEF KeyLoaded, Entries
  <2>2. OneLive(file, IndexTable, Header.EntryCount)
    BY DEF SafeInv, TableInv
  <2> QED BY <2>1, <2>2 DEF OneLive
<1> QED BY <1>1, InvariantHolds, PTL

(* Every live entry stays in the bucket of its hash, whatever tombstones,     *)
(* growing buckets and reopened files surround it (kvdb.c 201-208, 349).      *)
THEOREM EntriesStayIndexed == Spec => []LiveEntriesIndexed
<1>1. IInv => LiveEntriesIndexed
  BY DEF IInv, SafeInv, IndexInv, Indexed, LiveEntriesIndexed
<1> QED BY <1>1, InvariantHolds, PTL

(* The index table points at intact records whose keys are those in memory    *)
(* (kvdb.c 107-143, 311).                                                     *)
THEOREM RecordsStayIntact == Spec => []RecordsIntact
<1>1. IInv => RecordsIntact
  <2> SUFFICES ASSUME SafeInv, phase = "ready", NEW n \in Entries
               PROVE  /\ Holds(file, IndexTable[n].Offset, "record")
                      /\ file[IndexTable[n].Offset].key = key_arr[n].key
                      /\ IndexTable[n].KeyHash = Hash[key_arr[n].key]
    BY DEF IInv, RecordsIntact
  <2>1. Describes(file, IndexTable, n)
    BY DEF SafeInv, TableInv, Chain, Entries
  <2>2. KeyLoaded(n)
    BY DEF SafeInv, KeysInv
  <2> QED BY <2>1, <2>2 DEF Describes, KeyLoaded
<1> QED BY <1>1, InvariantHolds, PTL

(* Records lie one behind the other, and the next one goes where the last      *)
(* ends (kvdb.c 210, 332-335).                                                *)
THEOREM RecordsAreContiguous == Spec => []AppendsAtTheEnd
<1>1. IInv => AppendsAtTheEnd
  <2> SUFFICES ASSUME TypeInv, SafeInv, phase = "ready"
               PROVE  /\ OffsetPtr = Header.IndexTableOffset
                      /\ \A n \in Entries :
                            IndexTable[n].Offset + SizeOf(file[IndexTable[n].Offset]) =
                               IF n + 1 \in Entries THEN IndexTable[n + 1].Offset
                                                    ELSE OffsetPtr
    BY DEF IInv, AppendsAtTheEnd
  <2>1. /\ OffsetPtr = Header.IndexTableOffset
        /\ Chain(file, IndexTable, Header.EntryCount, OffsetPtr)
    BY DEF SafeInv, TableInv
  <2>2. ASSUME NEW n \in Entries
        PROVE  n + 1 \in Entries <=> n + 1 < Header.EntryCount
    BY SessionType DEF Entries
  <2> QED BY <2>1, <2>2 DEF Chain, EndOf, Entries
<1> QED BY <1>1, InvariantHolds, PTL

(* While allocations succeed the index has a free slot whenever the database   *)
(* has a free entry; a put is never refused by the index                       *)
(* (hash_index.c 97-100 against kvdb.c 272).                                   *)
THEOREM IndexNeverFullFirst == ~AllocFails => (Spec => []IndexFullOnlyWhenDBFull)
<1> SUFFICES ASSUME ~AllocFails PROVE Spec => []IndexFullOnlyWhenDBFull
  OBVIOUS
<1>1. IInv => IndexFullOnlyWhenDBFull
  <2> SUFFICES ASSUME TypeInv, SafeInv, phase = "ready",
                      Header.EntryCount < Header.EntryCapacity
               PROVE  htObj.ht_slot_used_cnt < htObj.ht_cap
    BY DEF IInv, IndexFullOnlyWhenDBFull
  <2>1. htObj.ht_slot_used_cnt <= Header.EntryCount
    BY DEF SafeInv, SlotsInv
  <2>2. htObj.ht_slot_used_cnt \in Nat /\ htObj.ht_cap = Header.EntryCapacity
    BY SessionType DEF HTObject
  <2> QED BY <2>1, <2>2, SessionType
<1> QED BY <1>1, InvariantHolds, PTL

(* What put leaves untouched. *)
EntriesKept ==
    \A n \in Entries :
       /\ n < Header'.EntryCount
       /\ IndexTable'[n].Offset = IndexTable[n].Offset
       /\ file'[IndexTable[n].Offset] = file[IndexTable[n].Offset]
       /\ key_arr'[n] = key_arr[n]
       /\ "FLAG_DELETED" \in IndexTable[n].Flags => "FLAG_DELETED" \in IndexTable'[n].Flags

LEMMA PutKeeps ==
    ASSUME TypeInv, SafeInv, phase = "ready", NEW k \in Key, NEW v \in Val,
           NEW rok \in BOOLEAN, NEW mok \in AllocOutcome, NEW id,
           PutAppends(k, v, id, rok, mok)
    PROVE  EntriesKept
<1> SUFFICES ASSUME NEW del, del = DeleteOld(id),
                    NEW c, c = del.Header.EntryCount,
                    NEW rec, rec = RecordCell(k, v),
                    NEW ins, AppendStep(k, c, del, ins, rec, mok)
             PROVE  EntriesKept
  BY DEF PutAppends, Append_
<1>1. SoundResult(del)
  <2>1. id \in {FAULT, -1} \cup 0 .. Header.EntryCapacity - 1
    BY LookupRange DEF PutAppends
  <2>2. CASE id >= 0
    <3>1. id \in Nat
      BY <2>1, <2>2, SessionType DEF FAULT
    <3> QED BY <2>2, <3>1, DeleteEntryEffect DEF DeleteOld, DeleteResult
  <2>3. CASE ~(id >= 0)
    BY <2>3, UnchangedSound DEF DeleteOld
  <2> QED BY <2>2, <2>3
<1>2. /\ c = Header.EntryCount /\ c \in Nat /\ Header.EntryCapacity \in Nat
      /\ c < Header.EntryCapacity
      /\ OffsetPtr \in Nat /\ CellsOK(file)
      /\ DOMAIN key_arr = 0 .. Header.EntryCapacity - 1
      /\ DOMAIN del.IndexTable = 0 .. Header.EntryCapacity - 1
      /\ Chain(file, IndexTable, c, OffsetPtr)
  BY <1>1, SessionType DEF SoundResult, TypeInv, TypeOK, FileOK, SafeInv, TableInv,
                           PutAppends, Accepts
<1>3. \A n \in Entries : n \in 0 .. Header.EntryCapacity - 1 /\ n # c /\ n \in 0 .. c - 1
                         /\ n < c /\ n < c + 1
  BY <1>2 DEF Entries
<1>4. ASSUME NEW n \in Entries
      PROVE  /\ del.IndexTable[n].Offset = IndexTable[n].Offset
             /\ "FLAG_DELETED" \in IndexTable[n].Flags
                   => "FLAG_DELETED" \in del.IndexTable[n].Flags
  BY <1>1, <1>3 DEF SoundResult, IsLive
<1>5. ASSUME NEW cell, CellOK(cell), file' = Write(file, OffsetPtr, cell), NEW n \in Entries
      PROVE  file'[IndexTable[n].Offset] = file[IndexTable[n].Offset]
  <2>1. OffsetPtr <= OffsetPtr
    BY <1>2
  <2>2. Same(file, IndexTable, Write(file, OffsetPtr, cell), IndexTable, c)
    BY <1>2, <1>5, <2>1, WriteBehind
  <2> QED BY <1>3, <1>5, <2>2 DEF Same
<1>6. CASE NotIndexed(del)
  BY <1>2, <1>3, <1>4, <1>6 DEF NotIndexed, EntriesKept
<1>7. CASE Torn(k, c, del)
  <2>1. CellOK(TornCell(k))
    BY CellsWritten
  <2>2. /\ Header' = del.Header /\ IndexTable' = del.IndexTable
        /\ key_arr' = [key_arr EXCEPT ![c] = [key |-> k, data |-> FALSE]]
        /\ file' = Write(file, OffsetPtr, TornCell(k))
    BY <1>7 DEF Torn
  <2>3. \A n \in Entries : key_arr'[n] = key_arr[n]
    BY <1>2, <1>3, <2>2
  <2>4. \A n \in Entries : file'[IndexTable[n].Offset] = file[IndexTable[n].Offset]
    BY <1>5, <2>1, <2>2
  <2> QED BY ZenonT(60), <1>2, <1>3, <1>4, <2>2, <2>3, <2>4 DEF EntriesKept
<1>8. CASE Appended(k, c, del, rec)
  <2>1. CellOK(rec)
    BY CellsWritten
  <2>2. /\ Header'.EntryCount = c + 1
        /\ key_arr' = [key_arr EXCEPT ![c] = [key |-> k, data |-> TRUE]]
        /\ file' = Write(file, OffsetPtr, rec)
        /\ \A n \in Entries : IndexTable'[n] = del.IndexTable[n]
    BY <1>2, <1>3, <1>8 DEF Appended
  <2>3. \A n \in Entries : key_arr'[n] = key_arr[n]
    BY <1>2, <1>3, <2>2
  <2>4. \A n \in Entries : file'[IndexTable[n].Offset] = file[IndexTable[n].Offset]
    BY <1>5, <2>1, <2>2
  <2> QED BY <1>3, <1>4, <2>2, <2>3, <2>4 DEF EntriesKept
<1> QED BY <1>6, <1>7, <1>8 DEF AppendStep

(* Within a session no call moves, overwrites or revives an entry             *)
(* (kvdb.c 268-367).                                                          *)
THEOREM NothingIsOverwritten == Spec => EntriesAreForever
<1>1. ASSUME IInv, [Next]_vars, phase = "ready", phase' = "ready"
      PROVE  EntriesKept
  <2>1. TypeInv /\ SafeInv /\ StepKind
    BY <1>1, Steps DEF IInv
  <2>2. \A n \in Entries : n < Header.EntryCount /\ n \in 0 .. Header.EntryCapacity - 1
    BY <1>1, <2>1, SessionType DEF Entries
  <2>3. CASE UNCHANGED <<phase, file, DBObject, i, fpos>>
    BY <2>2, <2>3 DEF EntriesKept, DBObject
  <2>4. ASSUME NEW id \in Nat, NEW op, NEW result, AfterDelete(op, result, DeleteEntry(id))
        PROVE  EntriesKept
    <3> SUFFICES ASSUME NEW del, SoundResult(del), AfterDelete(op, result, del)
                 PROVE  EntriesKept
      BY <1>1, <2>1, <2>4, DeleteEntryEffect DEF DeleteResult
    <3> QED BY <2>2 DEF AfterDelete, SoundResult, EntriesKept, IsLive
  <2>5. ASSUME NEW k \in Key, NEW v \in Val, NEW rok \in BOOLEAN, NEW mok \in AllocOutcome,
               NEW id, PutAppends(k, v, id, rok, mok)
        PROVE  EntriesKept
    BY <1>1, <2>1, <2>5, PutKeeps
  <2>6. ~(OpenStep \/ KVDB_DBObject_close)
    BY <1>1 DEF OpenStep, KVDB_DBObject_open_load_keys, KVDB_DBObject_open_new_index,
                KVDB_DBObject_open_load_index, KVDB_DBObject_open_done, KVDB_DBObject_close
  <2>7. /\ ~\E cap \in Caps, ok \in AllocOutcome : KVDB_DBObject_create(cap, ok)
        /\ ~\E ok \in AllocOutcome : KVDB_DBObject_open(ok)
        /\ ~\E op : Dies(op)
    BY <1>1 DEF KVDB_DBObject_create, KVDB_DBObject_open, Dies
  <2> QED BY <2>1, <2>3, <2>4, <2>5, <2>6, <2>7 DEF StepKind
<1>2. IInv /\ [Next]_vars
      => [phase = "ready" /\ phase' = "ready" =>
            \A n \in Entries :
             /\ n < Header'.EntryCount
             /\ IndexTable'[n].Offset = IndexTable[n].Offset
             /\ file'[IndexTable[n].Offset] = file[IndexTable[n].Offset]
             /\ key_arr'[n] = key_arr[n]
             /\ "FLAG_DELETED" \in IndexTable[n].Flags =>
                   "FLAG_DELETED" \in IndexTable'[n].Flags]_vars
  BY <1>1 DEF EntriesKept
<1> QED BY <1>2, InvariantHolds, PTL DEF Spec, EntriesAreForever

-----------------------------------------------------------------------------
(* Files that end somewhere. *)

(* A write that ends no later keeps the end. *)
LEMMA WithinWrite ==
    ASSUME NEW f, NEW end, Within(f, end), NEW o, NEW c, o + SizeOf(c) <= end
    PROVE  Within(Write(f, o, c), end)
BY DEF Within, Write

(* What ends before a place ends before every later one. *)
LEMMA WithinMore ==
    ASSUME NEW f, CellsOK(f), NEW end \in Nat, Within(f, end), NEW later \in Nat, end <= later
    PROVE  Within(f, later)
<1> SUFFICES ASSUME NEW o \in DOMAIN f PROVE o + SizeOf(f[o]) <= later
  BY DEF Within
<1>1. o \in Nat /\ SizeOf(f[o]) \in Nat /\ o + SizeOf(f[o]) <= end
  BY SizeOfCell DEF CellsOK, Within
<1>2. \A x, y \in Nat : x + y <= end => x + y <= later
  OBVIOUS
<1> QED BY <1>1, <1>2

(* The end of a session's file is a place behind its records. *)
LEMMA EndType ==
    ASSUME TypeInv, SafeInv, phase = "ready"
    PROVE  /\ FileEnd(Header) \in Nat /\ EOFOffset \in Nat /\ Header.IndexTableOffset \in Nat
           /\ Header.EntryCount \in Nat /\ Header.EntryCount * INDEX_ENTRY_SIZE \in Nat
           /\ HEADER_SIZE <= Header.IndexTableOffset
           /\ EOFOffset = Header.IndexTableOffset + Header.EntryCount * INDEX_ENTRY_SIZE
           /\ FileEnd(Header) = EOFOffset + EOF_SIZE
           /\ Header.IndexTableOffset <= EOFOffset /\ EOFOffset <= FileEnd(Header)
           /\ HEADER_SIZE <= EOFOffset /\ HEADER_SIZE <= FileEnd(Header)
<1>1. Header.IndexTableOffset \in Nat /\ Header.EntryCount \in Nat
  BY SessionType
<1>2. HEADER_SIZE <= Header.IndexTableOffset
  BY DEF SafeInv, TableInv, Chain
<1>3. Header.EntryCount * INDEX_ENTRY_SIZE \in Nat
  <2>1. \A x, y \in Nat : x * y \in Nat
    OBVIOUS
  <2> QED BY <1>1, <2>1, SizesPositive
<1>4. \A h, x, y, z \in Nat : h <= x => /\ x + y \in Nat /\ x + y + z \in Nat
                                        /\ x <= x + y /\ x + y <= x + y + z
                                        /\ h <= x + y /\ h <= x + y + z
  OBVIOUS
<1> QED BY <1>1, <1>2, <1>3, <1>4, SizesPositive DEF FileEnd, EOFOffset

-----------------------------------------------------------------------------
(* The steps. *)

(* In the beginning there is no file. *)
LEMMA EndInit == Init => EndInv
BY DEF Init, EndInv, Within, EmptyFile, Holds

(* A step that leaves the file alone and does not answer for open. *)
LEMMA EndSame ==
    ASSUME EndInv, NotOpen, UNCHANGED <<phase, file>>,
           Header'.IndexTableOffset = Header.IndexTableOffset,
           Header'.EntryCount = Header.EntryCount,
           db_modified' \in {db_modified, TRUE}
    PROVE  EndInv'
<1> SUFFICES ASSUME ~AllocFails PROVE EndInv'
  BY DEF EndInv
<1>1. ClosedFile' <=> ClosedFile
  BY DEF ClosedFile, DiskTableThere, FileEnd
<1>2. FileEnd(Header') = FileEnd(Header)
  BY DEF FileEnd
<1>3. HasEmptyKey' <=> HasEmptyKey
  BY DEF HasEmptyKey
<1>4. ret'.op = "open" /\ ret'.id = -1 => ret.op = "open" /\ ret.id = -1
  BY DEF NotOpen
<1>5. /\ phase # "garbage"
      /\ phase \in {"closed", "loadkeys", "loadindex"} /\ Holds(file, 0, "header") => ClosedFile
      /\ phase = "ready" /\ ~db_modified => ClosedFile
      /\ phase = "ready" => Within(file, FileEnd(Header))
      /\ ret.op = "open" /\ ret.id = -1 => ~Holds(file, 0, "header") \/ HasEmptyKey
  BY DEF EndInv
<1>6. /\ phase' # "garbage"
      /\ phase' \in {"closed", "loadkeys", "loadindex"} /\ Holds(file', 0, "header") => ClosedFile'
      /\ phase' = "ready" /\ ~db_modified' => ClosedFile'
      /\ phase' = "ready" => Within(file', FileEnd(Header'))
      /\ ret'.op = "open" /\ ret'.id = -1 => ~Holds(file', 0, "header") \/ HasEmptyKey'
  BY <1>1, <1>2, <1>3, <1>4, <1>5
<1> QED BY <1>6 DEF EndInv

(* While there is no session, or open has not finished, only the file and the  *)
(* answer of open matter.                                                       *)
LEMMA EndLoading ==
    ASSUME EndInv, phase \in {"closed", "loadkeys", "loadindex"}, UNCHANGED file,
           phase' \in {"closed", "loadkeys", "loadindex"},
           ret' = ret \/ ~Holds(file, 0, "header") \/ HasEmptyKey
    PROVE  EndInv'
<1> SUFFICES ASSUME ~AllocFails PROVE EndInv'
  BY DEF EndInv
<1>1. (ClosedFile' <=> ClosedFile) /\ (HasEmptyKey' <=> HasEmptyKey)
  BY DEF ClosedFile, DiskTableThere, FileEnd, HasEmptyKey
<1>2. /\ Holds(file, 0, "header") => ClosedFile
      /\ ret.op = "open" /\ ret.id = -1 => ~Holds(file, 0, "header") \/ HasEmptyKey
  BY DEF EndInv
<1>3. /\ phase' # "garbage" /\ phase' # "ready"
      /\ Holds(file', 0, "header") => ClosedFile'
      /\ ret'.op = "open" /\ ret'.id = -1 => ~Holds(file', 0, "header") \/ HasEmptyKey'
  BY <1>1, <1>2
<1> QED BY <1>3 DEF EndInv

(* create empties the file. *)
LEMMA EndCreate ==
    ASSUME NEW cap, KVDB_DBObject_create(cap, TRUE)
    PROVE  EndInv'
<1>1. /\ phase' = "ready" /\ file' = EmptyFile /\ db_modified' = TRUE /\ ret'.op = "create"
  BY DEF KVDB_DBObject_create, Returns
<1>2. Within(file', FileEnd(Header'))
  BY <1>1 DEF Within, EmptyFile
<1> QED BY <1>1, <1>2 DEF EndInv

(* open finds the index table, or no header. *)
LEMMA EndOpen ==
    ASSUME EndInv, ~AllocFails, KVDB_DBObject_open(TRUE)
    PROVE  EndInv'
<1>1. CASE ~Holds(file, 0, "header")
  BY <1>1, EndLoading DEF KVDB_DBObject_open, OpenFails
<1>2. CASE Holds(file, 0, "header")
  <2>1. phase = "closed" /\ DiskTableThere
    BY <1>2 DEF EndInv, KVDB_DBObject_open, ClosedFile
  <2>2. phase' = "loadkeys" /\ UNCHANGED <<file, ret>>
    BY <1>2, <2>1 DEF KVDB_DBObject_open, DiskTableThere
  <2> QED BY <2>1, <2>2, EndLoading
<1> QED BY <1>1, <1>2

(* An index with an unused slot takes an entry, if there is memory. *)
LEMMA InsertAccepted ==
    ASSUME NEW h, h.ht_cap \in Nat, h.ht_slot_used_cnt \in Nat,
           h.ht_slot_used_cnt < h.ht_cap, NEW kh \in Nat, NEW id
    PROVE  ~(HTInsert(h, kh, id, TRUE).ret < 0)
<1>1. h.ht_cap > 0 /\ ~(h.ht_slot_used_cnt >= h.ht_cap)
  OBVIOUS
<1>2. HTInsert(h, kh, id, TRUE).ret = kh % h.ht_cap
  BY <1>1 DEF HTInsert
<1>3. \A x \in Nat, y \in Nat : y > 0 => ~(x % y < 0)
  OBVIOUS
<1> QED BY <1>1, <1>2, <1>3

(* The walk over the records meets nothing else than records, and goes on      *)
(* unless a key is empty.                                                       *)
LEMMA LoadKeysGoesOn ==
    ASSUME TypeInv, SafeInv, KVDB_DBObject_open_load_keys(TRUE)
    PROVE  /\ phase = "loadkeys"
           /\ UNCHANGED <<phase, file, ret>> \/ (OpenFails /\ HasEmptyKey)
<1>1. phase = "loadkeys" /\ i < Header.EntryCount
  BY DEF KVDB_DBObject_open_load_keys
<1>2. i \in 0 .. Header.EntryCount - 1
  BY <1>1 DEF TypeInv, TypeOK, HeaderType
<1>3. Holds(file, fpos, "record")
  BY <1>1, <1>2 DEF SafeInv, TableInv, KeysInv, Chain, Describes
<1>4. CASE KeyLen[file[fpos].key] = 0
  <2>1. OpenFails
    BY <1>3, <1>4 DEF KVDB_DBObject_open_load_keys
  <2>2. HasEmptyKey
    BY <1>3, <1>4 DEF HasEmptyKey, Holds
  <2> QED BY <1>1, <2>1, <2>2
<1>5. CASE KeyLen[file[fpos].key] # 0
  <2>1. UNCHANGED <<phase, file, ret>>
    BY <1>3, <1>5 DEF KVDB_DBObject_open_load_keys
  <2> QED BY <1>1, <2>1
<1> QED BY <1>4, <1>5

(* The index that is being loaded has room for every entry. *)
LEMMA LoadIndexGoesOn ==
    ASSUME TypeInv, SafeInv, ~AllocFails, KVDB_DBObject_open_load_index(TRUE)
    PROVE  phase = "loadindex" /\ UNCHANGED <<phase, file, ret>>
<1> DEFINE kh  == IndexTable[i].KeyHash
           ins == HTInsert(htObj, kh, i, TRUE)
<1>1. phase = "loadindex" /\ i < Header.EntryCount
  BY DEF KVDB_DBObject_open_load_index
<1>2. /\ Header.EntryCount \in Nat /\ Header.EntryCapacity \in Nat
      /\ Header.EntryCount <= Header.EntryCapacity /\ i \in Nat
      /\ htObj.ht_cap = Header.EntryCapacity /\ htObj \in HTObject(htObj.ht_cap)
      /\ IndexTable \in [0 .. Header.EntryCapacity - 1 -> IndexEntryType]
  BY <1>1 DEF TypeInv, TypeOK, HeaderType, HTObjectOK
<1>3. htObj.ht_slot_used_cnt \in Nat /\ htObj.ht_slot_used_cnt <= i
  BY <1>1, <1>2 DEF SafeInv, SlotsInv, HTObject
<1>4. kh \in Nat
  BY <1>1, <1>2 DEF IndexEntryType
<1>5. ~(ins.ret < 0)
  <2>1. htObj.ht_cap \in Nat /\ htObj.ht_slot_used_cnt < htObj.ht_cap
    BY <1>1, <1>2, <1>3
  <2> HIDE DEF kh
  <2> QED BY <1>3, <1>4, <2>1, InsertAccepted
<1>6. UNCHANGED <<phase, file, ret>>
  BY <1>5 DEF KVDB_DBObject_open_load_index
<1> QED BY <1>1, <1>6

(* The loops of open. *)
LEMMA EndOpenStep ==
    ASSUME TypeInv, SafeInv, EndInv, ~AllocFails, OpenStep
    PROVE  EndInv'
<1>1. \/ KVDB_DBObject_open_load_keys(TRUE)
      \/ KVDB_DBObject_open_new_index(TRUE)
      \/ KVDB_DBObject_open_load_index(TRUE)
      \/ KVDB_DBObject_open_done
  BY DEF OpenStep, AllocOutcome
<1>2. CASE KVDB_DBObject_open_new_index(TRUE)
  BY <1>2, EndLoading DEF KVDB_DBObject_open_new_index
<1>3. CASE KVDB_DBObject_open_done
  <2>1. /\ phase = "loadindex" /\ phase' = "ready" /\ UNCHANGED <<file, Header>>
        /\ ret'.id = 0
    BY <1>3 DEF KVDB_DBObject_open_done, Returns
  <2>2. Holds(file, 0, "header") /\ file[0].hdr = Header
    BY <2>1 DEF SafeInv, TableInv
  <2>3. ClosedFile
    BY <2>1, <2>2 DEF EndInv
  <2>4. ClosedFile' /\ Within(file, FileEnd(Header))
    BY <2>1, <2>2, <2>3 DEF ClosedFile, DiskTableThere, FileEnd
  <2>5. FileEnd(Header') = FileEnd(Header)
    BY <2>1
  <2>6. Within(file', FileEnd(Header'))
    BY <2>1, <2>4, <2>5
  <2> QED BY <2>1, <2>4, <2>6 DEF EndInv
<1>4. CASE KVDB_DBObject_open_load_keys(TRUE)
  <2>1. CASE UNCHANGED <<phase, file, ret>>
    BY <1>4, <2>1, LoadKeysGoesOn, EndLoading
  <2>2. CASE OpenFails /\ HasEmptyKey
    BY <1>4, <2>2, LoadKeysGoesOn, EndLoading DEF OpenFails
  <2> QED BY <1>4, <2>1, <2>2, LoadKeysGoesOn
<1>5. CASE KVDB_DBObject_open_load_index(TRUE)
  BY <1>5, LoadIndexGoesOn, EndLoading
<1> QED BY <1>1, <1>2, <1>3, <1>4, <1>5

(* put appends at the end of the records, and makes room for another entry in   *)
(* the index table.                                                              *)
LEMMA EndPut ==
    ASSUME TypeInv, SafeInv, EndInv, ~AllocFails, phase = "ready",
           NEW k \in Key, NEW v \in Val, NEW rok \in BOOLEAN, NEW id,
           PutAppends(k, v, id, rok, TRUE)
    PROVE  EndInv'
<1> SUFFICES ASSUME NEW del, del = DeleteOld(id),
                    NEW n, n = del.Header.EntryCount,
                    NEW ins, ins = HTInsert(del.htObj, Hash[k], n, rok),
                    NEW rec, rec = RecordCell(k, v),
                    AppendStep(k, n, del, ins, rec, TRUE)
             PROVE  EndInv'
  BY DEF PutAppends, Append_
<1>1. SoundResult(del)
  <2>1. id \in {-1} \cup 0 .. Header.EntryCapacity - 1
    BY LookupRange DEF PutAppends, FAULT
  <2>2. CASE id >= 0
    <3>1. id \in Nat
      BY <2>1, <2>2, SessionType
    <3>2. DeleteResult(id, del)
      BY <2>2, <3>1, DeleteEntryEffect DEF DeleteOld
    <3> QED BY <3>2 DEF DeleteResult
  <2>3. CASE ~(id >= 0)
    BY <2>3, UnchangedSound DEF DeleteOld
  <2> QED BY <2>2, <2>3
<1>2. /\ n = Header.EntryCount /\ del.Header.IndexTableOffset = Header.IndexTableOffset
      /\ del.Header.EntryCount = Header.EntryCount
      /\ del.db_modified \in {db_modified, TRUE}
  BY <1>1 DEF SoundResult
<1>3. phase' = phase
  BY DEF AppendStep
<1>4. CASE NotIndexed(del) /\ db_modified' = del.db_modified
  <2>1. NotOpen
    BY <1>4 DEF NotIndexed, Returns, NotOpen
  <2>2. file' = file /\ Header' = del.Header
    BY <1>4 DEF NotIndexed
  <2> QED BY <1>2, <1>3, <1>4, <2>1, <2>2, EndSame
<1>5. CASE Appended(k, n, del, rec) /\ db_modified' = TRUE
  <2>1. /\ Header'.EntryCount = n + 1 /\ file' = Write(file, OffsetPtr, rec)
        /\ Header'.IndexTableOffset = Header.IndexTableOffset + SizeOf(rec)
        /\ ret'.op = "put"
    BY <1>2, <1>5 DEF Appended, Returns
  <2>2. /\ OffsetPtr = Header.IndexTableOffset /\ CellsOK(file) /\ CellOK(rec)
        /\ SizeOf(rec) \in Nat
    <3>1. CellOK(rec)
      BY CellsWritten
    <3> QED BY <3>1, SizeOfCell DEF SafeInv, TableInv, TypeInv, FileOK
  <2>3. /\ FileEnd(Header) \in Nat /\ FileEnd(Header') \in Nat
        /\ FileEnd(Header) <= FileEnd(Header')
        /\ OffsetPtr + SizeOf(rec) <= FileEnd(Header')
    <3> DEFINE o == Header.IndexTableOffset
               s == SizeOf(rec)
               m == n * INDEX_ENTRY_SIZE
    <3>1. /\ o \in Nat /\ s \in Nat /\ n \in Nat /\ m \in Nat
          /\ INDEX_ENTRY_SIZE \in Nat /\ EOF_SIZE \in Nat
      BY <1>2, <2>2, EndType, SizesPositive
    <3>2. (n + 1) * INDEX_ENTRY_SIZE = m + INDEX_ENTRY_SIZE
      BY <3>1
    <3>3. FileEnd(Header) = o + m + EOF_SIZE
      BY <1>2 DEF FileEnd
    <3>4. FileEnd(Header') = o + s + (m + INDEX_ENTRY_SIZE) + EOF_SIZE
      BY <2>1, <3>2 DEF FileEnd
    <3> HIDE DEF o, s, m
    <3>5. \A a, b, c, d, e \in Nat : /\ a + c + e \in Nat /\ a + b + (c + d) + e \in Nat
                                     /\ a + c + e <= a + b + (c + d) + e
                                     /\ a + b <= a + b + (c + d) + e
      OBVIOUS
    <3>6. OffsetPtr + SizeOf(rec) = o + s
      BY <2>2 DEF o, s
    <3> QED BY <3>1, <3>3, <3>4, <3>5, <3>6
  <2>4. Within(file', FileEnd(Header'))
    <3>1. Within(file, FileEnd(Header))
      BY DEF EndInv
    <3>2. Within(file, FileEnd(Header'))
      BY <2>2, <2>3, <3>1, WithinMore
    <3> QED BY <2>1, <2>3, <3>2, WithinWrite
  <2> QED BY <1>3, <1>5, <2>1, <2>4 DEF EndInv
<1> QED BY <1>4, <1>5 DEF AppendStep

(* close writes the index table, the marker behind it and the header.           *)
LEMMA EndClose ==
    ASSUME TypeInv, SafeInv, EndInv, KVDB_DBObject_close
    PROVE  EndInv'
<1> SUFFICES ASSUME ~AllocFails PROVE EndInv'
  BY DEF EndInv
<1>1. phase = "ready" /\ phase' = "closed" /\ ret'.op = "close"
  BY DEF KVDB_DBObject_close, Returns
<1>2. CASE ~db_modified
  <2>1. file' = file /\ ClosedFile
    BY <1>1, <1>2 DEF KVDB_DBObject_close, EndInv
  <2>2. ClosedFile'
    BY <2>1 DEF ClosedFile, DiskTableThere, FileEnd
  <2> QED BY <1>1, <2>2 DEF EndInv
<1>3. CASE db_modified
  <2> SUFFICES ASSUME NEW count, count = Header.EntryCount,
                      NEW at, at = Header.IndexTableOffset,
                      NEW e, e = EOFOffset,
                      NEW end, end = FileEnd(Header),
                      NEW idx, idx = IndexCell(count, IndexTable),
                      NEW t, t = WriteDBIndexTable(file),
                      NEW f, f = Write(t, e, EOFCell),
                      NEW h, h = [Header EXCEPT !.EOFHeaderOffset = EOFOffset],
                      NEW g, g = file'
               PROVE  EndInv'
    OBVIOUS
  <2>1. g = Write(f, 0, HeaderCell(h)) /\ g = WriteDBFileHeader(f)
    BY <1>3 DEF KVDB_DBObject_close, WriteDBFileHeader
  <2>2. /\ at \in Nat /\ e \in Nat /\ end \in Nat /\ count \in Nat
        /\ count * INDEX_ENTRY_SIZE \in Nat
        /\ e = at + count * INDEX_ENTRY_SIZE /\ end = e + EOF_SIZE
        /\ HEADER_SIZE <= e /\ HEADER_SIZE <= end /\ e <= end
    BY <1>1, EndType
  <2>3. /\ CellOK(idx) /\ SizeOf(idx) = count * INDEX_ENTRY_SIZE
        /\ CellOK(EOFCell) /\ SizeOf(EOFCell) = EOF_SIZE /\ CellsOK(file)
    <3>1. idx.kind = "index" /\ idx.count = count
      BY DEF IndexCell
    <3>2. CellOK(idx) /\ CellOK(EOFCell)
      BY <1>1, SessionType, CellsWritten
    <3>3. SizeOf(EOFCell) = EOF_SIZE
      BY DEF SizeOf, EOFCell
    <3> QED BY <3>1, <3>2, <3>3, SizeOfCell DEF TypeInv, FileOK
  <2>4. /\ h \in HeaderType /\ h.EntryCount = count /\ h.IndexTableOffset = at
        /\ h.EOFHeaderOffset = e
        /\ CellOK(HeaderCell(h)) /\ SizeOf(HeaderCell(h)) = HEADER_SIZE
    <3>1. /\ h \in HeaderType /\ h.EntryCount = count /\ h.IndexTableOffset = at
          /\ h.EntryCount <= h.EntryCapacity /\ h.EOFHeaderOffset = e
      BY <1>1, <2>2, SessionType DEF HeaderType
    <3>2. CellOK(HeaderCell(h))
      BY <3>1, CellsWritten
    <3>3. SizeOf(HeaderCell(h)) = HEADER_SIZE
      BY <3>2, SizeOfCell DEF HeaderCell
    <3> QED BY <3>1, <3>2, <3>3
  <2>5. Within(t, end) /\ CellsOK(t)
    <3>1. Within(file, end)
      BY <1>1 DEF EndInv
    <3>2. CASE count = 0
      BY <2>3, <3>1, <3>2 DEF WriteDBIndexTable
    <3>3. CASE count # 0
      <4>1. t = Write(file, at, idx)
        BY <3>3 DEF WriteDBIndexTable
      <4>2. at + SizeOf(idx) <= end
        BY <2>2, <2>3
      <4>3. Within(Write(file, at, idx), end)
        BY <3>1, <4>2, WithinWrite
      <4>4. CellsOK(Write(file, at, idx))
        BY <2>2, <2>3, WriteEffect
      <4> QED BY <4>1, <4>3, <4>4
    <3> QED BY <3>2, <3>3
  <2>6. Within(f, end) /\ CellsOK(f) /\ e \in DOMAIN f /\ f[e] = EOFCell
    <3>1. e + SizeOf(EOFCell) <= end
      BY <2>2, <2>3, SizesPositive
    <3>2. Within(Write(t, e, EOFCell), end)
      BY <2>5, <3>1, WithinWrite
    <3>3. /\ CellsOK(Write(t, e, EOFCell))
          /\ e \in DOMAIN Write(t, e, EOFCell) /\ Write(t, e, EOFCell)[e] = EOFCell
      BY <2>2, <2>3, <2>5, WriteEffect
    <3> QED BY <3>2, <3>3
  <2>7. Within(g, end)
    <3>1. 0 + SizeOf(HeaderCell(h)) <= end
      BY <2>2, <2>4, SizesPositive
    <3> QED BY <2>1, <2>6, <3>1, WithinWrite
  <2>8. /\ 0 \in DOMAIN g /\ g[0] = HeaderCell(h)
        /\ \A q \in DOMAIN f :
              /\ q # 0
              /\ q + SizeOf(f[q]) <= 0 \/ 0 + SizeOf(HeaderCell(h)) <= q
              => q \in DOMAIN g /\ g[q] = f[q]
    <3>1. 0 \in Nat
      OBVIOUS
    <3>2. CellsOK(f) /\ CellOK(HeaderCell(h))
      BY <2>4, <2>6
    <3>3. /\ 0 \in DOMAIN Write(f, 0, HeaderCell(h))
          /\ Write(f, 0, HeaderCell(h))[0] = HeaderCell(h)
          /\ \A q \in DOMAIN f :
                /\ q # 0
                /\ q + SizeOf(f[q]) <= 0 \/ 0 + SizeOf(HeaderCell(h)) <= q
                => /\ q \in DOMAIN Write(f, 0, HeaderCell(h))
                   /\ Write(f, 0, HeaderCell(h))[q] = f[q]
      <4> HIDE DEF HeaderCell
      <4> QED BY <3>1, <3>2, WriteEffect
    <3> QED BY <2>1, <3>3, Zenon
  <2>9. e \in DOMAIN g /\ g[e] = EOFCell
    <3>1. e # 0 /\ 0 + SizeOf(HeaderCell(h)) <= e
      BY <2>2, <2>4, SizesPositive
    <3> QED BY <2>6, <2>8, <3>1
  <2>10. /\ g[0].hdr = h /\ Holds(g, 0, "header") /\ Holds(g, e, "eof")
    BY <2>8, <2>9 DEF HeaderCell, Holds, EOFCell
  <2>11. count > 0 => Holds(g, at, "index") /\ g[at].count = count
    <3>1. count > 0 => at \in DOMAIN g /\ g[at] = idx
      <4>1. f = Write(WriteDBIndexTable(file), EOFOffset, EOFCell)
        OBVIOUS
      <4> QED BY <1>1, <2>1, <4>1, CloseWrites
    <3> QED BY <3>1 DEF Holds, IndexCell
  <2>12. FileEnd(h) = end
    BY <2>2, <2>4 DEF FileEnd
  <2>13. ClosedFile'
    BY <2>2, <2>4, <2>7, <2>10, <2>11, <2>12 DEF ClosedFile, DiskTableThere
  <2> QED BY <1>1, <2>13 DEF EndInv
<1> QED BY <1>2, <1>3

(* Every step keeps the end of the file in order. *)
LEMMA EndStep ==
    ASSUME TypeInv, SafeInv, EndInv, ~AllocFails, [Next]_vars
    PROVE  EndInv'
<1>1. StepKind /\ AllocOutcome = {TRUE}
  BY Steps DEF AllocOutcome
<1>2. CASE UNCHANGED <<phase, file, DBObject, i, fpos>> /\ NotOpen
  BY <1>2, EndSame DEF DBObject
<1>3. ASSUME NEW cap \in Caps, NEW ok \in AllocOutcome, KVDB_DBObject_create(cap, ok)
      PROVE  EndInv'
  BY <1>1, <1>3, EndCreate
<1>4. ASSUME NEW ok \in AllocOutcome, KVDB_DBObject_open(ok)
      PROVE  EndInv'
  BY <1>1, <1>4, EndOpen
<1>5. CASE OpenStep
  BY <1>5, EndOpenStep
<1>6. ASSUME NEW op, Dies(op), op # "open"
      PROVE  EndInv'
  <2>1. phase' = "dead" /\ ret'.op = op
    BY <1>6 DEF Dies, Returns
  <2> QED BY <1>6, <2>1 DEF EndInv
<1>7. ASSUME NEW id \in Nat, NEW op, NEW result, phase = "ready",
             AfterDelete(op, result, DeleteEntry(id)), NotOpen
      PROVE  EndInv'
  <2> SUFFICES ASSUME NEW del, SoundResult(del), AfterDelete(op, result, del)
               PROVE  EndInv'
    BY <1>7, DeleteEntryEffect DEF DeleteResult
  <2> QED BY <1>7, EndSame DEF AfterDelete, SoundResult
<1>8. ASSUME NEW k \in Key, NEW v \in Val, NEW rok \in BOOLEAN, NEW mok \in AllocOutcome,
             NEW id, phase = "ready", PutAppends(k, v, id, rok, mok)
      PROVE  EndInv'
  BY <1>1, <1>8, EndPut
<1>9. CASE KVDB_DBObject_close
  BY <1>9, EndClose
<1> QED BY <1>1, <1>2, <1>3, <1>4, <1>5, <1>6, <1>7, <1>8, <1>9 DEF StepKind

(* While allocations succeed the file always ends as a close or a put left it,   *)
(* and open never gave up but for a missing header or an empty key               *)
(* (kvdb.c 107-216, 222-261, 311-335).                                           *)
THEOREM FileEndsInOrder == Spec => []EndInv
<1>1. Init => EndInv
  BY EndInit
<1>2. IInv /\ EndInv /\ [Next]_vars => EndInv'
  <2>1. AllocFails => EndInv'
    BY DEF EndInv
  <2> QED BY <2>1, EndStep DEF IInv
<1> QED BY <1>1, <1>2, InvariantHolds, PTL DEF Spec

(* A database that was closed is refused by open only for a record whose key is  *)
(* empty, and open never reads bytes that no close wrote, as long as allocations *)
(* succeed (kvdb.c 122-128, 161-185).                                            *)
THEOREM ClosedDatabaseReopens == ~AllocFails => (Spec => []ReopenSucceeds)
<1> SUFFICES ASSUME ~AllocFails PROVE Spec => []ReopenSucceeds
  OBVIOUS
<1>1. EndInv => ReopenSucceeds
  BY DEF EndInv, ReopenSucceeds, HasEmptyKey
<1> QED BY <1>1, FileEndsInOrder, PTL

(* After every close the EOF marker stands where the header says and nothing     *)
(* lies behind it, as long as allocations succeed (kvdb.c 249-255).              *)
THEOREM MarkerEndsFile == ~AllocFails => (Spec => []EOFMarkerIsLast)
<1> SUFFICES ASSUME ~AllocFails PROVE Spec => []EOFMarkerIsLast
  OBVIOUS
<1>1. EndInv => EOFMarkerIsLast
  BY DEF EndInv, EOFMarkerIsLast, ClosedFile, Within, FileEnd
<1> QED BY <1>1, FileEndsInOrder, PTL

-----------------------------------------------------------------------------
(* The entries of a session beside those of the file.                        *)

(* What a session relies on besides SafeInv. *)
LEMMA StoreParts ==
    ASSUME 0 \in DOMAIN file => file[0].kind = "header",
           phase \in {"loadkeys", "loadindex", "ready"} =>
              \A n \in Header.EntryCount .. Header.EntryCapacity - 1 :
                 IndexTable[n] = UnusedEntry,
           ~AllocFails /\ (phase \in {"loadkeys", "loadindex"} \/ (phase = "ready" /\ ~db_modified))
              => MatchesFile
    PROVE  StoreInv
BY DEF StoreInv

(* In the beginning there is neither. *)
LEMMA StoreInit == Init => StoreInv
BY DEF Init, StoreInv, EmptyFile

(* The entries are compared with a file that stays. *)
LEMMA MatchesSame ==
    ASSUME MatchesFile, UNCHANGED <<file, Header, IndexTable>>
    PROVE  MatchesFile'
BY DEF MatchesFile, DiskTableThere, DiskTable, Entries

(* A step that changes nothing of them, and goes on in the same mode. *)
LEMMA StoreSame ==
    ASSUME StoreInv, UNCHANGED <<file, Header, IndexTable>>,
           \/ phase' \notin {"loadkeys", "loadindex", "ready"}
           \/ phase \in {"loadkeys", "loadindex"} /\ phase' \in {"loadkeys", "loadindex", "ready"}
           \/ phase = "ready" /\ phase' = "ready" /\ db_modified' \in {db_modified, TRUE}
    PROVE  StoreInv'
BY MatchesSame DEF StoreInv

(* When no session goes on only the file matters. *)
LEMMA StoreLeave ==
    ASSUME StoreInv, UNCHANGED file, phase' \notin {"loadkeys", "loadindex", "ready"}
    PROVE  StoreInv'
BY DEF StoreInv

(* create empties the file and the index table. *)
LEMMA StoreCreate ==
    ASSUME StoreInv, NEW cap \in Caps, NEW ok \in BOOLEAN, KVDB_DBObject_create(cap, ok)
    PROVE  StoreInv'
<1>1. CASE ok
  <2>1. /\ phase' = "ready" /\ file' = EmptyFile /\ Header'.EntryCount = 0
        /\ Header'.EntryCapacity = cap /\ db_modified' = TRUE
        /\ IndexTable' = [n \in 0 .. cap - 1 |-> UnusedEntry]
    BY <1>1 DEF KVDB_DBObject_create, NewHeader
  <2> QED BY <2>1 DEF StoreInv, EmptyFile, UnusedEntry
<1>2. CASE ~ok
  <2>1. phase' = "closed" /\ file' \in {file, EmptyFile}
    BY <1>2 DEF KVDB_DBObject_create
  <2> QED BY <2>1 DEF StoreInv, EmptyFile
<1> QED BY <1>1, <1>2

(* open takes header and index table from the file. *)
LEMMA StoreOpen ==
    ASSUME TypeInv, StoreInv, NEW ok \in BOOLEAN, KVDB_DBObject_open(ok)
    PROVE  StoreInv'
<1>1. CASE OpenFails \/ OpenReadsGarbage
  BY <1>1, StoreLeave DEF OpenFails, OpenReadsGarbage
<1>2. CASE ~(OpenFails \/ OpenReadsGarbage)
  <2> SUFFICES ASSUME NEW h, h = file[0].hdr,
                      Holds(file, 0, "header"),
                      h.EntryCount > 0 => /\ Holds(file, h.IndexTableOffset, "index")
                                          /\ file[h.IndexTableOffset].count = h.EntryCount,
                      phase' = "loadkeys", Header' = h, file' = file,
                      IndexTable' = [n \in 0 .. h.EntryCapacity - 1 |->
                                       IF n < h.EntryCount
                                       THEN file[h.IndexTableOffset].table[n]
                                       ELSE UnusedEntry]
               PROVE  StoreInv'
    BY <1>2 DEF KVDB_DBObject_open
  <2>1. h.EntryCount \in Nat /\ h.EntryCapacity \in Nat /\ h.EntryCount <= h.EntryCapacity
    BY HeaderRead DEF TypeInv, FileOK, HeaderType
  <2>2. MatchesFile'
    BY <2>1 DEF MatchesFile, DiskTableThere, DiskTable, Entries
  <2>3. \A n \in h.EntryCount .. h.EntryCapacity - 1 : IndexTable'[n] = UnusedEntry
    BY <2>1
  <2> QED BY <2>2, <2>3 DEF StoreInv
<1> QED BY <1>1, <1>2

(* The loops of open leave file, header and index table alone. *)
LEMMA StoreOpenStep ==
    ASSUME StoreInv, OpenStep
    PROVE  StoreInv'
<1>1. CASE OpenFails \/ OpenReadsGarbage \/ Dies("open")
  BY <1>1, StoreLeave DEF OpenFails, OpenReadsGarbage, Dies
<1>2. CASE ~(OpenFails \/ OpenReadsGarbage \/ Dies("open"))
  <2>1. UNCHANGED <<file, Header, IndexTable>>
    BY <1>2 DEF OpenStep, KVDB_DBObject_open_load_keys, KVDB_DBObject_open_new_index,
                KVDB_DBObject_open_load_index, KVDB_DBObject_open_done
  <2>2. phase \in {"loadkeys", "loadindex"} /\ phase' \in {"loadkeys", "loadindex", "ready"}
    BY <1>2 DEF OpenStep, KVDB_DBObject_open_load_keys, KVDB_DBObject_open_new_index,
                KVDB_DBObject_open_load_index, KVDB_DBObject_open_done
  <2> QED BY <2>1, <2>2, StoreSame
<1> QED BY <1>1, <1>2

(* A deletion that changes an entry has modified the session. *)
LEMMA StoreDelete ==
    ASSUME TypeInv, StoreInv, phase = "ready", NEW id \in Nat, NEW op, NEW result,
           AfterDelete(op, result, DeleteEntry(id))
    PROVE  StoreInv'
<1> SUFFICES ASSUME NEW del, del = DeleteEntry(id), DeleteResult(id, del),
                    AfterDelete(op, result, del)
             PROVE  StoreInv'
  BY DeleteEntryEffect
<1>1. CASE id >= Header.EntryCount
  <2>1. del = Unchanged(-1)
    BY <1>1 DEF DeleteEntry
  <2> QED BY <2>1, StoreSame DEF AfterDelete, Unchanged
<1>2. CASE ~(id >= Header.EntryCount)
  <2>1. db_modified' = TRUE
    BY <1>2 DEF DeleteEntry, AfterDelete
  <2>2. /\ phase' = "ready" /\ file' = file /\ Header'.EntryCount = Header.EntryCount
        /\ Header'.EntryCapacity = Header.EntryCapacity /\ IndexTable' = del.IndexTable
    BY DEF AfterDelete, DeleteResult, SoundResult
  <2>3. \A n \in Header.EntryCount .. Header.EntryCapacity - 1 : IndexTable'[n] = IndexTable[n]
    BY <1>2, <2>2, SessionType DEF DeleteResult
  <2> QED BY <2>1, <2>2, <2>3 DEF StoreInv
<1> QED BY <1>1, <1>2

(* Of a record or of a torn one nothing stands at the beginning of the file.   *)
LEMMA StartKept ==
    ASSUME TypeInv, SafeInv, phase = "ready", 0 \in DOMAIN file => file[0].kind = "header",
           NEW c, NEW g, g = Write(file, OffsetPtr, c)
    PROVE  0 \in DOMAIN g => g[0].kind = "header"
<1>1. OffsetPtr # 0
  BY SessionType, SizesPositive DEF SafeInv, TableInv, Chain
<1> QED BY <1>1 DEF Write

(* put, after the deletion of the old entry: what it leaves of the old state.   *)
LEMMA PutDeletes ==
    ASSUME TypeInv, phase = "ready", NEW id, id \in {-1} \cup 0 .. Header.EntryCapacity - 1,
           NEW del, del = DeleteOld(id)
    PROVE  /\ SoundResult(del)
           /\ \A n \in Header.EntryCount .. Header.EntryCapacity - 1 :
                 del.IndexTable[n] = IndexTable[n]
           /\ ~del.db_modified => ~db_modified /\ del = Unchanged(del.ret)
<1>1. CASE id >= 0
  <2>1. id \in Nat /\ del = DeleteEntry(id)
    BY <1>1, SessionType DEF DeleteOld
  <2>2. DeleteResult(id, del)
    BY <2>1, DeleteEntryEffect
  <2>3. CASE id >= Header.EntryCount
    BY <2>1, <2>2, <2>3 DEF DeleteEntry, Unchanged, DeleteResult
  <2>4. CASE ~(id >= Header.EntryCount)
    <3>1. del.db_modified = TRUE
      BY <2>1, <2>4 DEF DeleteEntry
    <3>2. \A n \in Header.EntryCount .. Header.EntryCapacity - 1 :
             n \in 0 .. Header.EntryCapacity - 1 /\ n # id
      BY <2>1, <2>4, SessionType
    <3> QED BY <2>2, <3>1, <3>2 DEF DeleteResult
  <2> QED BY <2>3, <2>4
<1>2. CASE ~(id >= 0)
  <2>1. del = Unchanged(0)
    BY <1>2 DEF DeleteOld
  <2>2. SoundResult(del)
    BY <2>1, UnchangedSound
  <2> QED BY <2>1, <2>2 DEF Unchanged
<1> QED BY <1>1, <1>2

(* put uses the next unused entry, and modifies the session if it stores anything. *)
LEMMA StorePut ==
    ASSUME TypeInv, SafeInv, StoreInv, phase = "ready",
           NEW k \in Key, NEW v \in Val, NEW rok \in BOOLEAN, NEW mok \in AllocOutcome, NEW id,
           PutAppends(k, v, id, rok, mok)
    PROVE  StoreInv'
<1> SUFFICES ASSUME NEW del, del = DeleteOld(id),
                    NEW n, n = del.Header.EntryCount,
                    NEW ins, ins = HTInsert(del.htObj, Hash[k], n, rok),
                    NEW rec, rec = RecordCell(k, v),
                    AppendStep(k, n, del, ins, rec, mok)
             PROVE  StoreInv'
  BY DEF PutAppends, Append_
<1>1. /\ SoundResult(del)
      /\ \A m \in Header.EntryCount .. Header.EntryCapacity - 1 :
            del.IndexTable[m] = IndexTable[m]
      /\ ~del.db_modified => ~db_modified /\ del = Unchanged(del.ret)
  BY LookupRange, PutDeletes DEF PutAppends, FAULT
<1>2. /\ n = Header.EntryCount /\ del.Header.EntryCapacity = Header.EntryCapacity
      /\ del.Header.EntryCount = n /\ n \in Nat /\ Header.EntryCapacity \in Nat
      /\ n < Header.EntryCapacity
      /\ del.IndexTable \in [0 .. Header.EntryCapacity - 1 -> IndexEntryType]
  BY <1>1, SessionType DEF SoundResult, PutAppends, Accepts
<1>3. phase' = "ready"
  BY DEF AppendStep
<1>4. CASE /\ NotIndexed(del) \/ (Torn(k, n, del) /\ ~mok)
           /\ db_modified' = del.db_modified
  <2>1. Header' = del.Header /\ IndexTable' = del.IndexTable
    BY <1>4 DEF NotIndexed, Torn
  <2>2. 0 \in DOMAIN file' => file'[0].kind = "header"
    BY <1>4, StartKept DEF NotIndexed, Torn, StoreInv
  <2>3. ASSUME ~AllocFails, ~db_modified' PROVE MatchesFile'
    <3>1. mok
      BY <2>3 DEF AllocOutcome
    <3>2. file' = file
      BY <1>4, <3>1 DEF NotIndexed
    <3>3. ~db_modified /\ Header' = Header /\ IndexTable' = IndexTable
      BY <1>1, <1>4, <2>1, <2>3 DEF Unchanged
    <3> QED BY <2>3, <3>2, <3>3, MatchesSame DEF StoreInv
  <2>4. \A m \in Header'.EntryCount .. Header'.EntryCapacity - 1 : IndexTable'[m] = UnusedEntry
    BY <1>1, <1>2, <2>1 DEF StoreInv
  <2> QED BY <1>3, <2>2, <2>3, <2>4 DEF StoreInv
<1>5. CASE Appended(k, n, del, rec) /\ db_modified' = TRUE
  <2>1. 0 \in DOMAIN file' => file'[0].kind = "header"
    BY <1>5, StartKept DEF Appended, StoreInv
  <2>2. Header'.EntryCount = n + 1 /\ Header'.EntryCapacity = Header.EntryCapacity
    BY <1>2, <1>5 DEF Appended
  <2>3. \A m \in n + 1 .. Header.EntryCapacity - 1 : IndexTable'[m] = del.IndexTable[m]
    BY <1>2, <1>5 DEF Appended
  <2>4. \A m \in n + 1 .. Header.EntryCapacity - 1 : m \in n .. Header.EntryCapacity - 1
    BY <1>2
  <2>5. \A m \in Header'.EntryCount .. Header'.EntryCapacity - 1 : IndexTable'[m] = UnusedEntry
    BY <1>1, <1>2, <2>2, <2>3, <2>4 DEF StoreInv
  <2> QED BY <1>3, <1>5, <2>1, <2>5 DEF StoreInv
<1> QED BY <1>4, <1>5 DEF AppendStep

(* After a close the file begins with the header that was just written.        *)
LEMMA StoreClose ==
    ASSUME TypeInv, SafeInv, StoreInv, KVDB_DBObject_close
    PROVE  StoreInv'
<1>1. phase = "ready" /\ phase' = "closed"
  BY DEF KVDB_DBObject_close
<1>2. 0 \in DOMAIN file' => file'[0].kind = "header"
  <2>1. CASE db_modified
    <3> DEFINE f == Write(WriteDBIndexTable(file), EOFOffset, EOFCell)
    <3>1. file' = WriteDBFileHeader(f)
      BY <2>1 DEF KVDB_DBObject_close
    <3>2. Holds(file', 0, "header")
      BY <1>1, <3>1, CloseWrites
    <3> QED BY <3>2 DEF Holds
  <2>2. CASE ~db_modified
    BY <2>2 DEF KVDB_DBObject_close, StoreInv
  <2> QED BY <2>1, <2>2
<1> QED BY <1>1, <1>2 DEF StoreInv

(* Every step. *)
LEMMA StoreStep ==
    ASSUME TypeInv, SafeInv, StoreInv, [Next]_vars
    PROVE  StoreInv'
<1>1. StepKind /\ AllocOutcome \subseteq BOOLEAN
  BY Steps, ConstantsAssumption DEF AllocOutcome
<1>2. CASE UNCHANGED <<phase, file, DBObject, i, fpos>>
  <2>1. UNCHANGED <<phase, file, Header, IndexTable, db_modified>>
    BY <1>2 DEF DBObject
  <2>2. MatchesFile => MatchesFile'
    BY <2>1, MatchesSame
  <2> QED BY <2>1, <2>2 DEF StoreInv
<1>3. ASSUME NEW cap \in Caps, NEW ok \in AllocOutcome, KVDB_DBObject_create(cap, ok)
      PROVE  StoreInv'
  BY <1>1, <1>3, StoreCreate
<1>4. ASSUME NEW ok \in AllocOutcome, KVDB_DBObject_open(ok)
      PROVE  StoreInv'
  BY <1>1, <1>4, StoreOpen
<1>5. CASE OpenStep
  BY <1>5, StoreOpenStep
<1>6. ASSUME NEW op, Dies(op)
      PROVE  StoreInv'
  BY <1>6, StoreLeave DEF Dies
<1>7. ASSUME NEW id \in Nat, NEW op, NEW result, phase = "ready",
             AfterDelete(op, result, DeleteEntry(id))
      PROVE  StoreInv'
  BY <1>7, StoreDelete
<1>8. ASSUME NEW k \in Key, NEW v \in Val, NEW rok \in BOOLEAN, NEW mok \in AllocOutcome,
             NEW id, phase = "ready", PutAppends(k, v, id, rok, mok)
      PROVE  StoreInv'
  BY <1>8, StorePut
<1>9. CASE KVDB_DBObject_close
  BY <1>9, StoreClose
<1> QED BY <1>1, <1>2, <1>3, <1>4, <1>5, <1>6, <1>7, <1>8, <1>9 DEF StepKind

(* The full invariant: besides IInv, a file that ends in order and describes the *)
(* entries of a session that changed nothing (kvdb.c 159-216, 222-261, 311-335). *)
THEOREM FullInvariantHolds == Spec => []FullInv
<1>1. Init => StoreInv
  BY StoreInit
<1>2. IInv /\ StoreInv /\ [Next]_vars => StoreInv'
  BY StoreStep DEF IInv
<1>3. IInv /\ EndInv /\ StoreInv <=> FullInv
  BY DEF FullInv
<1> QED BY <1>1, <1>2, <1>3, InvariantHolds, FileEndsInOrder, PTL DEF Spec

-----------------------------------------------------------------------------
(* The dictionary, while there is a session and between sessions.              *)

Mapped == <<SessionState, Formatted, AbstractStore, Used, Room>>

(* In a session it is that of the entries in memory. *)
LEMMA InSessionView ==
    ASSUME phase = "ready"
    PROVE  /\ SessionState = "open" /\ (Formatted <=> Holds(file, 0, "header"))
           /\ Used = Header.EntryCount /\ Room = Header.EntryCapacity
           /\ CurHeader = Header /\ CurTable = IndexTable
BY DEF SessionState, Formatted, Used, Room, CurHeader, CurTable, InSession

(* Between sessions, and while open loads, it is that of the file. *)
LEMMA OutsideView ==
    ASSUME phase \notin {"ready", "dead"}
    PROVE  /\ SessionState = "closed" /\ (Formatted <=> Holds(file, 0, "header"))
           /\ Used = CurHeader.EntryCount /\ Room = CurHeader.EntryCapacity
           /\ CurHeader = IF Holds(file, 0, "header") THEN file[0].hdr ELSE NewHeader(0)
           /\ CurTable = IF CurHeader.EntryCount = 0 THEN [n \in {} |-> UnusedEntry]
                         ELSE file[CurHeader.IndexTableOffset].table
BY DEF SessionState, Formatted, Used, Room, CurHeader, CurTable, InSession, DiskHeader

(* It stays the same as long as the same entries are live and have the same   *)
(* records.                                                                    *)
LEMMA StoreKept ==
    ASSUME phase # "dead", phase' # "dead",
           CurHeader'.EntryCount = CurHeader.EntryCount,
           \A n \in 0 .. CurHeader.EntryCount - 1 :
              /\ IsLive(CurTable', n) <=> IsLive(CurTable, n)
              /\ file'[CurTable'[n].Offset] = file[CurTable[n].Offset]
    PROVE  AbstractStore' = AbstractStore
<1>1. \A k : Stored(k)' = Stored(k)
  BY DEF Stored, IsLive
<1>2. \A k : \A n \in Stored(k) : file'[CurTable'[n].Offset] = file[CurTable[n].Offset]
  BY DEF Stored
<1>3. \A k : Stored(k) # {} => (CHOOSE n \in Stored(k) : TRUE) \in Stored(k)
  OBVIOUS
<1>4. ASSUME NEW k \in Key
      PROVE  (IF phase' = "dead" \/ Stored(k)' = {}
              THEN [id |-> -1, val |-> NULL]
              ELSE LET n == CHOOSE n \in Stored(k)' : TRUE
                   IN  [id |-> n, val |-> file'[CurTable'[n].Offset].val])
             = (IF phase = "dead" \/ Stored(k) = {}
                THEN [id |-> -1, val |-> NULL]
                ELSE LET n == CHOOSE n \in Stored(k) : TRUE
                     IN  [id |-> n, val |-> file[CurTable[n].Offset].val])
  BY <1>1, <1>2, <1>3
<1> QED BY <1>4 DEF AbstractStore

(* A step that changes nothing of it. *)
LEMMA MappedSame ==
    ASSUME UNCHANGED <<phase, file, Header, IndexTable>>
    PROVE  UNCHANGED Mapped
<1>1. UNCHANGED CurHeader
  BY DEF CurHeader, InSession, DiskHeader
<1>2. UNCHANGED CurTable
  BY <1>1 DEF CurTable, InSession, DiskHeader
<1>3. \A k : Stored(k)' = Stored(k)
  BY <1>1, <1>2 DEF Stored
<1>4. UNCHANGED AbstractStore
  BY <1>2, <1>3 DEF AbstractStore
<1> QED BY <1>1, <1>4 DEF Mapped, SessionState, Formatted, Used, Room

(* The same while there is no session and open fills one. *)
LEMMA MappedOutside ==
    ASSUME phase \notin {"ready", "dead"}, phase' \notin {"ready", "dead"}, UNCHANGED file
    PROVE  UNCHANGED Mapped
<1>1. UNCHANGED CurHeader
  BY OutsideView DEF CurHeader, InSession, DiskHeader
<1>2. UNCHANGED CurTable
  BY <1>1 DEF CurTable, InSession, DiskHeader
<1>3. UNCHANGED AbstractStore
  BY <1>1, <1>2, StoreKept
<1>4. UNCHANGED <<SessionState, Used, Room>>
  BY <1>1 DEF SessionState, Used, Room
<1>5. UNCHANGED Formatted
  BY DEF Formatted
<1> QED BY <1>3, <1>4, <1>5 DEF Mapped

-----------------------------------------------------------------------------
(* The entries of a key in a session, as long as no key is empty.              *)

KeysHaveLength == \A k \in Key : KeyLen[k] > 0

(* A key has one live entry at most, whose number and value the dictionary has. *)
LEMMA StoredOnce ==
    ASSUME KeysHaveLength, TypeInv, SafeInv, phase = "ready", NEW k \in Key, NEW n \in Stored(k)
    PROVE  /\ n \in Live /\ n \in Nat /\ n < Header.EntryCount
           /\ file[IndexTable[n].Offset].key = k
           /\ Stored(k) = {n}
           /\ AbstractStore[k] = [id |-> n, val |-> file[IndexTable[n].Offset].val]
<1>1. CurHeader = Header /\ CurTable = IndexTable /\ Header.EntryCount \in Nat
  BY InSessionView, SessionType
<1>2. \A m \in Stored(k) : /\ m \in 0 .. Header.EntryCount - 1
                           /\ IsLive(IndexTable, m) /\ file[IndexTable[m].Offset].key = k
  BY <1>1 DEF Stored, IsLive
<1>3. OneLive(file, IndexTable, Header.EntryCount)
  BY DEF SafeInv, TableInv
<1>4. \A m \in Stored(k) : m = n
  BY <1>2, <1>3 DEF OneLive, KeysHaveLength
<1>5. Stored(k) = {n}
  BY <1>4
<1>6. (CHOOSE m \in Stored(k) : TRUE) = n
  BY <1>5
<1>7. AbstractStore[k] = [id |-> n, val |-> file[IndexTable[n].Offset].val]
  BY <1>1, <1>5, <1>6 DEF AbstractStore
<1> QED BY <1>1, <1>2, <1>5, <1>7 DEF Live, Entries, IsLive

(* A live entry is stored under the key of its record. *)
LEMMA LiveStored ==
    ASSUME TypeInv, SafeInv, phase = "ready", NEW n \in Live
    PROVE  LET k == file[IndexTable[n].Offset].key IN k \in Key /\ n \in Stored(k)
<1>1. CurHeader = Header /\ CurTable = IndexTable
  BY InSessionView
<1>2. n \in 0 .. Header.EntryCount - 1
  BY DEF Live, Entries
<1>3. Holds(file, IndexTable[n].Offset, "record")
  BY <1>2 DEF SafeInv, TableInv, Chain, Describes
<1>4. file[IndexTable[n].Offset].key \in Key
  BY <1>3, HeaderRead DEF TypeInv, FileOK, CellsOK, CellOK, Holds
<1> QED BY <1>1, <1>2, <1>4 DEF Stored, Live

(* A key without one is absent, and only such a key. *)
LEMMA NotStored ==
    ASSUME NEW k \in Key, Stored(k) = {}
    PROVE  AbstractStore[k] = Store!Absent
BY DEF AbstractStore, Store!Absent

(* Entry id is live if and only if the dictionary gives that number to a key. *)
LEMMA KeysOfEntry ==
    ASSUME KeysHaveLength, TypeInv, SafeInv, phase = "ready", NEW id \in Nat
    PROVE  \A k \in Key : k \in Store!KeysOf(id) <=> id \in Stored(k)
<1> SUFFICES ASSUME NEW k \in Key PROVE k \in Store!KeysOf(id) <=> id \in Stored(k)
  OBVIOUS
<1>1. CASE Stored(k) = {}
  BY <1>1, NotStored DEF Store!KeysOf
<1>2. ASSUME NEW n \in Stored(k) PROVE k \in Store!KeysOf(id) <=> id \in Stored(k)
  <2>1. n \in Nat /\ Stored(k) = {n} /\ AbstractStore[k].id = n
    <3>1. /\ n \in Nat /\ Stored(k) = {n}
          /\ AbstractStore[k] = [id |-> n, val |-> file[IndexTable[n].Offset].val]
      BY <1>2, StoredOnce
    <3> QED BY <3>1
  <2>2. AbstractStore[k] # Store!Absent
    BY <2>1 DEF Store!Absent
  <2>3. k \in Store!KeysOf(id) <=> n = id
    BY <2>1, <2>2 DEF Store!KeysOf
  <2> QED BY <2>1, <2>3
<1> QED BY <1>1, <1>2

(* The dictionary is a function on the keys. *)
LEMMA StoreDomain == DOMAIN AbstractStore = Key /\ AbstractStore = [k \in Key |-> AbstractStore[k]]
BY DEF AbstractStore

(* A deleted entry takes its key, if it was live, out of the dictionary.       *)
LEMMA DeletedStore ==
    ASSUME KeysHaveLength, TypeInv, SafeInv, phase = "ready", phase' = "ready",
           NEW id \in Entries, UNCHANGED file, Header'.EntryCount = Header.EntryCount,
           \A n \in Entries : /\ IndexTable'[n].Offset = IndexTable[n].Offset
                              /\ n # id => IndexTable'[n] = IndexTable[n],
           ~IsLive(IndexTable', id)
    PROVE  AbstractStore' = [k \in Key |-> IF id \in Stored(k) THEN Store!Absent
                                                               ELSE AbstractStore[k]]
<1>1. CurHeader = Header /\ CurTable = IndexTable /\ CurHeader' = Header' /\ CurTable' = IndexTable'
  BY DEF CurHeader, CurTable, InSession
<1>2. \A k : Stored(k)' = Stored(k) \ {id}
  BY <1>1 DEF Stored, IsLive, Entries
<1>3. ASSUME NEW k \in Key
      PROVE  (IF phase' = "dead" \/ Stored(k)' = {}
              THEN [id |-> -1, val |-> NULL]
              ELSE LET n == CHOOSE n \in Stored(k)' : TRUE
                   IN  [id |-> n, val |-> file'[CurTable'[n].Offset].val])
             = IF id \in Stored(k) THEN Store!Absent ELSE AbstractStore[k]
  <2>1. CASE id \in Stored(k)
    <3>1. Stored(k) = {id}
      BY <2>1, StoredOnce
    <3> QED BY <1>2, <2>1, <3>1 DEF Store!Absent
  <2>2. CASE id \notin Stored(k) /\ Stored(k) = {}
    <3>1. Stored(k)' = {} /\ AbstractStore[k] = Store!Absent
      BY <1>2, <2>2, NotStored
    <3> QED BY <2>2, <3>1 DEF Store!Absent
  <2>3. CASE id \notin Stored(k) /\ Stored(k) # {}
    <3> SUFFICES ASSUME NEW m \in Stored(k)
                 PROVE  (LET n == CHOOSE n \in Stored(k)' : TRUE
                         IN  [id |-> n, val |-> file'[CurTable'[n].Offset].val])
                        = AbstractStore[k]
      BY <1>2, <2>3
    <3>1. /\ Stored(k) = {m} /\ m \in Live
          /\ AbstractStore[k] = [id |-> m, val |-> file[IndexTable[m].Offset].val]
      BY StoredOnce
    <3>2. Stored(k)' = {m}
      BY <1>2, <2>3, <3>1
    <3>3. (CHOOSE n \in Stored(k)' : TRUE) = m
      BY <3>2
    <3>4. file'[CurTable'[m].Offset].val = file[IndexTable[m].Offset].val
      BY <1>1, <3>1 DEF Live
    <3> QED BY <3>1, <3>3, <3>4
  <2> QED BY <2>1, <2>2, <2>3
<1> QED BY <1>3 DEF AbstractStore

(* An appended entry is the only one of its key, and no other key has changed. *)
LEMMA AppendedStore ==
    ASSUME KeysHaveLength, TypeInv, SafeInv, phase = "ready", phase' = "ready",
           NEW k \in Key, NEW v, NEW n, n = Header.EntryCount, Header'.EntryCount = n + 1,
           \A m \in Entries :
              /\ IndexTable'[m].Offset = IndexTable[m].Offset
              /\ file'[IndexTable[m].Offset] = file[IndexTable[m].Offset]
              /\ IsLive(IndexTable', m) <=> /\ IsLive(IndexTable, m)
                                            /\ file[IndexTable[m].Offset].key # k,
           IsLive(IndexTable', n), file'[IndexTable'[n].Offset] = RecordCell(k, v)
    PROVE  AbstractStore' = [AbstractStore EXCEPT ![k] = [id |-> n, val |-> v]]
<1>1. /\ CurHeader = Header /\ CurTable = IndexTable
      /\ CurHeader' = Header' /\ CurTable' = IndexTable'
  BY DEF CurHeader, CurTable, InSession
<1>2. n \in Nat /\ 0 .. Header'.EntryCount - 1 = Entries \cup {n} /\ n \notin Entries
  BY SessionType DEF Entries
<1>3. /\ file'[IndexTable'[n].Offset].key = k /\ file'[IndexTable'[n].Offset].val = v
  BY DEF RecordCell
<1>4. Stored(k)' = {n}
  BY <1>1, <1>2, <1>3 DEF Stored, IsLive
<1>5. \A l : l # k => Stored(l)' = Stored(l)
  BY <1>1, <1>2, <1>3 DEF Stored, IsLive, Entries
<1>6. ASSUME NEW l \in Key
      PROVE  (IF phase' = "dead" \/ Stored(l)' = {}
              THEN [id |-> -1, val |-> NULL]
              ELSE LET m == CHOOSE m \in Stored(l)' : TRUE
                   IN  [id |-> m, val |-> file'[CurTable'[m].Offset].val])
             = IF l = k THEN [id |-> n, val |-> v] ELSE AbstractStore[l]
  <2>1. CASE l = k
    <3>1. (CHOOSE m \in Stored(l)' : TRUE) = n
      BY <1>4, <2>1
    <3> QED BY <1>1, <1>3, <1>4, <2>1, <3>1
  <2>2. CASE l # k /\ Stored(l) = {}
    <3>1. Stored(l)' = {} /\ AbstractStore[l] = Store!Absent
      BY <1>5, <2>2, NotStored
    <3> QED BY <2>2, <3>1 DEF Store!Absent
  <2>3. CASE l # k /\ Stored(l) # {}
    <3> SUFFICES ASSUME NEW m \in Stored(l)
                 PROVE  (LET j == CHOOSE j \in Stored(l)' : TRUE
                         IN  [id |-> j, val |-> file'[CurTable'[j].Offset].val])
                        = AbstractStore[l]
      BY <1>5, <2>3
    <3>1. /\ Stored(l) = {m} /\ m \in Live
          /\ AbstractStore[l] = [id |-> m, val |-> file[IndexTable[m].Offset].val]
      BY StoredOnce
    <3>2. Stored(l)' = {m}
      BY <1>5, <2>3, <3>1
    <3>3. (CHOOSE j \in Stored(l)' : TRUE) = m
      BY <3>2
    <3>4. file'[CurTable'[m].Offset].val = file[IndexTable[m].Offset].val
      BY <1>1, <3>1 DEF Live
    <3> QED BY <3>1, <3>3, <3>4
  <2> QED BY <2>1, <2>2, <2>3
<1>7. AbstractStore' = [l \in Key |-> IF l = k THEN [id |-> n, val |-> v] ELSE AbstractStore[l]]
  BY <1>6 DEF AbstractStore
<1> QED BY <1>7, StoreDomain

-----------------------------------------------------------------------------
(* Every step of KVDB is one of KVStore, or changes nothing of the dictionary. *)

StoreStutters == UNCHANGED Store!avars

(* A step that changes neither the dictionary nor the answer. *)
LEMMA Stutters ==
    ASSUME UNCHANGED Mapped, ret' = ret
    PROVE  StoreStutters
BY DEF StoreStutters, Mapped, Store!avars

(* An operation that does nothing but answer. *)
LEMMA AnswersMap ==
    ASSUME NEW op, NEW id, NEW obj, OnlyReturns(op, id, obj)
    PROVE  Store!OnlyAnswers(op, id, obj)
<1>1. UNCHANGED Mapped
  BY MappedSame DEF OnlyReturns, DBObject
<1> QED BY <1>1 DEF Mapped, OnlyReturns, Returns, Store!OnlyAnswers, Store!Answers

(* A fault loses the session, and the model follows the file no further. *)
LEMMA DieMap ==
    ASSUME phase = "ready", NEW op \in {"put", "get_by_key", "delete_by_key"}, Dies(op)
    PROVE  Store!Die
<1>1. phase' = "dead" /\ ret' = [op |-> op, id |-> -1, obj |-> NULL]
  BY DEF Dies, Returns
<1>2. AbstractStore' = Store!NoStore
  BY <1>1 DEF AbstractStore, Store!NoStore, Store!Absent
<1>3. SessionState' = "dead" /\ ~Formatted' /\ Used' = 0 /\ Room' = 0
  BY <1>1 DEF SessionState, Formatted, Used, Room
<1>4. SessionState = "open" /\ Formatted' = FALSE
  BY <1>3, InSessionView DEF Formatted
<1> QED BY <1>1, <1>2, <1>3, <1>4 DEF Store!Die, Store!Answers

(* A database that is created has no entries, in memory or on disk. *)
LEMMA CreateMap ==
    ASSUME NEW cap \in Caps, KVDB_DBObject_create(cap, TRUE)
    PROVE  Store!Create(cap)
<1>1. /\ phase = "closed" /\ phase' = "ready" /\ file' = EmptyFile
      /\ Header'.EntryCount = 0 /\ Header'.EntryCapacity = cap
      /\ ret' = [op |-> "create", id |-> 0, obj |-> NULL]
  BY DEF KVDB_DBObject_create, NewHeader, Returns
<1>2. CurHeader' = Header'
  BY <1>1 DEF CurHeader, InSession
<1>3. \A k : Stored(k)' = {}
  BY <1>1, <1>2 DEF Stored
<1>4. AbstractStore' = Store!NoStore
  BY <1>3 DEF AbstractStore, Store!NoStore, Store!Absent
<1>5. Formatted' = FALSE
  BY <1>1 DEF Formatted, Holds, EmptyFile
<1>6. SessionState = "closed" /\ SessionState' = "open" /\ Used' = 0 /\ Room' = cap
  BY <1>1, <1>2 DEF SessionState, Used, Room
<1> QED BY <1>1, <1>4, <1>5, <1>6 DEF Store!Create, Store!Answers

(* open answers at once when there is no header, and goes on otherwise. *)
LEMMA OpenMap ==
    ASSUME EndInv, ~AllocFails, KVDB_DBObject_open(TRUE)
    PROVE  Store!Open \/ StoreStutters
<1>1. phase = "closed" /\ SessionState = "closed" /\ (Formatted <=> Holds(file, 0, "header"))
  BY OutsideView DEF KVDB_DBObject_open
<1>2. CASE ~Holds(file, 0, "header")
  <2>1. OpenFails
    BY <1>2 DEF KVDB_DBObject_open
  <2>2. UNCHANGED Mapped
    BY <1>1, <2>1, MappedOutside DEF OpenFails
  <2> QED BY <1>1, <1>2, <2>1, <2>2 DEF Mapped, OpenFails, Returns, Store!Open, Store!Answers
<1>3. CASE Holds(file, 0, "header")
  <2>1. DiskTableThere
    BY <1>1, <1>3 DEF EndInv, ClosedFile
  <2>2. phase' = "loadkeys" /\ UNCHANGED <<file, ret>>
    BY <1>3, <2>1 DEF KVDB_DBObject_open, DiskTableThere
  <2> QED BY <1>1, <2>2, MappedOutside, Stutters
<1> QED BY <1>2, <1>3

(* The session that open made has the entries of the file. *)
LEMMA OpenDoneMap ==
    ASSUME TypeInv, SafeInv, StoreInv, ~AllocFails, KVDB_DBObject_open_done
    PROVE  Store!Open
<1>1. /\ phase = "loadindex" /\ phase' = "ready" /\ UNCHANGED <<file, Header, IndexTable>>
      /\ ret' = [op |-> "open", id |-> 0, obj |-> NULL]
  BY DEF KVDB_DBObject_open_done, Returns
<1>2. MatchesFile
  BY <1>1 DEF StoreInv
<1>3. Holds(file, 0, "header") /\ file[0].hdr = Header
  BY <1>2 DEF MatchesFile, DiskTableThere
<1>4. CurHeader = Header /\ CurHeader' = Header /\ CurTable' = IndexTable
  BY <1>1, <1>3 DEF CurHeader, CurTable, InSession, DiskHeader
<1>5. \A n \in 0 .. Header.EntryCount - 1 : CurTable[n] = IndexTable[n]
  <2>1. Header.EntryCount # 0 => CurTable = DiskTable
    BY <1>1, <1>3, <1>4, OutsideView DEF DiskTable
  <2>2. Header.EntryCount = 0 => 0 .. Header.EntryCount - 1 = {}
    OBVIOUS
  <2> QED BY <1>2, <2>1, <2>2 DEF MatchesFile, Entries
<1>6. UNCHANGED AbstractStore
  BY <1>1, <1>4, <1>5, StoreKept DEF IsLive
<1>7. /\ SessionState = "closed" /\ SessionState' = "open" /\ Formatted
      /\ UNCHANGED <<Used, Room>>
  BY <1>1, <1>3, <1>4 DEF SessionState, Formatted, Used, Room
<1>8. UNCHANGED Formatted
  BY <1>1 DEF Formatted
<1> QED BY <1>1, <1>6, <1>7, <1>8 DEF Store!Open, Store!Answers

(* With no empty key the loops of open run through. *)
LEMMA NoEmptyKey == KeysHaveLength /\ TypeInv => ~HasEmptyKey
<1> SUFFICES ASSUME KeysHaveLength, TypeInv, NEW o \in DOMAIN file, file[o].kind = "record"
             PROVE  KeyLen[file[o].key] # 0
  BY DEF HasEmptyKey
<1>1. file[o].key \in Key
  BY DEF TypeInv, FileOK, CellsOK, CellOK
<1> QED BY <1>1, ConstantsAssumption DEF KeysHaveLength

(* The loops of open do nothing visible until the session is ready. *)
LEMMA OpenStepMap ==
    ASSUME KeysHaveLength, TypeInv, SafeInv, StoreInv, ~AllocFails, OpenStep
    PROVE  Store!Open \/ StoreStutters
<1>1. \/ KVDB_DBObject_open_load_keys(TRUE)
      \/ KVDB_DBObject_open_new_index(TRUE)
      \/ KVDB_DBObject_open_load_index(TRUE)
      \/ KVDB_DBObject_open_done
  BY DEF OpenStep, AllocOutcome
<1>2. ASSUME phase \in {"loadkeys", "loadindex"}, phase' \in {"loadkeys", "loadindex"},
             UNCHANGED <<file, ret>>
      PROVE  StoreStutters
  BY <1>2, MappedOutside, Stutters
<1>3. CASE KVDB_DBObject_open_load_keys(TRUE)
  BY <1>2, <1>3, LoadKeysGoesOn, NoEmptyKey
<1>4. CASE KVDB_DBObject_open_new_index(TRUE)
  BY <1>2, <1>4 DEF KVDB_DBObject_open_new_index
<1>5. CASE KVDB_DBObject_open_load_index(TRUE)
  BY <1>2, <1>5, LoadIndexGoesOn
<1> QED BY <1>1, <1>3, <1>4, <1>5, OpenDoneMap

-----------------------------------------------------------------------------
(* The operations of a session. *)

(* What get and get_key read of an entry that is live. *)
LEMMA ReadLive ==
    ASSUME TypeInv, SafeInv, phase = "ready", NEW n \in Live, NEW member
    PROVE  ReadAt(n, member) = file[IndexTable[n].Offset][member]
<1>1. n \in 0 .. Header.EntryCount - 1 /\ "FLAG_DELETED" \notin IndexTable[n].Flags
  BY DEF Live, Entries
<1>2. Holds(file, IndexTable[n].Offset, "record")
  BY <1>1 DEF SafeInv, TableInv, Chain, Describes
<1>3. ~(n >= Header.EntryCapacity)
  BY <1>1, SessionType
<1> QED BY <1>1, <1>2, <1>3 DEF ReadAt

(* Of any other there is nothing, or a hole before the first close. *)
LEMMA ReadOther ==
    ASSUME TypeInv, StoreInv, phase = "ready", NEW id \in EntryIDs, id \notin Live, NEW member
    PROVE  \/ ReadAt(id, member) = NULL
           \/ /\ ReadAt(id, member) = ZeroVal
              /\ id >= Used /\ id < Room /\ Formatted = FALSE
<1>1. id \in Nat /\ Header.EntryCount \in Nat /\ Header.EntryCapacity \in Nat
  BY SessionType DEF EntryIDs
<1>2. CASE id >= Header.EntryCapacity \/ "FLAG_DELETED" \in IndexTable[id].Flags
  BY <1>2 DEF ReadAt
<1>3. CASE ~(id >= Header.EntryCapacity \/ "FLAG_DELETED" \in IndexTable[id].Flags)
  <2>1. id \in Header.EntryCount .. Header.EntryCapacity - 1
    BY <1>1, <1>3 DEF Live, Entries
  <2>2. IndexTable[id].Offset = 0
    BY <2>1 DEF StoreInv, UnusedEntry
  <2>3. ~Holds(file, 0, "record")
    BY DEF StoreInv, Holds
  <2>4. CASE ~Holds(file, 0, "header") /\ file # EmptyFile
    <3>1. ReadAt(id, member) = ZeroVal
      BY <1>3, <2>2, <2>3, <2>4 DEF ReadAt
    <3>2. Formatted = FALSE
      BY <2>4 DEF Formatted
    <3> QED BY <1>1, <2>1, <3>1, <3>2, InSessionView
  <2>5. CASE ~(~Holds(file, 0, "header") /\ file # EmptyFile)
    BY <1>3, <2>2, <2>3, <2>5 DEF ReadAt
  <2> QED BY <2>4, <2>5
<1> QED BY <1>2, <1>3

(* An entry that is not live has no key. *)
LEMMA NoKeysOf ==
    ASSUME KeysHaveLength, TypeInv, SafeInv, phase = "ready", NEW id \in Nat, id \notin Live
    PROVE  Store!KeysOf(id) = {}
<1>1. \A k \in Key : k \notin Store!KeysOf(id)
  BY KeysOfEntry, StoredOnce
<1> QED BY <1>1 DEF Store!KeysOf

(* get and get_key answer with the value and the key the dictionary has. *)
LEMMA GetMap ==
    ASSUME KeysHaveLength, TypeInv, SafeInv, StoreInv, phase = "ready", NEW id \in EntryIDs,
           \/ OnlyReturns("get", 0, ReadAt(id, "val"))
           \/ OnlyReturns("get_key", 0, ReadAt(id, "key"))
    PROVE  Store!Get(id)
<1>1. id \in Nat
  BY SessionType DEF EntryIDs
<1>2. SessionState = "open"
  BY InSessionView
<1>3. CASE id \in Live
  <2> DEFINE k == file[IndexTable[id].Offset].key
  <2>1. k \in Key /\ id \in Stored(k)
    BY <1>3, LiveStored
  <2>2. k \in Store!KeysOf(id)
    BY <1>1, <2>1, KeysOfEntry
  <2>3. AbstractStore[k] = [id |-> id, val |-> file[IndexTable[id].Offset].val]
    BY <2>1, StoredOnce
  <2>4. AbstractStore[k].val = ReadAt(id, "val") /\ k = ReadAt(id, "key")
    BY <1>3, <2>3, ReadLive
  <2>5. \/ Store!OnlyAnswers("get", 0, AbstractStore[k].val)
        \/ Store!OnlyAnswers("get_key", 0, k)
    <3> HIDE DEF k
    <3> QED BY <2>4, AnswersMap, Zenon
  <2> HIDE DEF k
  <2> QED BY <1>2, <2>2, <2>5 DEF Store!Get
<1>4. CASE id \notin Live
  <2>1. Store!KeysOf(id) = {}
    BY <1>1, <1>4, NoKeysOf
  <2>2. PICK op \in {"get", "get_key"}, member \in {"val", "key"} :
           OnlyReturns(op, 0, ReadAt(id, member))
    OBVIOUS
  <2>3. Store!OnlyAnswers(op, 0, ReadAt(id, member))
    BY <2>2, AnswersMap
  <2>4. /\ ReadAt(id, member) \in {NULL, ZeroVal}
        /\ ReadAt(id, member) = ZeroVal => id >= Used /\ id < Room /\ ~Formatted
    BY <1>4, ReadOther, ConstantsAssumption
  <2> QED BY <1>2, <2>1, <2>3, <2>4 DEF Store!Get
<1> QED BY <1>3, <1>4

(* A lookup that survives answers as the dictionary does. *)
LEMMA LookupMap ==
    ASSUME KeysHaveLength, TypeInv, SafeInv, phase = "ready", NEW k \in Key,
           NEW id \in KVDB_conv_key_entry_id(k), id # FAULT
    PROVE  \/ id = -1 /\ Stored(k) = {} /\ AbstractStore[k] = Store!Absent
           \/ /\ id \in Live /\ id \in Nat /\ id < Header.EntryCount
              /\ Stored(k) = {id} /\ file[IndexTable[id].Offset].key = k
              /\ AbstractStore[k] = [id |-> id, val |-> file[IndexTable[id].Offset].val]
<1>1. \/ id = -1 /\ \A n \in Live : file[IndexTable[n].Offset].key # k
      \/ id \in Live /\ file[IndexTable[id].Offset].key = k
  BY LookupFinds DEF KeysHaveLength
<1>2. CASE id = -1 /\ \A n \in Live : file[IndexTable[n].Offset].key # k
  <2>1. Stored(k) = {}
    BY <1>2, StoredOnce
  <2> QED BY <1>2, <2>1, NotStored
<1>3. CASE id \in Live /\ file[IndexTable[id].Offset].key = k
  <2>1. id \in Stored(k)
    BY <1>3, LiveStored
  <2> QED BY <1>3, <2>1, StoredOnce
<1> QED BY <1>1, <1>2, <1>3

(* So does get_by_key, unless the lookup faults. *)
LEMMA GetByKeyMap ==
    ASSUME KeysHaveLength, TypeInv, SafeInv, phase = "ready", NEW k \in Key,
           KVDB_DBObject_get_by_key(k, TRUE)
    PROVE  Store!GetByKey(k) \/ Store!Die
<1> PICK id \in KVDB_conv_key_entry_id(k) :
       \/ id = FAULT /\ Dies("get_by_key")
       \/ id = -1 /\ OnlyReturns("get_by_key", -1, NULL)
       \/ id # FAULT /\ id # -1 /\ OnlyReturns("get_by_key", 0, ReadAt(id, "val"))
  BY DEF KVDB_DBObject_get_by_key, FAULT
<1>1. CASE id = FAULT
  BY <1>1, DieMap DEF FAULT
<1>2. CASE id # FAULT /\ id = -1
  <2>1. AbstractStore[k] = Store!Absent
    <3>1. ~(-1 \in Nat)
      OBVIOUS
    <3> QED BY <1>2, <3>1, LookupMap, Zenon
  <2>2. Store!OnlyAnswers("get_by_key", -1, NULL)
    BY <1>2, AnswersMap
  <2>3. SessionState = "open"
    BY InSessionView
  <2> QED BY <2>1, <2>2, <2>3 DEF Store!GetByKey
<1>3. CASE id # FAULT /\ id # -1
  <2>1. /\ id \in Live /\ id \in Nat
        /\ AbstractStore[k] = [id |-> id, val |-> file[IndexTable[id].Offset].val]
    BY <1>3, LookupMap
  <2>2. AbstractStore[k] # Store!Absent /\ AbstractStore[k].val = ReadAt(id, "val")
    BY <2>1, ReadLive DEF Store!Absent
  <2>3. Store!OnlyAnswers("get_by_key", 0, ReadAt(id, "val"))
    BY <1>3, AnswersMap
  <2>4. SessionState = "open"
    BY InSessionView
  <2> QED BY <2>2, <2>3, <2>4 DEF Store!GetByKey
<1> QED BY <1>1, <1>2, <1>3

(* What the deletion of entry id makes of the dictionary. *)
LEMMA DeleteMap ==
    ASSUME KeysHaveLength, TypeInv, SafeInv, phase = "ready", NEW id \in Nat,
           NEW op, Deletes(op, id)
    PROVE  /\ SessionState = "open"
           /\ UNCHANGED <<SessionState, Formatted, Used, Room>>
           /\ id < Used => \/ /\ ret' = [op |-> op, id |-> id, obj |-> NULL]
                              /\ AbstractStore' = [k \in Key |-> IF id \in Stored(k)
                                                                 THEN Store!Absent
                                                                 ELSE AbstractStore[k]]
                           \/ /\ id \notin Live
                              /\ ret' = [op |-> op, id |-> -2, obj |-> NULL]
                              /\ AbstractStore' = AbstractStore
           /\ ~(id < Used) => /\ id \notin Live
                              /\ ret' = [op |-> op, id |-> -1, obj |-> NULL]
                              /\ AbstractStore' = AbstractStore
<1> SUFFICES ASSUME NEW del, del = DeleteEntry(id), DeleteResult(id, del),
                    AfterDelete(op, del.ret, del)
             PROVE  /\ SessionState = "open"
                    /\ UNCHANGED <<SessionState, Formatted, Used, Room>>
                    /\ id < Used =>
                          \/ /\ ret' = [op |-> op, id |-> id, obj |-> NULL]
                             /\ AbstractStore' = [k \in Key |-> IF id \in Stored(k)
                                                                THEN Store!Absent
                                                                ELSE AbstractStore[k]]
                          \/ /\ id \notin Live
                             /\ ret' = [op |-> op, id |-> -2, obj |-> NULL]
                             /\ AbstractStore' = AbstractStore
                    /\ ~(id < Used) =>
                          /\ id \notin Live
                          /\ ret' = [op |-> op, id |-> -1, obj |-> NULL]
                          /\ AbstractStore' = AbstractStore
  BY DeleteEntryEffect DEF Deletes
<1>1. /\ phase' = "ready" /\ file' = file /\ Header' = del.Header /\ IndexTable' = del.IndexTable
      /\ ret' = [op |-> op, id |-> del.ret, obj |-> NULL]
  BY DEF AfterDelete, Returns
<1>2. /\ Header'.EntryCount = Header.EntryCount /\ Header'.EntryCapacity = Header.EntryCapacity
      /\ Header.EntryCount \in Nat /\ Header.EntryCount <= Header.EntryCapacity
      /\ Header.EntryCapacity \in Nat
      /\ SessionState = "open" /\ Used = Header.EntryCount /\ Room = Header.EntryCapacity
  BY <1>1, SessionType, InSessionView DEF DeleteResult, SoundResult
<1>3. UNCHANGED <<SessionState, Formatted, Used, Room>>
  <2>1. CurHeader' = Header'
    BY <1>1 DEF CurHeader, InSession
  <2>2. CurHeader = Header
    BY InSessionView
  <2>3. UNCHANGED <<SessionState, Formatted>>
    BY <1>1 DEF SessionState, Formatted
  <2> QED BY <1>1, <1>2, <2>1, <2>2, <2>3 DEF Used, Room
<1>4. ASSUME Header' = Header, IndexTable' = IndexTable
      PROVE  AbstractStore' = AbstractStore
  BY <1>1, <1>4, MappedSame DEF Mapped
<1>5. CASE ~(id < Used)
  <2>1. del = Unchanged(-1)
    BY <1>2, <1>5 DEF DeleteEntry
  <2>2. del.ret = -1 /\ Header' = Header /\ IndexTable' = IndexTable
    BY <1>1, <2>1 DEF Unchanged
  <2>3. id \notin Live
    BY <1>2, <1>5 DEF Live, Entries
  <2> QED BY <1>1, <1>2, <1>3, <1>4, <1>5, <2>2, <2>3
<1>6. CASE id < Used /\ del.ret < 0
  <2>1. del.ret = -2 /\ del.Header = Header /\ del.IndexTable = IndexTable
    BY <1>2, <1>6 DEF DeleteEntry, Unchanged
  <2>2. id \notin Live
    <3>1. id \in Live => Indexed(id)
      BY DEF SafeInv, IndexInv
    <3> QED BY <1>2, <1>6, <3>1 DEF DeleteResult
  <2> QED BY <1>1, <1>2, <1>3, <1>4, <1>6, <2>1, <2>2
<1>7. CASE id < Used /\ ~(del.ret < 0)
  <2>1. del.ret = id
    BY <1>2, <1>7 DEF DeleteEntry, Unchanged
  <2>2. del.ret >= 0 /\ ~IsLive(del.IndexTable, id)
    BY <2>1 DEF DeleteResult
  <2>3. id \in Entries /\ \A n \in Entries : n \in 0 .. Header.EntryCapacity - 1
    BY <1>2, <1>7 DEF Entries
  <2>4. \A n \in Entries : /\ IndexTable'[n].Offset = IndexTable[n].Offset
                           /\ n # id => IndexTable'[n] = IndexTable[n]
    BY <1>1, <2>3 DEF DeleteResult, SoundResult
  <2>5. ~IsLive(IndexTable', id)
    BY <1>1, <2>2
  <2>6. AbstractStore' = [k \in Key |-> IF id \in Stored(k) THEN Store!Absent
                                                            ELSE AbstractStore[k]]
    BY <1>1, <1>2, <2>3, <2>4, <2>5, DeletedStore
  <2> QED BY <1>1, <1>2, <1>3, <1>7, <2>1, <2>6
<1> QED BY <1>5, <1>6, <1>7

(* delete takes the key of the entry out of the dictionary, if it has one. *)
LEMMA DeleteByNumberMap ==
    ASSUME KeysHaveLength, TypeInv, SafeInv, phase = "ready", NEW id \in EntryIDs,
           Deletes("delete", id)
    PROVE  Store!Delete(id)
<1>1. id \in Nat /\ Used \in Nat
  BY SessionType, InSessionView DEF EntryIDs
<1>2. \A k \in Key : k \in Store!KeysOf(id) <=> id \in Stored(k)
  BY <1>1, KeysOfEntry
<1>3. id \notin Live => Store!KeysOf(id) = {}
  BY <1>1, NoKeysOf
<1>4. id \notin Live => [k \in Key |-> IF k \in Store!KeysOf(id) THEN Store!Absent
                                       ELSE AbstractStore[k]] = AbstractStore
  BY <1>3, StoreDomain
<1>5. [k \in Key |-> IF k \in Store!KeysOf(id) THEN Store!Absent ELSE AbstractStore[k]]
      = [k \in Key |-> IF id \in Stored(k) THEN Store!Absent ELSE AbstractStore[k]]
  BY <1>2
<1>6. /\ SessionState = "open"
      /\ UNCHANGED <<SessionState, Formatted, Used, Room>>
      /\ AbstractStore' = [k \in Key |-> IF k \in Store!KeysOf(id) THEN Store!Absent
                                         ELSE AbstractStore[k]]
      /\ \/ id >= Used /\ ret' = [op |-> "delete", id |-> -1, obj |-> NULL]
         \/ id < Used /\ ret' = [op |-> "delete", id |-> id, obj |-> NULL]
         \/ /\ id < Used /\ Store!KeysOf(id) = {}
            /\ ret' = [op |-> "delete", id |-> -2, obj |-> NULL]
  <2>1. id >= Used \/ id < Used
    BY <1>1
  <2>2. CASE id < Used
    BY <1>1, <1>3, <1>4, <1>5, <2>2, DeleteMap
  <2>3. CASE ~(id < Used)
    BY <1>1, <1>3, <1>4, <1>5, <2>1, <2>3, DeleteMap
  <2> QED BY <2>2, <2>3
<1> QED BY <1>6 DEF Store!Delete, Store!Answers

(* delete_by_key takes the key out, unless the lookup faults. *)
LEMMA DeleteByKeyMap ==
    ASSUME KeysHaveLength, TypeInv, SafeInv, phase = "ready", NEW k \in Key,
           KVDB_DBObject_delete_by_key(k)
    PROVE  Store!DeleteByKey(k) \/ Store!Die
<1> PICK id \in KVDB_conv_key_entry_id(k) :
       \/ id = FAULT /\ Dies("delete_by_key")
       \/ id = -1 /\ OnlyReturns("delete_by_key", -1, NULL)
       \/ id # FAULT /\ id # -1 /\ Deletes("delete_by_key", id)
  BY DEF KVDB_DBObject_delete_by_key, FAULT
<1>1. CASE id = FAULT
  BY <1>1, DieMap DEF FAULT
<1>2. CASE id # FAULT /\ id = -1
  <2>1. AbstractStore[k] = Store!Absent
    <3>1. ~(-1 \in Nat)
      OBVIOUS
    <3> QED BY <1>2, <3>1, LookupMap, Zenon
  <2>2. Store!OnlyAnswers("delete_by_key", -1, NULL)
    BY <1>2, AnswersMap
  <2>3. SessionState = "open" /\ AbstractStore[k].id = -1
    BY <2>1, InSessionView DEF Store!Absent
  <2>4. [AbstractStore EXCEPT ![k] = Store!Absent] = AbstractStore
    BY <2>1, StoreDomain
  <2> QED BY <2>2, <2>3, <2>4 DEF Store!DeleteByKey, Store!OnlyAnswers
<1>3. CASE id # FAULT /\ id # -1
  <2>1. /\ id \in Live /\ id \in Nat /\ id < Header.EntryCount
        /\ Stored(k) = {id} /\ file[IndexTable[id].Offset].key = k
    BY <1>3, LookupMap
  <2>2. AbstractStore[k].id = id
    <3>1. AbstractStore[k] = [id |-> id, val |-> file[IndexTable[id].Offset].val]
      BY <1>3, LookupMap
    <3> QED BY <3>1
  <2>3. \A l \in Key : id \in Stored(l) <=> l = k
    BY <2>1, StoredOnce
  <2>4. [l \in Key |-> IF id \in Stored(l) THEN Store!Absent ELSE AbstractStore[l]]
        = [AbstractStore EXCEPT ![k] = Store!Absent]
    BY <2>3, StoreDomain
  <2>5. Deletes("delete_by_key", id) /\ id < Used
    BY <1>3, <2>1, InSessionView
  <2>6. /\ SessionState = "open"
        /\ UNCHANGED <<SessionState, Formatted, Used, Room>>
        /\ ret' = [op |-> "delete_by_key", id |-> id, obj |-> NULL]
        /\ AbstractStore' = [AbstractStore EXCEPT ![k] = Store!Absent]
    BY <2>1, <2>4, <2>5, DeleteMap
  <2> QED BY <2>2, <2>6 DEF Store!DeleteByKey, Store!Answers
<1> QED BY <1>1, <1>2, <1>3

(* EntryCount answers how many entries were ever put. *)
LEMMA EntryCountMap ==
    ASSUME KVDB_DBObject_EntryCount
    PROVE  Store!EntryCount
BY AnswersMap, InSessionView DEF KVDB_DBObject_EntryCount, Store!EntryCount

(* The deletion that put begins with takes effect on what is live under the    *)
(* key, and on nothing else.                                                   *)
LEMMA PutClears ==
    ASSUME KeysHaveLength, TypeInv, SafeInv, phase = "ready", NEW k \in Key,
           NEW id \in KVDB_conv_key_entry_id(k), id # FAULT,
           NEW del, del = DeleteOld(id)
    PROVE  /\ SoundResult(del) /\ ~(del.ret < 0)
           /\ \A m \in Entries : IsLive(del.IndexTable, m)
                                    <=> /\ IsLive(IndexTable, m)
                                        /\ file[IndexTable[m].Offset].key # k
<1>1. \/ id = -1 /\ \A n \in Live : file[IndexTable[n].Offset].key # k
      \/ id \in Live /\ file[IndexTable[id].Offset].key = k
  BY LookupFinds DEF KeysHaveLength
<1>2. \A m \in Entries : IsLive(IndexTable, m) <=> m \in Live
  BY DEF Live, IsLive
<1>3. CASE id = -1 /\ \A n \in Live : file[IndexTable[n].Offset].key # k
  <2>1. del = Unchanged(0)
    BY <1>3 DEF DeleteOld
  <2>2. del.ret = 0 /\ del.IndexTable = IndexTable
    BY <2>1 DEF Unchanged
  <2>3. SoundResult(del)
    BY <2>1, UnchangedSound
  <2> QED BY <1>2, <1>3, <2>2, <2>3
<1>4. CASE id \in Live /\ file[IndexTable[id].Offset].key = k
  <2>1. /\ id \in Entries /\ id \in Nat /\ id < Header.EntryCount /\ id >= 0
        /\ \A m \in Entries : m \in 0 .. Header.EntryCapacity - 1
    BY <1>4, SessionType DEF Live, Entries
  <2>2. del = DeleteEntry(id)
    BY <2>1 DEF DeleteOld
  <2>3. DeleteResult(id, del)
    BY <2>1, <2>2, DeleteEntryEffect
  <2>4. Indexed(id)
    BY <1>4 DEF SafeInv, IndexInv
  <2>5. del.ret = id /\ ~IsLive(del.IndexTable, id)
    BY <2>1, <2>3, <2>4 DEF DeleteResult
  <2>6. \A m \in Entries : m # id => del.IndexTable[m] = IndexTable[m]
    BY <2>1, <2>3 DEF DeleteResult
  <2>7. \A m \in Live : file[IndexTable[m].Offset].key = k => m = id
    BY <1>4 DEF SafeInv, TableInv, OneLive, KeysHaveLength, Live, Entries, IsLive
  <2>8. \A m \in Entries : IsLive(del.IndexTable, m)
                              <=> /\ IsLive(IndexTable, m)
                                  /\ file[IndexTable[m].Offset].key # k
    <3>1. IsLive(IndexTable, id)
      BY <1>2, <1>4, <2>1
    <3>2. \A m \in Entries : m # id => (IsLive(del.IndexTable, m) <=> IsLive(IndexTable, m))
      BY <2>6 DEF IsLive
    <3> QED BY <1>2, <1>4, <2>5, <2>7, <3>1, <3>2
  <2>9. SoundResult(del)
    BY <2>3 DEF DeleteResult
  <2>10. ~(del.ret < 0)
    BY <2>1, <2>5
  <2> QED BY <2>8, <2>9, <2>10
<1> QED BY <1>1, <1>3, <1>4

(* An accepted put stores the value under its key, as the next entry.          *)
LEMMA AppendMap ==
    ASSUME KeysHaveLength, TypeInv, SafeInv, StoreInv, ~AllocFails, phase = "ready",
           NEW k \in Key, NEW v \in Val, NEW rok \in AllocOutcome, NEW id,
           PutAppends(k, v, id, rok, TRUE)
    PROVE  Store!Put(k, v)
<1> SUFFICES ASSUME NEW del, del = DeleteOld(id),
                    NEW n, n = del.Header.EntryCount,
                    NEW ins, ins = HTInsert(del.htObj, Hash[k], n, TRUE),
                    NEW rec, rec = RecordCell(k, v),
                    AppendStep(k, n, del, ins, rec, TRUE)
             PROVE  Store!Put(k, v)
  BY DEF PutAppends, Append_, AllocOutcome
<1>1. /\ SoundResult(del)
      /\ \A m \in Entries : IsLive(del.IndexTable, m)
                               <=> /\ IsLive(IndexTable, m)
                                   /\ file[IndexTable[m].Offset].key # k
  BY PutClears DEF PutAppends
<1>2. /\ n = Header.EntryCount /\ n \in Nat /\ Header.EntryCapacity \in Nat
      /\ n < Header.EntryCapacity /\ KeyLen[k] <= MAX_KEY_SIZE
      /\ del.Header.EntryCapacity = Header.EntryCapacity
      /\ del.IndexTable \in [0 .. Header.EntryCapacity - 1 -> IndexEntryType]
  BY <1>1, SessionType DEF SoundResult, PutAppends, Accepts
<1>3. ~(ins.ret < 0)
  <2>1. /\ del.htObj.ht_cap = Header.EntryCapacity /\ del.htObj.ht_slot_used_cnt \in Nat
        /\ del.htObj.ht_slot_used_cnt <= n
    BY <1>1, <1>2, SessionType DEF SoundResult, HTObject, SafeInv, SlotsInv
  <2>2. del.htObj.ht_slot_used_cnt < del.htObj.ht_cap /\ Hash[k] \in Nat
    BY <1>2, <2>1, ConstantsAssumption
  <2> QED BY <1>2, <2>1, <2>2, InsertAccepted
<1>4. Appended(k, n, del, rec) /\ phase' = "ready"
  BY <1>3 DEF AppendStep
<1>5. /\ Header'.EntryCount = n + 1 /\ Header'.EntryCapacity = Header.EntryCapacity
      /\ file' = Write(file, OffsetPtr, rec)
      /\ ret' = [op |-> "put", id |-> n, obj |-> NULL]
  BY <1>2, <1>4 DEF Appended, Returns
<1>6. /\ IndexTable'[n].Offset = OffsetPtr
      /\ IndexTable'[n].Flags = del.IndexTable[n].Flags \cup {"FLAG_VALID"}
      /\ \A m \in Entries : IndexTable'[m] = del.IndexTable[m]
  <2>1. n \in DOMAIN del.IndexTable /\ \A m \in Entries : m \in DOMAIN del.IndexTable /\ m # n
    BY <1>2 DEF Entries
  <2>2. IndexTable' = [del.IndexTable EXCEPT
                         ![n] = [KeyHash |-> Hash[k],
                                 Flags   |-> del.IndexTable[n].Flags \cup {"FLAG_VALID"},
                                 Offset  |-> OffsetPtr]]
    BY <1>4 DEF Appended
  <2> QED BY <2>1, <2>2
<1>7. IsLive(IndexTable', n)
  <2>1. \A m \in Header.EntryCount .. Header.EntryCapacity - 1 :
           del.IndexTable[m] = IndexTable[m]
    BY LookupRange, PutDeletes DEF PutAppends, FAULT
  <2>2. del.IndexTable[n] = UnusedEntry
    BY <1>2, <2>1 DEF StoreInv
  <2> QED BY <1>6, <2>2 DEF IsLive, UnusedEntry
<1>8. /\ CellsOK(file) /\ CellOK(rec) /\ OffsetPtr \in Nat /\ OffsetPtr <= OffsetPtr
      /\ Chain(file, IndexTable, n, OffsetPtr) /\ OffsetPtr # 0 /\ HEADER_SIZE <= OffsetPtr
  <2>1. OffsetPtr \in Nat /\ HEADER_SIZE <= OffsetPtr
    BY SessionType DEF SafeInv, TableInv, Chain
  <2> QED BY <1>2, <2>1, CellsWritten, SizesPositive
          DEF SafeInv, TableInv, TypeInv, FileOK
<1>9. /\ file'[OffsetPtr] = rec
      /\ \A m \in Entries : file'[IndexTable[m].Offset] = file[IndexTable[m].Offset]
  <2>1. Write(file, OffsetPtr, rec)[OffsetPtr] = rec
    BY <1>8, WriteEffect
  <2>2. Same(file, IndexTable, Write(file, OffsetPtr, rec), IndexTable, n)
    BY <1>2, <1>8, WriteBehind
  <2> QED BY <1>2, <1>5, <2>1, <2>2 DEF Same, Entries
<1>10. AbstractStore' = [AbstractStore EXCEPT ![k] = [id |-> n, val |-> v]]
  <2>1. \A m \in Entries : m \in 0 .. Header.EntryCapacity - 1
    BY <1>2 DEF Entries
  <2>2. \A m \in Entries :
           /\ IndexTable'[m].Offset = IndexTable[m].Offset
           /\ file'[IndexTable[m].Offset] = file[IndexTable[m].Offset]
           /\ IsLive(IndexTable', m) <=> /\ IsLive(IndexTable, m)
                                         /\ file[IndexTable[m].Offset].key # k
    BY <1>1, <1>6, <1>9, <2>1 DEF SoundResult, IsLive
  <2>3. file'[IndexTable'[n].Offset] = RecordCell(k, v)
    BY <1>6, <1>9
  <2> QED BY <1>2, <1>4, <1>5, <1>7, <2>2, <2>3, AppendedStore
<1>11. UNCHANGED Formatted
  <2>1. Holds(file, 0, "header") => Holds(file', 0, "header")
    <3>1. ASSUME Holds(file, 0, "header") PROVE SizeOf(file[0]) = HEADER_SIZE
      BY <3>1 DEF Holds, SizeOf
    <3>2. 0 + HEADER_SIZE <= OffsetPtr
      BY <1>8, SizesPositive
    <3> QED BY <1>5, <1>8, <3>1, <3>2, WriteEffect DEF Holds
  <2>2. Holds(file', 0, "header") => Holds(file, 0, "header")
    BY <1>5, <1>8 DEF Holds, Write
  <2> QED BY <1>4, <2>1, <2>2 DEF Formatted
<1>12. /\ SessionState = "open" /\ SessionState' = "open"
       /\ Used = n /\ Used' = n + 1 /\ Room = Header.EntryCapacity /\ Room' = Room
  <2>1. CurHeader' = Header'
    BY <1>4 DEF CurHeader, InSession
  <2> QED BY <1>2, <1>4, <1>5, <2>1, InSessionView DEF SessionState, Used, Room
<1>13. k \in {l \in Key : KeyLen[l] <= MAX_KEY_SIZE}
  BY <1>2
<1> QED BY <1>2, <1>5, <1>10, <1>11, <1>12, <1>13 DEF Store!Put, Store!Answers

(* put stores the value, refuses a full database and a long key, or faults. *)
LEMMA PutMap ==
    ASSUME KeysHaveLength, TypeInv, SafeInv, StoreInv, ~AllocFails,
           NEW k \in Key, NEW v \in Val, NEW rok \in AllocOutcome,
           KVDB_DBObject_put(k, v, rok, TRUE)
    PROVE  Store!Put(k, v) \/ Store!Die
<1>1. phase = "ready"
  BY DEF KVDB_DBObject_put
<1>2. CASE ~Accepts(k)
  <2>1. ~(Used < Room /\ k \in {l \in Key : KeyLen[l] <= MAX_KEY_SIZE})
    BY <1>1, <1>2, InSessionView DEF Accepts
  <2>2. Store!OnlyAnswers("put", -1, NULL)
    BY <1>2, AnswersMap DEF KVDB_DBObject_put
  <2>3. SessionState = "open"
    BY <1>1, InSessionView
  <2> QED BY <2>1, <2>2, <2>3 DEF Store!Put, Store!OnlyAnswers
<1>3. CASE Accepts(k)
  <2> PICK id \in KVDB_conv_key_entry_id(k) :
         IF id = FAULT THEN Dies("put")
         ELSE IF DeleteOld(id).ret < 0
         THEN AfterDelete("put", -1, DeleteOld(id))
         ELSE Append_(k, v, DeleteOld(id), rok, TRUE)
    BY <1>3 DEF KVDB_DBObject_put
  <2>1. CASE id = FAULT
    BY <1>1, <2>1, DieMap
  <2>2. CASE id # FAULT
    <3>1. ~(DeleteOld(id).ret < 0)
      BY <1>1, <2>2, PutClears
    <3>2. PutAppends(k, v, id, rok, TRUE)
      BY <1>3, <2>2, <3>1 DEF PutAppends
    <3> QED BY <1>1, <3>2, AppendMap
  <2> QED BY <2>1, <2>2
<1> QED BY <1>2, <1>3

(* close makes a database on disk of the entries of the session.               *)
LEMMA CloseMap ==
    ASSUME TypeInv, SafeInv, StoreInv, ~AllocFails, KVDB_DBObject_close
    PROVE  Store!Close
<1>1. /\ phase = "ready" /\ phase' = "closed"
      /\ ret' = [op |-> "close", id |-> 0, obj |-> NULL]
  BY DEF KVDB_DBObject_close, Returns
<1>2. /\ CurHeader = Header /\ CurTable = IndexTable /\ SessionState = "open"
      /\ Used = Header.EntryCount /\ Room = Header.EntryCapacity
      /\ Header.EntryCount \in Nat
  BY <1>1, InSessionView, SessionType
<1>3. /\ Holds(file', 0, "header")
      /\ file'[0].hdr.EntryCount = Header.EntryCount
      /\ file'[0].hdr.EntryCapacity = Header.EntryCapacity
      /\ \A n \in 0 .. Header.EntryCount - 1 :
            LET T == file'[file'[0].hdr.IndexTableOffset].table
            IN  /\ T[n] = IndexTable[n]
                /\ file'[IndexTable[n].Offset] = file[IndexTable[n].Offset]
  <2>1. CASE db_modified
    <3> DEFINE f == Write(WriteDBIndexTable(file), EOFOffset, EOFCell)
    <3>1. file' = WriteDBFileHeader(f)
      BY <2>1 DEF KVDB_DBObject_close
    <3>2. /\ Holds(file', 0, "header")
          /\ file'[0].hdr.EntryCount = Header.EntryCount
          /\ file'[0].hdr.IndexTableOffset = Header.IndexTableOffset
          /\ Same(file, IndexTable, file', IndexTable, Header.EntryCount)
          /\ Header.EntryCount > 0 =>
                file'[Header.IndexTableOffset] = IndexCell(Header.EntryCount, IndexTable)
      BY <1>1, <3>1, CloseWrites
    <3>3. file'[0].hdr.EntryCapacity = Header.EntryCapacity
      <4>1. file'[0] = HeaderCell([Header EXCEPT !.EOFHeaderOffset = EOFOffset])
        BY <3>1 DEF WriteDBFileHeader, Write
      <4> QED BY <1>1, <4>1, SessionType DEF HeaderCell, HeaderType
    <3>4. ASSUME NEW n \in 0 .. Header.EntryCount - 1
          PROVE  /\ file'[Header.IndexTableOffset].table[n] = IndexTable[n]
                 /\ file'[IndexTable[n].Offset] = file[IndexTable[n].Offset]
      <4>1. Header.EntryCount > 0
        BY <1>2, <3>4
      <4>2. file'[Header.IndexTableOffset].table
               = [m \in 0 .. Header.EntryCount - 1 |-> IndexTable[m]]
        <5>1. file'[Header.IndexTableOffset] = IndexCell(Header.EntryCount, IndexTable)
          BY <3>2, <4>1
        <5>2. IndexCell(Header.EntryCount, IndexTable).table
                 = [m \in 0 .. Header.EntryCount - 1 |-> IndexTable[m]]
          BY DEF IndexCell
        <5> QED BY <5>1, <5>2, Zenon
      <4> QED BY <3>2, <4>2 DEF Same
    <3> QED BY <3>2, <3>3, <3>4
  <2>2. CASE ~db_modified
    <3>1. file' = file
      BY <2>2 DEF KVDB_DBObject_close
    <3>2. MatchesFile
      BY <1>1, <2>2 DEF StoreInv
    <3> QED BY <3>1, <3>2 DEF MatchesFile, DiskTableThere, DiskTable, Entries
  <2> QED BY <2>1, <2>2
<1>4. CurHeader' = file'[0].hdr
  BY <1>1, <1>3 DEF CurHeader, InSession, DiskHeader
<1>5. \A n \in 0 .. Header.EntryCount - 1 :
         /\ CurTable'[n] = IndexTable[n]
         /\ file'[CurTable'[n].Offset] = file[IndexTable[n].Offset]
  <2>1. ASSUME NEW n \in 0 .. Header.EntryCount - 1
        PROVE  CurTable' = file'[file'[0].hdr.IndexTableOffset].table
    <3>1. Header.EntryCount # 0
      BY <1>2, <2>1
    <3> QED BY <1>1, <1>3, <3>1 DEF CurTable, InSession, DiskHeader
  <2> QED BY <1>3, <2>1
<1>6. UNCHANGED AbstractStore
  BY <1>1, <1>2, <1>3, <1>4, <1>5, StoreKept DEF IsLive
<1>7. SessionState' = "closed" /\ Formatted' = TRUE
  BY <1>1, <1>3 DEF SessionState, Formatted
<1>8. UNCHANGED <<Used, Room>>
  BY <1>1, <1>2, <1>3, <1>4 DEF Used, Room
<1> QED BY <1>1, <1>2, <1>6, <1>7, <1>8 DEF Store!Close, Store!Answers

(* Every step is one of the dictionary, or leaves it alone. *)
LEMMA DictionaryStep ==
    ASSUME KeysHaveLength, FullInv, ~AllocFails, [Next]_vars
    PROVE  [Store!ANext]_(Store!avars)
<1>1. TypeInv /\ SafeInv /\ StoreInv /\ EndInv /\ AllocOutcome = {TRUE}
  BY DEF FullInv, IInv, AllocOutcome
<1>2. CASE UNCHANGED vars
  <2>1. StoreStutters
    BY <1>2, MappedSame, Stutters DEF vars, DBObject
  <2> QED BY <2>1 DEF StoreStutters
<1>3. ASSUME NEW cap \in Caps, KVDB_DBObject_create(cap, TRUE)
      PROVE  Store!ANext
  BY <1>3, CreateMap DEF Store!ANext
<1>4. CASE KVDB_DBObject_open(TRUE) \/ OpenStep
  <2>1. Store!Open \/ StoreStutters
    BY <1>1, <1>4, OpenMap, OpenStepMap
  <2> QED BY <2>1 DEF StoreStutters, Store!ANext
<1>5. ASSUME NEW id \in EntryIDs,
             \/ KVDB_DBObject_get(id, TRUE)
             \/ KVDB_DBObject_get_key(id, TRUE)
             \/ KVDB_DBObject_delete(id)
      PROVE  Store!ANext
  <2>1. phase = "ready" /\ id \in 0 .. Room
    BY <1>5, InSessionView
       DEF KVDB_DBObject_get, KVDB_DBObject_get_key, KVDB_DBObject_delete, EntryIDs
  <2>2. Store!Get(id) \/ Store!Delete(id)
    <3>1. \/ OnlyReturns("get", 0, ReadAt(id, "val"))
          \/ OnlyReturns("get_key", 0, ReadAt(id, "key"))
          \/ Deletes("delete", id)
      BY <1>5 DEF KVDB_DBObject_get, KVDB_DBObject_get_key, KVDB_DBObject_delete
    <3> QED BY <1>1, <2>1, <3>1, GetMap, DeleteByNumberMap
  <2> QED BY <2>1, <2>2 DEF Store!ANext
<1>6. ASSUME NEW k \in Key,
             \/ KVDB_DBObject_get_by_key(k, TRUE)
             \/ KVDB_DBObject_delete_by_key(k)
             \/ \E v \in Val, rok \in AllocOutcome : KVDB_DBObject_put(k, v, rok, TRUE)
      PROVE  Store!ANext
  <2>1. CASE KVDB_DBObject_get_by_key(k, TRUE) \/ KVDB_DBObject_delete_by_key(k)
    <3>1. phase = "ready"
      BY <2>1 DEF KVDB_DBObject_get_by_key, KVDB_DBObject_delete_by_key
    <3>2. Store!GetByKey(k) \/ Store!DeleteByKey(k) \/ Store!Die
      BY <1>1, <2>1, <3>1, GetByKeyMap, DeleteByKeyMap
    <3> QED BY <3>2 DEF Store!ANext
  <2>2. ASSUME NEW v \in Val, NEW rok \in AllocOutcome, KVDB_DBObject_put(k, v, rok, TRUE)
        PROVE  Store!ANext
    <3>1. Store!Put(k, v) \/ Store!Die
      BY <1>1, <2>2, PutMap
    <3> QED BY <3>1 DEF Store!ANext
  <2> QED BY <1>6, <2>1, <2>2
<1>7. CASE KVDB_DBObject_EntryCount \/ KVDB_DBObject_close
  <2>1. Store!EntryCount \/ Store!Close
    BY <1>1, <1>7, EntryCountMap, CloseMap
  <2> QED BY <2>1 DEF Store!ANext
<1>8. CASE Next
  BY <1>1, <1>3, <1>4, <1>5, <1>6, <1>7, <1>8 DEF Next
<1> QED BY <1>2, <1>8

(* In the beginning there is an empty dictionary and no database. *)
LEMMA DictionaryInit == Init => Store!AInit
<1> SUFFICES ASSUME Init PROVE Store!AInit
  OBVIOUS
<1>1. phase = "closed" /\ file = EmptyFile /\ ret = [op |-> "none", id |-> 0, obj |-> NULL]
  BY DEF Init
<1>2. ~Holds(file, 0, "header")
  BY <1>1 DEF Holds, EmptyFile
<1>3. CurHeader = NewHeader(0)
  BY <1>1, <1>2, OutsideView
<1>4. CurHeader.EntryCount = 0 /\ CurHeader.EntryCapacity = 0
  BY <1>3 DEF NewHeader
<1>5. \A k : Stored(k) = {}
  BY <1>4 DEF Stored
<1>6. AbstractStore = Store!NoStore
  BY <1>5 DEF AbstractStore, Store!NoStore, Store!Absent
<1>7. SessionState = "closed" /\ Formatted = FALSE /\ Used = 0 /\ Room = 0
  BY <1>1, <1>2, <1>4, OutsideView DEF Formatted
<1> QED BY <1>1, <1>6, <1>7 DEF Store!AInit

(* What put stored is what get finds, in this session and in every later one,    *)
(* until it is replaced or deleted: the database implements the dictionary, as   *)
(* long as allocations succeed and no key is empty (kvdb.c 74-380).              *)
THEOREM DictionaryIsKept == ~AllocFails /\ KeysHaveLength => (Spec => ImplementsStore)
<1> SUFFICES ASSUME ~AllocFails, KeysHaveLength PROVE Spec => ImplementsStore
  OBVIOUS
<1>1. Init => Store!AInit
  BY DictionaryInit
<1>2. FullInv /\ [Next]_vars => [Store!ANext]_(Store!avars)
  BY DictionaryStep
<1> QED BY <1>1, <1>2, FullInvariantHolds, PTL DEF Spec, ImplementsStore, Store!ASpec
=============================================================================
