---------------------------- MODULE MCKVDBProcs ----------------------------
(* Small instances of KVDBProcs. *)
EXTENDS KVDBProcsInv, FiniteSets, TLC

CONSTANTS p1, p2, a, b, empty, w

MCKeyLen == [k \in Key |-> IF k = a THEN 1 ELSE IF k = b THEN 2 ELSE 0]
\* Other bytes say that the entry is elsewhere, with or without its deletion.
MCMisread == [Offset : {0}, deleted : BOOLEAN, hashed : {FALSE}]
MCValLen == [v \in Val |-> 1]

\* Remains of killed sessions on the disk: a header, two records, a table and an
\* EOF marker are what a file needs.
MaxCells == 5

FewRemains == Cardinality(DOMAIN disk) <= MaxCells

\* One reader that has misread its table is enough to disturb the others.
OneMisread == Cardinality({p \in Proc : overrun[p]}) <= 1

\* A file with an empty key is not opened again: it is enough that it has no other
\* and that one process tries.
Puts(p, k) == \E n \in DOMAIN key_arr[p] : key_arr[p][n] = k

OfEmpty(o) == disk[o].kind \in {"record", "torn"} /\ disk[o].key = empty

EmptyAlone ==
    \/ /\ \A o \in DOMAIN disk : ~OfEmpty(o)
       /\ \A p \in Proc : ~Puts(p, empty)
    \/ /\ Cardinality(DOMAIN disk) <= 4
       /\ \A p \in Proc : Header[p].EntryCount <= 1
       /\ Cardinality({p \in Proc : phase[p] # "closed"}) <= 1

Symmetry == Permutations(Proc)
=============================================================================
