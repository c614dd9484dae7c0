------------------------------- MODULE MCKVDB -------------------------------
(***************************************************************************)
(* Small instances of KVDB.  Sizes are in units that keep their order: a   *)
(* header of 4, records of 2 plus key and value, index entries of 1.       *)
(***************************************************************************)
EXTENDS KVDBInv, TLC

CONSTANTS a, b, empty, long, u, w

\* a and b collide in every table; the empty key has the FNV-1a basis as hash.
MCHash   == [k \in Key |-> IF k = b THEN 6 ELSE IF k = empty THEN 3 ELSE 0]
MCKeyLen == [k \in Key |-> IF k = empty THEN 0 ELSE IF k = long THEN 3 ELSE IF k = b THEN 2 ELSE 1]
MCValLen == [v \in Val |-> IF v = u THEN 0 ELSE 2]
=============================================================================
