----------------------------- MODULE MCDBLibV31 -----------------------------
(* A small instance of DBLibV31: three keys, two of them of one hash and of *)
(* different lengths.                                                      *)
EXTENDS DBLibV31, TLC

CONSTANTS a, b, c, v

MCKeyLen == a :> 1 @@ b :> 1 @@ c :> 2
MCValLen == v :> 1
MCHash   == a :> 2 @@ b :> 0 @@ c :> 2

\* A deletion in a later session is counted again, so the count has no bound.
FewRecounts == db # NULL => db.ValidEntryCount >= -1

View == <<v31, hash_entry_arr>>
=============================================================================
