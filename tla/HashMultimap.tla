---------------------------- MODULE HashMultimap ----------------------------
(***************************************************************************)
(* What the hash index promises: it keeps, per hash, the ids inserted under*)
(* it and not deleted, in the order of their insertion, because a lookup   *)
(* takes the first that fits.  An insertion, an update or a copy may be    *)
(* refused, and then nothing changes; a deletion is refused exactly when   *)
(* there is nothing to delete.                                             *)
(***************************************************************************)
EXTENDS Naturals, SequencesExt

CONSTANTS Hashes, Ids

VARIABLES ids,   \* per hash the sequence of its ids
          ret    \* the last operation and whether it succeeded

mvars == <<ids, ret>>

Nothing == [h \in Hashes |-> <<>>]

Answers(op, ok) == ret' = [op |-> op, ok |-> ok]

MInit == ids = Nothing /\ ret = [op |-> "none", ok |-> TRUE]

\* An operation that left everything as it was.
Without(op, ok) == Answers(op, ok) /\ UNCHANGED ids

Create == ids = Nothing /\ \E ok \in BOOLEAN : Without("create", ok)

Destroy == Answers("destroy", TRUE) /\ ids' = Nothing

Insert(h, id) ==
    \/ Answers("insert", TRUE) /\ ids' = [ids EXCEPT ![h] = Append(@, id)]
    \/ Without("insert", FALSE)

Update(h, id) ==
    \/ /\ ids[h] # <<>>
       /\ Answers("update", TRUE)
       /\ ids' = [ids EXCEPT ![h][1] = id]
    \/ Without("update", FALSE)

Delete(h, id) ==
    IF Contains(ids[h], id)
    THEN Answers("delete", TRUE) /\ ids' = [ids EXCEPT ![h] = RemoveFirst(@, id)]
    ELSE Without("delete", FALSE)

Copy == \E ok \in BOOLEAN : Without("copy", ok)

\* A deletion from a table of no slots ends the process.
Die == ids = Nothing /\ Without("delete", FALSE)

MNext ==
    \/ Create \/ Destroy \/ Copy \/ Die
    \/ \E h \in Hashes, id \in Ids : Insert(h, id) \/ Update(h, id) \/ Delete(h, id)

MSpec == MInit /\ [][MNext]_mvars
=============================================================================
