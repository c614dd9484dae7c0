---------------------------- MODULE OpenAddrTable ---------------------------
(***************************************************************************)
(* The superseded index of core/src/hash/legacy: a set of keys in an open- *)
(* addressing table with linear probing and tombstones.  An insertion      *)
(* takes the first slot that is not in use and never looks for the key.    *)
(***************************************************************************)
EXTENDS Integers, FiniteSets, FiniteSetsExt

CONSTANTS
    ProbeKeys,      \* the keys; those in LongKeys exceed MAX_KEY_SIZE
    LongKeys,
    ProbeHash,      \* the hash of each key
    TableSizes      \* the sizes a table is created with

ASSUME ProbeAssumption ==
    /\ ProbeHash \in [ProbeKeys -> Nat]
    /\ LongKeys \subseteq ProbeKeys
    /\ TableSizes \subseteq Nat

VARIABLES
    hash_entry_arr,         \* the slots: a flag, and a key if in use; <<>> before Init
    entry_count,
    nonempty_entry_count,
    answer                  \* what the last call returned

probeVars == <<hash_entry_arr, entry_count, nonempty_entry_count, answer>>

Unused(flag) == [flag |-> flag]
Used(key)    == [flag |-> "ENTRY_USED", key |-> key]

NoTable == hash_entry_arr = <<>>

ProbeInit ==
    /\ hash_entry_arr = <<>>
    /\ entry_count = 0
    /\ nonempty_entry_count = 0
    /\ answer = 0

table_size == Cardinality(DOMAIN hash_entry_arr)

\* INIT_HTOBJ_FAILED for a size of 0; nothing else is changed then.
InitHashTableObject(MaxEntryCount) ==
    /\ NoTable
    /\ IF MaxEntryCount = 0
       THEN answer' = -1 /\ UNCHANGED <<hash_entry_arr, entry_count, nonempty_entry_count>>
       ELSE /\ hash_entry_arr' = [s \in 0 .. MaxEntryCount - 1 |-> Unused("ENTRY_EMPTY")]
            /\ entry_count' = 0
            /\ nonempty_entry_count' = 0
            /\ answer' = MaxEntryCount

DestroyHashTableObject ==
    /\ ~NoTable
    /\ hash_entry_arr' = <<>>
    /\ UNCHANGED <<entry_count, nonempty_entry_count, answer>>

-----------------------------------------------------------------------------
(* Probing: the slots in the order of a walk from the one of the hash.      *)

Probe(key, n) == (ProbeHash[key] + n) % table_size

\* The first step of the walk that meets Stop; table_size if none does.
StepTo(key, Stop(_)) ==
    Min({n \in 0 .. table_size - 1 : Stop(hash_entry_arr[Probe(key, n)])} \cup {table_size})

\* Mutant of Empty: a walk ends at a tombstone too.
EmptyOrDeleted(slot) == slot.flag # "ENTRY_USED"

Free(slot)       == slot.flag \in {"ENTRY_EMPTY", "ENTRY_DELETED"}
Empty(slot)      == slot.flag = "ENTRY_EMPTY"
Matches(slot, k) == slot.flag = "ENTRY_USED" /\ slot.key = k

\* Where search_key finds the key, and -1 (KEY_NOT_FOUND) at an empty slot or
\* when the walk is back at its start.
Search(key) ==
    LET found == StepTo(key, LAMBDA slot : Matches(slot, key))
    IN  IF found < StepTo(key, Empty) THEN Probe(key, found) ELSE -1

Unchanged(ret) ==
    /\ answer' = ret
    /\ UNCHANGED <<hash_entry_arr, entry_count, nonempty_entry_count>>

\* When malloc fails the slot is EMPTY, also if it was DELETED.
insert_entry(key, malloc_ok) ==
    /\ ~NoTable
    /\ LET h   == Probe(key, StepTo(key, Free))
           old == hash_entry_arr[h].flag
       IN  IF key \in LongKeys THEN Unchanged(-1)             \* INSERT_ENTRY_FAILED
           ELSE IF entry_count = table_size THEN Unchanged(-2)   \* HASH_TABLE_FULL
           ELSE IF ~malloc_ok
           THEN /\ hash_entry_arr' = [hash_entry_arr EXCEPT ![h] = Unused("ENTRY_EMPTY")]
                /\ answer' = -1
                /\ UNCHANGED <<entry_count, nonempty_entry_count>>
           ELSE /\ hash_entry_arr' = [hash_entry_arr EXCEPT ![h] = Used(key)]
                /\ entry_count' = entry_count + 1
                /\ nonempty_entry_count' = nonempty_entry_count + (IF old = "ENTRY_EMPTY" THEN 1 ELSE 0)
                /\ answer' = h

\* Only the answer: SEARCH_KEY_FAILED for a key too long.
search_key(key) ==
    /\ ~NoTable
    /\ Unchanged(IF key \in LongKeys THEN -2 ELSE Search(key))

\* What a deletion leaves in the slot.
Tombstoned == Unused("ENTRY_DELETED")

delete_entry(key) ==
    /\ ~NoTable
    /\ IF key \in LongKeys THEN Unchanged(-2)                 \* DEL_KEY_FAILED
       ELSE IF Search(key) < 0 THEN Unchanged(-1)
       ELSE /\ hash_entry_arr' = [hash_entry_arr EXCEPT ![Search(key)] = Tombstoned]
            /\ entry_count' = entry_count - 1
            /\ answer' = 0                                    \* DEL_KEY_SUCCESS
            /\ UNCHANGED nonempty_entry_count

ProbeNext ==
    \/ \E n \in TableSizes : InitHashTableObject(n)
    \/ DestroyHashTableObject
    \/ \E key \in ProbeKeys :
          \/ \E malloc_ok \in BOOLEAN : insert_entry(key, malloc_ok)
          \/ search_key(key)
          \/ delete_entry(key)

ProbeSpec == ProbeInit /\ [][ProbeNext]_probeVars

-----------------------------------------------------------------------------
(* Correctness. *)

Slots(flags) == {s \in DOMAIN hash_entry_arr : hash_entry_arr[s].flag \in flags}

NonEmpty == Slots({"ENTRY_USED", "ENTRY_DELETED"})

ProbeType ==
    ~NoTable =>
       /\ table_size \in Nat \ {0}
       /\ DOMAIN hash_entry_arr = 0 .. table_size - 1
       /\ \A s \in DOMAIN hash_entry_arr :
             /\ hash_entry_arr[s].flag \in {"ENTRY_EMPTY", "ENTRY_DELETED", "ENTRY_USED"}
             /\ hash_entry_arr[s].flag = "ENTRY_USED" => hash_entry_arr[s].key \in ProbeKeys
       /\ nonempty_entry_count \in Nat

\* The walk of the key in slot s comes to s past slots that are not empty.
Reached(s) ==
    \E n \in 0 .. table_size - 1 :
       /\ Probe(hash_entry_arr[s].key, n) = s
       /\ \A m \in 0 .. n - 1 : ~Empty(hash_entry_arr[Probe(hash_entry_arr[s].key, m)])

(* No walk to a used slot is cut unless a tombstone became empty, which the  *)
(* count shows: the inductive invariant behind UsedKeysAreFound.             *)
ProbeIInv ==
    /\ ProbeType
    /\ ~NoTable =>
          /\ entry_count = Cardinality(Slots({"ENTRY_USED"}))
          /\ nonempty_entry_count >= Cardinality(NonEmpty)
          /\ nonempty_entry_count = Cardinality(NonEmpty) =>
                \A s \in Slots({"ENTRY_USED"}) : Reached(s)

(* Every key in use is found, however often slots of its walk were deleted and *)
(* taken again, as long as the count of slots that are not empty is right: it  *)
(* goes wrong exactly when a malloc fails in a deleted slot, which cuts the    *)
(* walk of the keys behind it (legacy/hash_table_open_addr_lib.c 63-88, 104-116, *)
(* 134-153).                                                                   *)
UsedKeysAreFound ==
    ~NoTable =>
       LET nonempty == Cardinality(NonEmpty)
       IN  /\ entry_count = Cardinality(Slots({"ENTRY_USED"}))
           /\ nonempty_entry_count >= nonempty
           /\ nonempty_entry_count = nonempty =>
                \A s \in Slots({"ENTRY_USED"}) : Search(hash_entry_arr[s].key) >= 0
=============================================================================
