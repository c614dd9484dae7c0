------------------------------ MODULE KVStore ------------------------------
(***************************************************************************)
(* What the database promises its caller: a dictionary that survives close *)
(* and open, in which put replaces, delete removes and get finds, and      *)
(* which accepts capacity puts in its life, whatever is deleted.  Entries  *)
(* are numbered in the order of their puts.  A database exists on disk     *)
(* from its first close on.  The process may die inside a keyed operation. *)
(***************************************************************************)
EXTENDS Integers

CONSTANTS Key, Val, NULL, ZeroVal, Caps,
          Storable     \* the keys put accepts

VARIABLES
    st,          \* "closed", "open" or "dead"
    formatted,   \* whether the file holds a database that open accepts
    store,       \* per key the number and the value of its entry
    used, cap,   \* entries ever put, and how many there may be
    ret          \* what the last operation returned

avars == <<st, formatted, store, used, cap, ret>>

Absent == [id |-> -1, val |-> NULL]
NoStore == [k \in Key |-> Absent]

Answers(op, id, obj) == ret' = [op |-> op, id |-> id, obj |-> obj]

OnlyAnswers(op, id, obj) ==
    Answers(op, id, obj) /\ UNCHANGED <<st, formatted, store, used, cap>>

AInit ==
    /\ st = "closed"
    /\ formatted = FALSE
    /\ store = NoStore
    /\ used = 0
    /\ cap = 0
    /\ ret = [op |-> "none", id |-> 0, obj |-> NULL]

Create(c) ==
    /\ st = "closed"
    /\ st' = "open"
    /\ formatted' = FALSE
    /\ store' = NoStore
    /\ used' = 0
    /\ cap' = c
    /\ Answers("create", 0, NULL)

Open ==
    /\ st = "closed"
    /\ IF formatted
       THEN st' = "open" /\ Answers("open", 0, NULL)
       ELSE st' = "closed" /\ Answers("open", -1, NULL)
    /\ UNCHANGED <<formatted, store, used, cap>>

Close ==
    /\ st = "open"
    /\ st' = "closed"
    /\ formatted' = TRUE
    /\ Answers("close", 0, NULL)
    /\ UNCHANGED <<store, used, cap>>

\* An accepted put takes the next number; any other changes nothing.
Put(k, v) ==
    /\ st = "open"
    /\ IF used < cap /\ k \in Storable
       THEN /\ store' = [store EXCEPT ![k] = [id |-> used, val |-> v]]
            /\ used' = used + 1
            /\ Answers("put", used, NULL)
       ELSE Answers("put", -1, NULL) /\ UNCHANGED <<store, used>>
    /\ UNCHANGED <<st, formatted, cap>>

GetByKey(k) ==
    /\ st = "open"
    /\ IF store[k] = Absent
       THEN OnlyAnswers("get_by_key", -1, NULL)
       ELSE OnlyAnswers("get_by_key", 0, store[k].val)

DeleteByKey(k) ==
    /\ st = "open"
    /\ Answers("delete_by_key", store[k].id, NULL)
    /\ store' = [store EXCEPT ![k] = Absent]
    /\ UNCHANGED <<st, formatted, used, cap>>

\* The key of entry id, if it is still there.
KeysOf(id) == {k \in Key : store[k] # Absent /\ store[k].id = id}

\* A number never given out may yield an empty value while there is no header.
Get(id) ==
    /\ st = "open"
    /\ \/ \E k \in KeysOf(id) : \/ OnlyAnswers("get", 0, store[k].val)
                                \/ OnlyAnswers("get_key", 0, k)
       \/ /\ KeysOf(id) = {}
          /\ \E op \in {"get", "get_key"}, obj \in {NULL, ZeroVal} :
                /\ obj = ZeroVal => id >= used /\ id < cap /\ ~formatted
                /\ OnlyAnswers(op, 0, obj)

\* Deleting what is already deleted changes nothing, and may say either.
Delete(id) ==
    /\ st = "open"
    /\ store' = [k \in Key |-> IF k \in KeysOf(id) THEN Absent ELSE store[k]]
    /\ \/ id >= used /\ Answers("delete", -1, NULL)
       \/ id < used /\ Answers("delete", id, NULL)
       \/ id < used /\ KeysOf(id) = {} /\ Answers("delete", -2, NULL)
    /\ UNCHANGED <<st, formatted, used, cap>>

EntryCount == st = "open" /\ OnlyAnswers("EntryCount", used, NULL)

Die ==
    /\ st = "open"
    /\ st' = "dead"
    /\ formatted' = FALSE
    /\ store' = NoStore
    /\ used' = 0
    /\ cap' = 0
    /\ \E op \in {"put", "get_by_key", "delete_by_key"} : Answers(op, -1, NULL)

ANext ==
    \/ \E c \in Caps : Create(c)
    \/ Open
    \/ Close
    \/ \E k \in Key, v \in Val : Put(k, v)
    \/ \E k \in Key : GetByKey(k) \/ DeleteByKey(k)
    \/ \E id \in 0 .. cap : Get(id) \/ Delete(id)
    \/ EntryCount
    \/ Die

ASpec == AInit /\ [][ANext]_avars
=============================================================================
