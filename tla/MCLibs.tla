------------------------------- MODULE MCLibs -------------------------------
(* The memory arena and the two superseded tables, which share nothing: each *)
(* behavior is one of them at work, the others never begin.                  *)
EXTENDS MemArena, OpenAddrTable, ChainTable, TLC

CONSTANTS k1, k2, k3, kLong, t1, t2, t3

VARIABLE at_work

libs == <<at_work, arenaVars, probeVars, chainVars>>

LibsInit ==
    /\ at_work \in {"arena", "probe", "chain"}
    /\ ArenaInit /\ ProbeInit /\ ChainInit

LibsNext ==
    \/ at_work = "arena" /\ ArenaNext /\ UNCHANGED <<at_work, probeVars, chainVars>>
    \/ at_work = "probe" /\ ProbeNext /\ UNCHANGED <<at_work, arenaVars, chainVars>>
    \/ at_work = "chain" /\ ChainNext /\ UNCHANGED <<at_work, arenaVars, probeVars>>

LibsSpec == LibsInit /\ [][LibsNext]_libs

\* Two keys that collide and one that does not, before the end of the array.
MCProbeHash == k1 :> 1 @@ k2 :> 1 @@ k3 :> 2 @@ kLong :> 0

MCChainHash == k1 :> 1 @@ k2 :> 1 @@ k3 :> 2

Symmetry == Permutations({t1, t2, t3})

\* Bound: no step follows one in which a sum has wrapped or a table was not copied
\* completely or destroyed with garbage, or in which the count of nonempty slots is
\* wrong for the second time.
MaxCutWalks == 1

Sound ==
    /\ ~wrapped /\ ~lost /\ ~faulted
    /\ NoTable \/ nonempty_entry_count <= table_size + MaxCutWalks
=============================================================================
