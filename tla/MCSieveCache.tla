---------------------------- MODULE MCSieveCache ----------------------------
(* Small instances of SieveCache. *)
EXTENDS SieveCache, TLC

CONSTANTS v0, v1, v2, v3

\* The size of each value.
MCSizeOf == [v \in Values |-> CASE v = v0 -> 0 [] v = v1 -> 1 [] v = v2 -> 2 [] v = v3 -> 3]

\* History the runs' properties do not look at, and no guard reads.
WithoutUnspared ==
    <<entries, list, size, maxSize, table, call, broken>>

\* Bounds the calls on a broken list: their keys have hashes that lead to
\* removed slots.
ReusesSlots == broken => growthLimit' = growthLimit

ReusingSpec == Init /\ [][Next /\ ReusesSlots]_vars /\ WF_vars(Trim)

Symmetric == Permutations(Keys)
=============================================================================
