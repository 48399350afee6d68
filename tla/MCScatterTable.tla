--------------------------- MODULE MCScatterTable ---------------------------
(* Small instances of ScatterTable.  The elements are numbers; those up to   *)
(* Split have one hash code, the others a second one.                        *)
EXTENDS ScatterTable

CONSTANTS Hashes, Split

MCHashCodes ==
    {[e \in Elements |-> IF e <= Split THEN a ELSE b] :
        <<a, b>> \in {p \in Hashes \X Hashes : p[1] <= p[2]}}

\* Two states that differ in which of the elements with one hash code are in
\* the table, or in what lies in a slot that is not occupied, have the same
\* futures up to a permutation of these elements.
HashesInSlots ==
    <<metadata, capacity, growthLimit, size, h1, pc, index,
      [i \in Slots |-> IF i \in Occupied THEN h1[elements[i]] ELSE NoSlot],
      IF pc = "drop" THEN h1[pending] ELSE NoSlot>>

\* Elements with the same hash code are added in their order.
InOrder ==
    \A e \in Elements : e \in Stored' \ Stored =>
       \A d \in Elements : d < e /\ h1[d] = h1[e] => d \in Stored'

OrderedSpec == Init /\ [][Next /\ InOrder]_tableVars
=============================================================================
