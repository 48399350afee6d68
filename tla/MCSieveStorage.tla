--------------------------- MODULE MCSieveStorage ---------------------------
(* Small instances of SieveStorage.  The elements are numbers; those of Low  *)
(* have the hash code LowHash, the others HighHash.                          *)
EXTENDS SieveStorage

CONSTANTS Low, LowHash, HighHash

MCHashCodes == {[e \in Elements |-> IF e \in Low THEN LowHash ELSE HighHash]}

\* As HashesInSlots of MCScatterTable, with the links.
SlotsAndLinks ==
    <<metadata, capacity, growthLimit, size, h1, pc, index, links, mapping, dropped,
      [i \in Slots |-> IF i \in Occupied THEN h1[elements[i]] ELSE NoSlot],
      [n \in DOMAIN order |-> {i \in Occupied : elements[i] = order[n]}],
      IF pc = "drop" THEN h1[pending] ELSE NoSlot>>

\* The elements are put in their order, and once there is no room for another
\* one the oldest are removed.
InTurn ==
    pc = "idle" =>
       /\ \A e \in Stored' \ Stored : e = Count(Full) + Count(Deleted) + 1
       /\ \A e \in Stored \ Stored' : growthLimit = 0 /\ e = Min(Stored)

InTurnSpec == SieveInit /\ [][SieveNext /\ InTurn]_vars
=============================================================================
