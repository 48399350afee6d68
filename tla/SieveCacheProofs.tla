-------------------------- MODULE SieveCacheProofs --------------------------
(***************************************************************************)
(* Theorems about SieveCache, for any set of keys, sizes and maxima: the   *)
(* table keeps room for a probe to end in, size is the sum of the sizes,   *)
(* calls leave the cache within its maximum; and, as long as no clean-up   *)
(* of the table has lost links, the linked list holds the entries, calls   *)
(* fail for an oversized value only, and the list with its hand is the     *)
(* queue of the SIEVE policy.                                              *)
(***************************************************************************)
EXTENDS SieveCache, FiniteSetTheorems, SequenceTheorems, ProofFacts, TLAPS

(***************************************************************************)
(* The capacities of the table.                                            *)
(***************************************************************************)

\* A capacity counts slots, and growing within the bound gives a capacity.
LEMMA CapacityFacts ==
    ASSUME NEW c, IsCapacity(c)
    PROVE  /\ c \in Nat /\ (c = 0 \/ c >= 7)
           /\ NextCapacity(c) <= 2 ^ 30 - 1 => IsCapacity(NextCapacity(c))
<1> DEFINE P == [i \in 3 .. 31 |-> 2 ^ i]
<1>1. \A i \in 3 .. 31 : P[i] = 2 ^ i
  OBVIOUS
<1>2. /\ P[3] = 8 /\ P[4] = 16 /\ P[5] = 32 /\ P[6] = 64 /\ P[7] = 128
      /\ P[8] = 256 /\ P[9] = 512 /\ P[10] = 1024 /\ P[11] = 2048
      /\ P[12] = 4096 /\ P[13] = 8192 /\ P[14] = 16384 /\ P[15] = 32768
      /\ P[16] = 65536 /\ P[17] = 131072 /\ P[18] = 262144
      /\ P[19] = 524288 /\ P[20] = 1048576 /\ P[21] = 2097152
      /\ P[22] = 4194304 /\ P[23] = 8388608 /\ P[24] = 16777216
      /\ P[25] = 33554432 /\ P[26] = 67108864 /\ P[27] = 134217728
      /\ P[28] = 268435456 /\ P[29] = 536870912 /\ P[30] = 1073741824
      /\ P[31] = 2147483648
  BY <1>1
<1> HIDE DEF P
<1>3. \A i \in 3 .. 30 : P[i] \in Nat /\ P[i] >= 8 /\ P[i + 1] = 2 * P[i]
  BY <1>2
<1>4. \A n : IsCapacity(n) <=> n = 0 \/ \E i \in 3 .. 30 : n = P[i] - 1
  BY <1>1 DEF IsCapacity
<1>5. CASE c = 0
  BY <1>2, <1>4, <1>5 DEF NextCapacity
<1>6. CASE c # 0
  <2>1. PICK i \in 3 .. 30 : c = P[i] - 1
    BY <1>4, <1>6
  <2>2. c \in Nat /\ c >= 7
    BY <1>3, <2>1
  <2>3. NextCapacity(c) = P[i + 1] - 1
    BY <1>3, <1>6, <2>1 DEF NextCapacity
  <2>4. NextCapacity(c) <= 2 ^ 30 - 1 => i # 30
    BY <1>1, <1>2, <2>3
  <2> QED
    BY <1>4, <2>2, <2>3, <2>4
<1> QED
  BY <1>5, <1>6

\* A table filled to its load has an Empty slot left, and one that has just
\* grown, or dropped its Deleted slots, has room for one more entry.
LEMMA LoadFacts ==
    ASSUME NEW c \in Nat, c = 0 \/ c >= 7
    PROVE  /\ LoadedCapacity(c) \in Nat
           /\ c > 0 => LoadedCapacity(c) < c
           /\ LoadedCapacity(c) < LoadedCapacity(NextCapacity(c))
           /\ \A n \in Nat : c > 8 /\ n * 32 <= c * 25 => n < LoadedCapacity(c)
BY DEF LoadedCapacity, NextCapacity

(***************************************************************************)
(* Types, and the room in the table.                                       *)
(***************************************************************************)

\* The part of the inductive invariant about the table.
RoomInv == IsFiniteSet(Present) /\ TableHasRoom

\* Writing one entry changes Present accordingly.
LEMMA PresentWithEntry ==
    ASSUME TypeOK, NEW k \in Keys, NEW v \in Values,
           entries' = [entries EXCEPT ![k] = v]
    PROVE  Present' = Present \cup {k}
BY SieveAssumption DEF TypeOK, Present

LEMMA PresentWithoutEntry ==
    ASSUME TypeOK, NEW k \in Keys, entries' = [entries EXCEPT ![k] = NoValue]
    PROVE  Present' = Present \ {k}
BY DEF TypeOK, Present

LEMMA SizeOfEntryType ==
    ASSUME TypeOK, NEW k \in Keys
    PROVE  SizeOfEntry(k) \in Nat
BY SieveAssumption DEF TypeOK, SizeOfEntry, Present

\* Nodes stay nodes when one of them is unlinked.
LEMMA UnlinkNodeType ==
    ASSUME NEW ns \in [Keys -> Nodes], NEW k \in Keys
    PROVE  UnlinkNode(ns, k) \in [Keys -> Nodes]
BY SieveAssumption DEF UnlinkNode, Nodes, EmptyNode

\* removeValueAt keeps the types.
LEMMA RemoveValueType ==
    ASSUME TypeOK, NEW k \in Keys, NEW h \in Keys \cup {NoKey}, RemoveValue(k, h)
    PROVE  /\ entries' \in [Keys -> Values \cup {NoValue}]
           /\ nodes' \in [Keys -> Nodes]
           /\ {head', tail', hand'} \subseteq Keys \cup {NoKey}
           /\ size' \in Int
           /\ tombstones' \in Nat
           /\ unspared' \subseteq Keys
<1>1. nodes \in [Keys -> Nodes]
  BY DEF TypeOK
<1>2. nodes[k].prev \in Keys \cup {NoKey} /\ nodes[k].next \in Keys \cup {NoKey}
  BY <1>1 DEF Nodes
<1>3. nodes' \in [Keys -> Nodes]
  BY <1>1, UnlinkNodeType DEF RemoveValue
<1>4. size' \in Int
  BY SizeOfEntryType DEF RemoveValue, TypeOK
<1>5. entries' \in [Keys -> Values \cup {NoValue}]
  BY DEF RemoveValue, TypeOK
<1>6. {head', tail', hand'} \subseteq Keys \cup {NoKey}
  BY <1>2 DEF RemoveValue, HandAfter, TypeOK
<1>7. tombstones' \in Nat /\ unspared' \subseteq Keys
  BY DEF RemoveValue, TypeOK
<1> QED
  BY <1>3, <1>4, <1>5, <1>6, <1>7

\* removeValueAt gives up one entry for a Deleted slot.
LEMMA RemoveValueRoom ==
    ASSUME TypeOK, RoomInv, NEW k \in Present, NEW h, RemoveValue(k, h)
    PROVE  RoomInv'
<1>1. Present' = Present \ {k}
  BY PresentWithoutEntry DEF RemoveValue, Present
<1>2. /\ IsFiniteSet(Present') /\ Cardinality(Present) \in Nat
      /\ Cardinality(Present') = Cardinality(Present) - 1
  BY <1>1, FS_RemoveElement, FS_CardinalityType DEF RoomInv
<1>3. /\ tombstones' = tombstones + 1 /\ growthLimit' = growthLimit
      /\ capacity' = capacity
  BY DEF RemoveValue
<1>4. TableHasRoom'
  BY <1>2, <1>3 DEF TypeOK, RoomInv, TableHasRoom
<1> QED
  BY <1>2, <1>4 DEF RoomInv

\* The part of an insertion the three of them share.
LEMMA AddEntryType ==
    ASSUME TypeOK, RoomInv, NEW k \in Keys, NEW v \in Values, AddEntry(k, v)
    PROVE  /\ entries' \in [Keys -> Values \cup {NoValue}]
           /\ size' \in Int
           /\ maxSize' = maxSize /\ candidate' = candidate
           /\ linking' = k /\ limit' = maxSize /\ pc' = "trim"
           /\ Present' = Present \cup {k}
           /\ IsFiniteSet(Present')
           /\ Cardinality(Present) \in Nat
           /\ Cardinality(Present') = Cardinality(Present) + 1
<1>1. Present' = Present \cup {k} /\ k \notin Present
  BY PresentWithEntry DEF AddEntry
<1>2. /\ IsFiniteSet(Present') /\ Cardinality(Present) \in Nat
      /\ Cardinality(Present') = Cardinality(Present) + 1
  BY <1>1, FS_AddElement, FS_CardinalityType DEF RoomInv
<1>3. size' \in Int /\ entries' \in [Keys -> Values \cup {NoValue}]
  BY SieveAssumption DEF AddEntry, TypeOK
<1> QED
  BY <1>1, <1>2, <1>3 DEF AddEntry, StartTrim

LEMMA RoomInit == Init => TypeOK /\ RoomInv
<1> SUFFICES ASSUME Init
             PROVE  TypeOK /\ RoomInv
  OBVIOUS
<1>1. IsCapacity(capacity) /\ capacity \in Nat /\ (capacity = 0 \/ capacity >= 7)
  BY SieveAssumption, CapacityFacts DEF Init
<1>2. /\ growthLimit = LoadedCapacity(capacity) /\ growthLimit \in Nat
      /\ capacity > 0 => growthLimit < capacity
  BY <1>1, LoadFacts DEF Init
<1>3. Present = {} /\ IsFiniteSet(Present) /\ Cardinality(Present) = 0
  BY FS_EmptySet DEF Init, Present
<1>4. RoomInv
  BY <1>1, <1>2, <1>3 DEF Init, RoomInv, TableHasRoom
<1>5. EmptyNode \in Nodes
  BY DEF EmptyNode, Nodes
<1>6. /\ entries \in [Keys -> Values \cup {NoValue}]
      /\ nodes \in [Keys -> Nodes]
  BY <1>5 DEF Init
<1>7. /\ {head, tail, hand, candidate, linking} \subseteq Keys \cup {NoKey}
      /\ size \in Int /\ limit \in Int /\ tombstones \in Nat
      /\ maxSize \in MaxSizes \cup {InitialMaxSize}
  BY DEF Init
<1>8. /\ pc \in {"idle", "trim", "scan", "crashed", "torn"}
      /\ unspared \subseteq Keys
      /\ broken \in BOOLEAN
  BY DEF Init
<1>9. TypeOK
  BY <1>1, <1>2, <1>6, <1>7, <1>8 DEF TypeOK
<1> QED
  BY <1>4, <1>9
LEMMA MaxSizesType ==
    /\ InitialMaxSize \in Nat /\ InitialMaxSize > 0
    /\ \A n \in MaxSizes : n \in Nat /\ n > 0
BY SieveAssumption

\* The part of the inductive invariant about the call in progress.
CallInv ==
    /\ linking # NoKey => linking \in Present /\ limit = maxSize /\ pc # "idle"
    /\ pc # "scan" => candidate = NoKey
    /\ pc = "scan" => ~TrimDone /\ candidate \in Listed \cup {NoKey}
    /\ pc = "idle" => size <= maxSize
    /\ pc \in {"trim", "scan"} => limit <= maxSize \/ size <= maxSize

\* Every step keeps the types and the room in the table.
LEMMA RoomStep == TypeOK /\ RoomInv /\ CallInv /\ [Next]_vars => TypeOK' /\ RoomInv'
<1> SUFFICES ASSUME TypeOK, RoomInv, CallInv, [Next]_vars
             PROVE  TypeOK' /\ RoomInv'
  OBVIOUS
<1> USE MaxSizesType
<1>1. ASSUME NEW k \in Keys, GetHit(k)
      PROVE  TypeOK' /\ RoomInv'
  <2>1. nodes' \in [Keys -> Nodes]
    BY <1>1 DEF GetHit, TypeOK, Nodes
  <2>2. unspared' \subseteq Keys
    BY <1>1 DEF GetHit, TypeOK
  <2> QED
    BY <1>1, <2>1, <2>2 DEF GetHit, table, call, TypeOK, RoomInv, TableHasRoom, Present
<1>2. ASSUME NEW k \in Keys, Remove(k)
      PROVE  TypeOK' /\ RoomInv'
  <2>1. /\ k \in Present /\ RemoveValue(k, hand) /\ hand \in Keys \cup {NoKey}
        /\ pc' \in {"idle", "torn"} /\ UNCHANGED <<limit, candidate, linking>>
    BY <1>2 DEF Remove, TypeOK
  <2>2. RoomInv'
    BY <2>1, RemoveValueRoom
  <2> QED
    BY <2>1, <2>2, RemoveValueType DEF RemoveValue, TypeOK
<1>3. ASSUME NEW k \in Keys, NEW v \in Values, Replace(k, v)
      PROVE  TypeOK' /\ RoomInv'
  <2>1. entries' \in [Keys -> Values \cup {NoValue}] /\ size' \in Int
    BY <1>3, SieveAssumption, SizeOfEntryType DEF Replace, TypeOK
  <2>2. Present' = Present
    BY <1>3, PresentWithEntry DEF Replace
  <2>3. limit' = maxSize /\ linking' = NoKey /\ pc' = "trim" /\ candidate' = candidate
        /\ UNCHANGED <<list, maxSize, table, history>>
    BY <1>3 DEF Replace, StartTrim
  <2> QED
    BY <2>1, <2>2, <2>3 DEF list, table, history, TypeOK, RoomInv, TableHasRoom
<1>4. ASSUME NEW k \in Keys, NEW v \in Values, InsertInTombstone(k, v)
      PROVE  TypeOK' /\ RoomInv'
  <2>1. AddEntry(k, v) /\ tombstones > 0 /\ tombstones' = tombstones - 1
        /\ UNCHANGED <<capacity, growthLimit, list, history>>
    BY <1>4 DEF InsertInTombstone
  <2>2. RoomInv'
    BY <2>1, AddEntryType DEF TypeOK, RoomInv, TableHasRoom
  <2> QED
    BY <2>1, <2>2, AddEntryType DEF list, history, TypeOK
<1>5. ASSUME NEW k \in Keys, NEW v \in Values, InsertInEmpty(k, v)
      PROVE  TypeOK' /\ RoomInv'
  <2>1. AddEntry(k, v) /\ growthLimit > 0 /\ growthLimit' = growthLimit - 1
        /\ UNCHANGED <<capacity, tombstones, list, history>>
    BY <1>5 DEF InsertInEmpty
  <2>2. LoadedCapacity(capacity) \in Nat
        /\ (capacity > 0 => LoadedCapacity(capacity) < capacity)
    BY CapacityFacts, LoadFacts DEF TypeOK
  <2> DEFINE n == Cardinality(Present)
  <2>3. /\ n \in Nat /\ Cardinality(Present') = n + 1 /\ IsFiniteSet(Present')
        /\ growthLimit \in Nat /\ tombstones \in Nat /\ capacity \in Nat
        /\ growthLimit + n + tombstones = LoadedCapacity(capacity)
    BY <2>1, AddEntryType, CapacityFacts DEF TypeOK, RoomInv, TableHasRoom
  <2> HIDE DEF n
  <2>4. /\ growthLimit' + (n + 1) + tombstones' = LoadedCapacity(capacity')
        /\ capacity' > 0 => (n + 1) + tombstones' < capacity'
    BY <2>1, <2>2, <2>3
  <2>5. RoomInv'
    BY <2>3, <2>4 DEF RoomInv, TableHasRoom
  <2> QED
    BY <2>1, <2>5, AddEntryType DEF list, history, TypeOK
<1>6. ASSUME NEW k \in Keys, NEW v \in Values, NEW c, IsCapacity(c),
             RebuildTable(c), AddEntry(k, v), Cardinality(Present) < LoadedCapacity(c)
      PROVE  /\ RoomInv' /\ IsCapacity(capacity')
             /\ growthLimit' \in Nat /\ tombstones' \in Nat
  <2> DEFINE n == Cardinality(Present)
  <2>1. /\ growthLimit = 0 /\ capacity' = c
        /\ growthLimit' = LoadedCapacity(c) - n - 1 /\ tombstones' = 0
    BY <1>6 DEF RebuildTable
  <2>2. /\ n \in Nat /\ Cardinality(Present') = n + 1 /\ IsFiniteSet(Present')
        /\ n < LoadedCapacity(c)
    BY <1>6, AddEntryType
  <2>3. c \in Nat /\ LoadedCapacity(c) \in Nat /\ (c > 0 => LoadedCapacity(c) < c)
    BY <1>6, CapacityFacts, LoadFacts
  <2> HIDE DEF n
  <2>4. /\ growthLimit' \in Nat
        /\ growthLimit' + (n + 1) + tombstones' = LoadedCapacity(capacity')
        /\ capacity' > 0 => (n + 1) + tombstones' < capacity'
    BY <2>1, <2>2, <2>3
  <2>5. RoomInv'
    BY <2>2, <2>4 DEF RoomInv, TableHasRoom
  <2> QED
    BY <1>6, <2>1, <2>4, <2>5
<1>15. /\ capacity \in Nat /\ (capacity = 0 \/ capacity >= 7)
       /\ Cardinality(Present) \in Nat
  BY CapacityFacts, FS_CardinalityType DEF TypeOK, RoomInv
<1>16. ASSUME NEW k \in Keys, NEW v \in Values, InsertAfterGrowth(k, v)
      PROVE  TypeOK' /\ RoomInv'
  <2> DEFINE c == NextCapacity(capacity)
             n == Cardinality(Present)
  <2>1. /\ c <= CapacityBound /\ RebuildTable(c) /\ AddEntry(k, v)
        /\ nodes' = Unvisited(nodes) /\ UNCHANGED <<head, tail, hand, history>>
    BY <1>16 DEF InsertAfterGrowth
  <2>2. IsCapacity(c)
    <3>1. c \in Nat
      BY <1>15 DEF NextCapacity
    <3>2. c <= 2 ^ 30 - 1
      <4> HIDE DEF c
      <4> QED
        BY <2>1, <3>1, SieveAssumption
    <3> QED
      BY <1>15, <3>2, CapacityFacts DEF TypeOK
  <2>3. n < LoadedCapacity(c)
    <3>1. n <= LoadedCapacity(capacity)
      BY <1>15 DEF TypeOK, RoomInv, TableHasRoom
    <3>2. LoadedCapacity(capacity) < LoadedCapacity(c) /\ LoadedCapacity(capacity) \in Nat
      BY <1>15, LoadFacts
    <3>3. LoadedCapacity(c) \in Nat
      BY <2>2, CapacityFacts, LoadFacts
    <3> HIDE DEF c, n
    <3> QED
      BY <1>15, <3>1, <3>2, <3>3 DEF n
  <2> HIDE DEF c
  <2>4. /\ RoomInv' /\ IsCapacity(capacity')
        /\ growthLimit' \in Nat /\ tombstones' \in Nat
    BY <1>6, <2>1, <2>2, <2>3
  <2>5. nodes' \in [Keys -> Nodes]
    BY <2>1 DEF Unvisited, TypeOK, Nodes
  <2> QED
    BY <2>1, <2>4, <2>5, AddEntryType DEF history, TypeOK
<1>17. ASSUME NEW k \in Keys, NEW v \in Values, NEW lost, InsertAfterCleanup(k, v, lost)
      PROVE  TypeOK' /\ RoomInv'
  <2>1. /\ DropsDeletes /\ RebuildTable(capacity) /\ AddEntry(k, v)
        /\ nodes' = Patched(nodes, lost) /\ unspared' = unspared
        /\ head' = Kept(head, lost) /\ tail' = Kept(tail, lost)
        /\ hand' = Kept(hand, lost) /\ broken' \in BOOLEAN
    BY <1>17 DEF InsertAfterCleanup, TypeOK
  <2>2. Cardinality(Present) < LoadedCapacity(capacity)
    BY <1>15, <2>1, LoadFacts DEF DropsDeletes
  <2>3. /\ RoomInv' /\ IsCapacity(capacity')
        /\ growthLimit' \in Nat /\ tombstones' \in Nat
    BY <1>6, <2>1, <2>2 DEF TypeOK
  <2>4. nodes' \in [Keys -> Nodes]
    BY <2>1 DEF Patched, Kept, TypeOK, Nodes
  <2>5. {head', tail', hand'} \subseteq Keys \cup {NoKey}
    BY <2>1 DEF Kept, TypeOK
  <2> QED
    BY <2>1, <2>3, <2>4, <2>5, AddEntryType DEF TypeOK
<1>7. ASSUME NEW n \in MaxSizes, Resize(n)
      PROVE  TypeOK' /\ RoomInv'
  BY <1>7 DEF Resize, StartTrim, list, table, history, TypeOK, RoomInv, TableHasRoom, Present
<1>8. ASSUME NEW n \in MaxSizes \cup {-1}, TrimToSize(n)
      PROVE  TypeOK' /\ RoomInv'
  BY <1>8 DEF TrimToSize, StartTrim, list, table, history, TypeOK, RoomInv, TableHasRoom, Present
<1>9. CASE TrimReturns
  <2>1. nodes' \in [Keys -> Nodes] /\ {head', tail'} \subseteq Keys \cup {NoKey}
    <3>1. CASE linking = NoKey
      BY <1>9, <3>1 DEF TrimReturns, TypeOK
    <3>2. CASE linking # NoKey
      <4>1. linking \in Keys /\ head \in Keys \cup {NoKey} /\ MoveNodeToHead(linking)
        BY <1>9, <3>2 DEF TrimReturns, TypeOK
      <4> DEFINE linked == [nodes EXCEPT ![linking] = [EmptyNode EXCEPT !.next = head]]
      <4>2. linked \in [Keys -> Nodes]
        BY <4>1 DEF EmptyNode, Nodes, TypeOK
      <4> HIDE DEF linked
      <4>3. [linked EXCEPT ![head].prev = linking] \in [Keys -> Nodes]
        BY <4>1, <4>2 DEF Nodes
      <4>4. nodes' \in [Keys -> Nodes]
        BY <4>1, <4>2, <4>3 DEF MoveNodeToHead, linked
      <4> QED
        BY <4>1, <4>4 DEF MoveNodeToHead, TypeOK
    <3> QED
      BY <3>1, <3>2
  <2> QED
    BY <1>9, <2>1 DEF TrimReturns, table, history, TypeOK, RoomInv, TableHasRoom, Present
<1>10. CASE Search
  BY <1>10 DEF Search, list, table, history, TypeOK, RoomInv, TableHasRoom, Present
<1>11. CASE Spare
  <2>1. candidate \in Keys /\ nodes[candidate].prev \in Keys \cup {NoKey}
    BY <1>11 DEF Spare, TypeOK, Nodes
  <2>2. nodes' \in [Keys -> Nodes]
    BY <1>11, <2>1 DEF Spare, TypeOK, Nodes
  <2> QED
    BY <1>11, <2>1, <2>2 DEF Spare, table, TypeOK, RoomInv, TableHasRoom, Present
<1>12. CASE Evict
  <2>1. candidate \in Keys /\ nodes[candidate].prev \in Keys \cup {NoKey}
    BY <1>12 DEF Evict, TypeOK, Nodes
  <2>2. RemoveValue(candidate, nodes[candidate].prev)
        /\ pc' \in {"trim", "torn"} /\ candidate' = NoKey /\ UNCHANGED <<limit, linking>>
    BY <1>12 DEF Evict
  <2>3. candidate \in Present
    BY <1>12 DEF Evict, CallInv, Listed
  <2>4. RoomInv'
    BY <2>2, <2>3, RemoveValueRoom
  <2> QED
    BY <2>1, <2>2, <2>4, RemoveValueType DEF RemoveValue, TypeOK
<1>13. CASE ScanFails
  BY <1>13 DEF ScanFails, list, table, history, TypeOK, RoomInv, TableHasRoom, Present
<1>14. CASE UNCHANGED vars
  BY <1>14 DEF vars, list, table, call, history, TypeOK, RoomInv, TableHasRoom, Present
<1> QED
  BY <1>1, <1>2, <1>3, <1>4, <1>5, <1>7, <1>8, <1>9, <1>10, <1>11, <1>12,
     <1>13, <1>14, <1>16, <1>17 DEF Next, Call, Trim
(***************************************************************************)
(* size is the sum of the sizes.                                           *)
(***************************************************************************)

\* The part of the inductive invariant about size.
SumInv == IsFiniteSet(Units) /\ SizeIsSum

UnitsOf(k) == {k} \X (1 .. SizeOfEntry(k))

\* The units are those of each key, a key without an entry having none; here
\* before and after a step.
LEMMA UnitsByKey ==
    /\ \A u : u \in Units <=> \E k \in Keys : u \in UnitsOf(k)
    /\ \A u : u \in Units' <=> \E k \in Keys : u \in UnitsOf(k)'
<1>1. \A k \in Keys : /\ k \notin Present => UnitsOf(k) = {}
                      /\ k \notin Present' => UnitsOf(k)' = {}
  BY DEF UnitsOf, SizeOfEntry
<1>2. Present \subseteq Keys /\ Present' \subseteq Keys
  BY DEF Present
<1> QED
  BY <1>1, <1>2 DEF Units, UnitsOf

\* When the entry of one key changes, the units change by the sizes of its old
\* and its new value.
LEMMA UnitsChange ==
    ASSUME TypeOK, TypeOK', IsFiniteSet(Units), NEW k \in Keys,
           \A j \in Keys \ {k} : entries'[j] = entries[j]
    PROVE  /\ IsFiniteSet(Units')
           /\ Cardinality(Units') = Cardinality(Units) - SizeOfEntry(k) + SizeOfEntry(k)'
           /\ Cardinality(Units) \in Nat /\ Cardinality(Units') \in Nat
<1> DEFINE Old == UnitsOf(k)
           New == UnitsOf(k)'
           Rest == Units \ Old
<1>1. SizeOfEntry(k) \in Nat /\ SizeOfEntry(k)' \in Nat
  BY SizeOfEntryType, SieveAssumption DEF TypeOK, SizeOfEntry, Present
<1>2. /\ IsFiniteSet(Old) /\ Cardinality(Old) = SizeOfEntry(k)
      /\ IsFiniteSet(New) /\ Cardinality(New) = SizeOfEntry(k)'
  <2>1. IsFiniteSet(Old) /\ Cardinality(Old) = SizeOfEntry(k)
    BY <1>1, UnitsOfSize DEF UnitsOf
  <2>2. IsFiniteSet(New) /\ Cardinality(New) = SizeOfEntry(k)'
    BY <1>1, UnitsOfSize DEF UnitsOf
  <2> QED
    BY <2>1, <2>2
<1>3. \A j \in Keys \ {k} : UnitsOf(j)' = UnitsOf(j)
  BY DEF UnitsOf, SizeOfEntry, Present
<1>4. \A j \in Keys \ {k} : UnitsOf(j) \cap Old = {} /\ UnitsOf(j) \cap New = {}
  BY DEF UnitsOf
<1>5. Units' = Rest \cup New
  BY <1>3, <1>4, UnitsByKey
<1>6. Rest \cap New = {} /\ Units \cap Old = Old
  BY <1>4, UnitsByKey
<1> HIDE DEF Old, New
<1>7. /\ IsFiniteSet(Rest \cup New)
      /\ Cardinality(Rest \cup New) = Cardinality(Units) - Cardinality(Old) + Cardinality(New)
      /\ Cardinality(Units) \in Nat /\ Cardinality(Rest \cup New) \in Nat
  BY <1>2, <1>6, SetReplaced
<1> HIDE DEF Rest
<1> QED
  BY <1>2, <1>5, <1>7

LEMMA SumInit == Init => SumInv
<1> SUFFICES ASSUME Init
             PROVE  SumInv
  OBVIOUS
<1>1. Present = {}
  BY DEF Init, Present
<1>2. Units = {}
  BY <1>1 DEF Units
<1> QED
  BY <1>2, FS_EmptySet DEF Init, SumInv, SizeIsSum

\* A step that changes no entry changes no unit.
LEMMA SameUnits ==
    ASSUME SumInv, entries' = entries, size' = size
    PROVE  SumInv'
BY DEF SumInv, SizeIsSum, Units, SizeOfEntry, Present

\* A step that changes one entry keeps the sum when it keeps the books.
LEMMA OneEntry ==
    ASSUME TypeOK, TypeOK', SumInv, NEW k \in Keys, NEW v \in Values \cup {NoValue},
           entries' = [entries EXCEPT ![k] = v],
           size' = size - SizeOfEntry(k) + (IF v = NoValue THEN 0 ELSE SizeOf[v])
    PROVE  SumInv'
<1>1. \A j \in Keys \ {k} : entries'[j] = entries[j]
  BY DEF TypeOK
<1>2. entries'[k] = v
  BY DEF TypeOK
<1>3. SizeOfEntry(k)' = IF v = NoValue THEN 0 ELSE SizeOf[v]
  BY <1>2 DEF SizeOfEntry, Present
<1>4. /\ IsFiniteSet(Units')
      /\ Cardinality(Units') = Cardinality(Units) - SizeOfEntry(k) + SizeOfEntry(k)'
  BY <1>1, UnitsChange DEF SumInv
<1> QED
  BY <1>3, <1>4 DEF SumInv, SizeIsSum

\* Every step keeps size the sum of the sizes.
LEMMA SumStep == TypeOK /\ TypeOK' /\ CallInv /\ SumInv /\ [Next]_vars => SumInv'
<1> SUFFICES ASSUME TypeOK, TypeOK', CallInv, SumInv, [Next]_vars
             PROVE  SumInv'
  OBVIOUS
<1>1. ASSUME NEW k \in Keys, NEW v \in Values, AddEntry(k, v)
      PROVE  SumInv'
  <2>1. SizeOfEntry(k) = 0 /\ v # NoValue /\ size \in Int /\ SizeOf[v] \in Nat
    BY <1>1, SieveAssumption DEF AddEntry, SizeOfEntry, TypeOK
  <2>2. size' = size - SizeOfEntry(k) + (IF v = NoValue THEN 0 ELSE SizeOf[v])
    BY <1>1, <2>1 DEF AddEntry
  <2> QED
    BY <1>1, <2>2, OneEntry DEF AddEntry
<1>2. ASSUME NEW k \in Keys, NEW h, RemoveValue(k, h)
      PROVE  SumInv'
  <2>1. SizeOfEntry(k) \in Nat /\ size \in Int
    BY SizeOfEntryType DEF TypeOK
  <2>2. size' = size - SizeOfEntry(k) + (IF NoValue = NoValue THEN 0 ELSE SizeOf[NoValue])
    BY <1>2, <2>1 DEF RemoveValue
  <2> QED
    BY <1>2, <2>2, OneEntry DEF RemoveValue
<1>3. ASSUME NEW k \in Keys, NEW v \in Values, Replace(k, v)
      PROVE  SumInv'
  <2>1. SizeOfEntry(k) \in Nat /\ v # NoValue /\ size \in Int /\ SizeOf[v] \in Nat
    BY SizeOfEntryType, SieveAssumption DEF TypeOK
  <2>2. size' = size - SizeOfEntry(k) + (IF v = NoValue THEN 0 ELSE SizeOf[v])
    BY <1>3, <2>1 DEF Replace
  <2> QED
    BY <1>3, <2>2, OneEntry DEF Replace
<1>4. ASSUME NEW k \in Keys, Remove(k)
      PROVE  SumInv'
  BY <1>2, <1>4 DEF Remove
<1>5. ASSUME NEW k \in Keys, NEW v \in Values,
             \/ InsertInTombstone(k, v) \/ InsertInEmpty(k, v) \/ InsertAfterGrowth(k, v)
             \/ \E lost \in Losses : InsertAfterCleanup(k, v, lost)
      PROVE  SumInv'
  BY <1>1, <1>5
     DEF InsertInTombstone, InsertInEmpty, InsertAfterGrowth, InsertAfterCleanup
<1>6. CASE Evict
  <2>1. candidate \in Keys
    BY <1>6 DEF Evict, TypeOK
  <2> QED
    BY <1>2, <1>6, <2>1 DEF Evict
<1>7. CASE \/ \E k \in Keys : GetHit(k)
           \/ \E n \in MaxSizes : Resize(n)
           \/ \E n \in MaxSizes \cup {-1} : TrimToSize(n)
           \/ TrimReturns \/ Search \/ Spare \/ ScanFails
           \/ UNCHANGED vars
  BY <1>7, SameUnits
     DEF GetHit, Resize, TrimToSize, TrimReturns, Search, Spare, ScanFails, vars
<1> QED
  BY <1>3, <1>4, <1>5, <1>6, <1>7 DEF Next, Call, Trim

(***************************************************************************)
(* The linked list.                                                        *)
(***************************************************************************)

\* q lists each element of S once.
IsOrder(q, n, S) ==
    /\ n \in Nat /\ q \in [1 .. n -> S]
    /\ \A i, j \in 1 .. n : q[i] = q[j] => i = j
    /\ \A k \in S : \E i \in 1 .. n : q[i] = k

\* The nodes ns are linked in the order of q between h and t.
Chain(ns, h, t, q, n) ==
    /\ h = IF n = 0 THEN NoKey ELSE q[1]
    /\ t = IF n = 0 THEN NoKey ELSE q[n]
    /\ \A i \in 1 .. n : /\ ns[q[i]].prev = IF i = 1 THEN NoKey ELSE q[i - 1]
                         /\ ns[q[i]].next = IF i = n THEN NoKey ELSE q[i + 1]

IsList(q, n) == IsOrder(q, n, Listed) /\ Chain(nodes, head, tail, q, n)

Removed(q, n, j) == [i \in 1 .. n - 1 |-> IF i < j THEN q[i] ELSE q[i + 1]]

Pushed(k, q, n) == [i \in 1 .. n + 1 |-> IF i = 1 THEN k ELSE q[i - 1]]

LEMMA RemovedOrder ==
    ASSUME NEW q, NEW n, NEW S, IsOrder(q, n, S), NEW j \in 1 .. n
    PROVE  IsOrder(Removed(q, n, j), n - 1, S \ {q[j]})
<1> DEFINE r == Removed(q, n, j)
<1>1. n \in Nat /\ n - 1 \in Nat /\ q \in [1 .. n -> S]
  BY DEF IsOrder
<1>2. \A i \in 1 .. n - 1 : r[i] = IF i < j THEN q[i] ELSE q[i + 1]
  BY DEF Removed
<1>3. r \in [1 .. n - 1 -> S \ {q[j]}]
  BY <1>1 DEF IsOrder, Removed
<1> HIDE DEF r
<1>4. ASSUME NEW a \in 1 .. n - 1, NEW b \in 1 .. n - 1, r[a] = r[b]
      PROVE  a = b
  BY <1>1, <1>2, <1>4 DEF IsOrder
<1>5. ASSUME NEW k \in S \ {q[j]}
      PROVE  \E i \in 1 .. n - 1 : r[i] = k
  <2>1. PICK i \in 1 .. n : q[i] = k
    BY DEF IsOrder
  <2>2. CASE i < j
    BY <1>1, <1>2, <2>1, <2>2
  <2>3. CASE i > j
    <3>1. i - 1 \in 1 .. n - 1 /\ ~(i - 1 < j) /\ (i - 1) + 1 = i
      BY <1>1, <2>3
    <3> QED
      BY <1>2, <2>1, <3>1
  <2> QED
    BY <2>1, <2>2, <2>3
<1> QED
  BY <1>1, <1>3, <1>4, <1>5 DEF IsOrder, r

LEMMA PushedOrder ==
    ASSUME NEW q, NEW n, NEW S, IsOrder(q, n, S), NEW k, k \notin S
    PROVE  IsOrder(Pushed(k, q, n), n + 1, S \cup {k})
<1> DEFINE r == Pushed(k, q, n)
<1>1. n \in Nat /\ q \in [1 .. n -> S]
  BY DEF IsOrder
<1>2. \A i \in 1 .. n + 1 : r[i] = IF i = 1 THEN k ELSE q[i - 1]
  BY DEF Pushed
<1>3. r \in [1 .. n + 1 -> S \cup {k}]
  BY <1>1 DEF Pushed
<1> HIDE DEF r
<1>4. ASSUME NEW a \in 1 .. n + 1, NEW b \in 1 .. n + 1, r[a] = r[b]
      PROVE  a = b
  BY <1>1, <1>2, <1>4 DEF IsOrder
<1>5. ASSUME NEW m \in S \cup {k}
      PROVE  \E i \in 1 .. n + 1 : r[i] = m
  <2>1. CASE m = k
    BY <1>1, <1>2, <2>1
  <2>2. CASE m \in S
    <3>1. PICK i \in 1 .. n : q[i] = m
      BY <2>2 DEF IsOrder
    <3>2. i + 1 \in 1 .. n + 1 /\ i + 1 # 1 /\ (i + 1) - 1 = i
      BY <1>1
    <3> QED
      BY <1>2, <3>1, <3>2
  <2> QED
    BY <2>1, <2>2
<1> QED
  BY <1>1, <1>3, <1>4, <1>5 DEF IsOrder, r

\* What removeNode writes.
LEMMA UnlinkFields ==
    ASSUME NEW ns \in [Keys -> Nodes], NEW k \in Keys, NEW m \in Keys
    PROVE  /\ m = k => UnlinkNode(ns, k)[m] = EmptyNode
           /\ m # k => /\ UnlinkNode(ns, k)[m].prev
                            = IF m = ns[k].next THEN ns[k].prev ELSE ns[m].prev
                       /\ UnlinkNode(ns, k)[m].next
                            = IF m = ns[k].prev THEN ns[k].next ELSE ns[m].next
                       /\ UnlinkNode(ns, k)[m].visited = ns[m].visited
<1>1. m # NoKey /\ ns[m] \in Nodes
  BY SieveAssumption
<1> QED
  BY <1>1 DEF UnlinkNode, Nodes

\* Unlinking the j-th node of a list.
LEMMA RemovedChain ==
    ASSUME NEW ns \in [Keys -> Nodes], NEW h, NEW t, NEW q, NEW n,
           NEW S \in SUBSET Keys, IsOrder(q, n, S), Chain(ns, h, t, q, n),
           NEW j \in 1 .. n, NEW k, k = q[j]
    PROVE  Chain(UnlinkNode(ns, k),
                 IF ns[k].prev = NoKey THEN ns[k].next ELSE h,
                 IF ns[k].next = NoKey THEN ns[k].prev ELSE t,
                 Removed(q, n, j), n - 1)
<1> DEFINE r == Removed(q, n, j)
           us == UnlinkNode(ns, k)
           hh == IF ns[k].prev = NoKey THEN ns[k].next ELSE h
           tt == IF ns[k].next = NoKey THEN ns[k].prev ELSE t
<1>1. n \in Nat /\ n > 0 /\ q \in [1 .. n -> S]
  BY DEF IsOrder
<1>2. \A i \in 1 .. n - 1 : r[i] = IF i < j THEN q[i] ELSE q[i + 1]
  BY DEF Removed
<1>3. \A i \in 1 .. n : q[i] \in Keys /\ q[i] # NoKey
  BY <1>1, SieveAssumption
<1>4. /\ ns[k].prev = IF j = 1 THEN NoKey ELSE q[j - 1]
      /\ ns[k].next = IF j = n THEN NoKey ELSE q[j + 1]
  BY DEF Chain
<1>5. \A i \in 1 .. n : i # j =>
        /\ us[q[i]].prev = IF q[i] = ns[k].next THEN ns[k].prev ELSE ns[q[i]].prev
        /\ us[q[i]].next = IF q[i] = ns[k].prev THEN ns[k].next ELSE ns[q[i]].next
  BY <1>3, UnlinkFields DEF IsOrder
<1> HIDE DEF r, us
<1>6. ASSUME NEW i \in 1 .. n, i # j
      PROVE  /\ us[q[i]].prev = IF i = j + 1 THEN ns[k].prev
                                ELSE IF i = 1 THEN NoKey ELSE q[i - 1]
             /\ us[q[i]].next = IF i = j - 1 THEN ns[k].next
                                ELSE IF i = n THEN NoKey ELSE q[i + 1]
  <2>1. q[i] = ns[k].next <=> i = j + 1
    BY <1>1, <1>3, <1>4 DEF IsOrder
  <2>2. q[i] = ns[k].prev <=> i = j - 1
    BY <1>1, <1>3, <1>4 DEF IsOrder
  <2> QED
    BY <1>5, <1>6, <2>1, <2>2 DEF Chain
<1>7. hh = IF n - 1 = 0 THEN NoKey ELSE r[1]
  BY <1>1, <1>2, <1>3, <1>4 DEF Chain
<1>8. tt = IF n - 1 = 0 THEN NoKey ELSE r[n - 1]
  BY <1>1, <1>2, <1>3, <1>4 DEF Chain
<1>9. ASSUME NEW i \in 1 .. n - 1
      PROVE  /\ us[r[i]].prev = IF i = 1 THEN NoKey ELSE r[i - 1]
             /\ us[r[i]].next = IF i = n - 1 THEN NoKey ELSE r[i + 1]
  <2>1. CASE i < j
    <3>1. i \in 1 .. n /\ i # j /\ r[i] = q[i] /\ i # j + 1
      BY <1>1, <1>2, <2>1
    <3>2. us[r[i]].prev = IF i = 1 THEN NoKey ELSE q[i - 1]
      BY <1>6, <3>1
    <3>3. i # 1 => r[i - 1] = q[i - 1]
      BY <1>1, <1>2, <2>1
    <3>4. us[r[i]].next = IF i = j - 1 THEN ns[k].next
                          ELSE IF i = n THEN NoKey ELSE q[i + 1]
      BY <1>6, <3>1
    <3>5. CASE i = j - 1
      BY <1>1, <1>2, <1>4, <3>2, <3>3, <3>4, <3>5
    <3>6. CASE i # j - 1
      <4>1. i # n - 1 /\ i # n /\ r[i + 1] = q[i + 1]
        BY <1>1, <1>2, <2>1, <3>6
      <4> QED
        BY <3>2, <3>3, <3>4, <3>6, <4>1
    <3> QED
      BY <3>5, <3>6
  <2>2. CASE i >= j
    <3> DEFINE m == i + 1
    <3>1. m \in 1 .. n /\ m # j /\ r[i] = q[m] /\ m # j - 1 /\ m # 1
      BY <1>1, <1>2, <2>2
    <3>2. us[q[m]].prev = IF m = j + 1 THEN ns[k].prev ELSE q[m - 1]
      BY <1>6, <3>1
    <3>3. us[q[m]].next = IF m = n THEN NoKey ELSE q[m + 1]
      BY <1>6, <3>1
    <3>4. us[q[m]].next = IF i = n - 1 THEN NoKey ELSE r[i + 1]
      BY <1>1, <1>2, <2>2, <3>3
    <3>5. us[q[m]].prev = IF i = 1 THEN NoKey ELSE r[i - 1]
      <4>1. CASE i = j
        BY <1>1, <1>2, <1>4, <3>2, <4>1
      <4>2. CASE i > j
        BY <1>1, <1>2, <3>2, <4>2
      <4> QED
        BY <1>1, <2>2, <4>1, <4>2
    <3> QED
      BY <3>1, <3>4, <3>5
  <2> QED
    BY <1>1, <2>1, <2>2
<1> QED
  BY <1>7, <1>8, <1>9 DEF Chain, r, us

\* Linking a node before the head of a list.
LEMMA PushedChain ==
    ASSUME NEW ns \in [Keys -> Nodes], NEW h, NEW t, NEW q, NEW n,
           NEW S \in SUBSET Keys, IsOrder(q, n, S), Chain(ns, h, t, q, n),
           NEW k \in Keys \ S, NEW ms \in [Keys -> Nodes],
           ms[k].prev = NoKey, ms[k].next = h,
           \A m \in S : /\ ms[m].prev = IF m = h THEN k ELSE ns[m].prev
                        /\ ms[m].next = ns[m].next
    PROVE  Chain(ms, k, IF t = NoKey THEN k ELSE t, Pushed(k, q, n), n + 1)
<1> DEFINE r == Pushed(k, q, n)
<1>1. n \in Nat /\ q \in [1 .. n -> S]
  BY DEF IsOrder
<1>2. \A i \in 1 .. n + 1 : r[i] = IF i = 1 THEN k ELSE q[i - 1]
  BY DEF Pushed
<1>3. \A i \in 1 .. n : q[i] \in S /\ q[i] # NoKey
  BY <1>1, SieveAssumption
<1> HIDE DEF r
<1>4. (IF t = NoKey THEN k ELSE t) = r[n + 1] /\ k = r[1]
  BY <1>1, <1>2, <1>3 DEF Chain
<1>5. ASSUME NEW i \in 1 .. n + 1
      PROVE  /\ ms[r[i]].prev = IF i = 1 THEN NoKey ELSE r[i - 1]
             /\ ms[r[i]].next = IF i = n + 1 THEN NoKey ELSE r[i + 1]
  <2>1. CASE i = 1
    BY <1>1, <1>2, <2>1 DEF Chain
  <2>2. CASE i # 1
    <3> DEFINE m == i - 1
    <3>1. m \in 1 .. n /\ r[i] = q[m]
      BY <1>1, <1>2, <2>2
    <3>2. q[m] = h <=> m = 1
      BY <1>1, <1>3, <3>1 DEF Chain, IsOrder
    <3>3. /\ ms[q[m]].prev = IF m = 1 THEN k ELSE q[m - 1]
          /\ ms[q[m]].next = IF m = n THEN NoKey ELSE q[m + 1]
      BY <1>3, <3>1, <3>2 DEF Chain
    <3> QED
      BY <1>1, <1>2, <2>2, <3>1, <3>3
  <2> QED
    BY <2>1, <2>2
<1> QED
  BY <1>1, <1>4, <1>5 DEF Chain, r

\* A step that leaves the links and the listed entries alone keeps the list.
LEMMA SameList ==
    ASSUME NEW q, NEW n, IsList(q, n),
           Listed' = Listed, head' = head, tail' = tail,
           \A k \in Listed : /\ nodes'[k].prev = nodes[k].prev
                             /\ nodes'[k].next = nodes[k].next
    PROVE  IsList(q, n)'
<1>1. IsOrder(q, n, Listed')
  BY DEF IsList
<1>2. \A i \in 1 .. n : q[i] \in Listed
  BY DEF IsList, IsOrder
<1>3. Chain(nodes', head', tail', q, n)
  BY <1>2 DEF IsList, Chain
<1> QED
  BY <1>1, <1>3 DEF IsList

\* removeValueAt takes the j-th node out of the list.
LEMMA RemoveList ==
    ASSUME TypeOK, NEW q, NEW n, IsList(q, n), NEW j \in 1 .. n, NEW k, k = q[j],
           NEW h, RemoveValue(k, h), linking' = linking
    PROVE  IsList(Removed(q, n, j), n - 1)' /\ Listed' = Listed \ {k}
<1>1. Listed \in SUBSET Keys /\ k \in Keys /\ nodes \in [Keys -> Nodes]
  BY DEF Listed, Present, IsList, IsOrder, TypeOK
<1>2. Listed' = Listed \ {k}
  BY <1>1, PresentWithoutEntry DEF RemoveValue, Listed
<1>3. IsOrder(Removed(q, n, j), n - 1, Listed \ {k})
  BY RemovedOrder DEF IsList
<1>4. Chain(nodes', head', tail', Removed(q, n, j), n - 1)
  <2>1. /\ nodes' = UnlinkNode(nodes, k)
        /\ head' = IF nodes[k].prev = NoKey THEN nodes[k].next ELSE head
        /\ tail' = IF nodes[k].next = NoKey THEN nodes[k].prev ELSE tail
    BY DEF RemoveValue
  <2>2. IsOrder(q, n, Listed) /\ Chain(nodes, head, tail, q, n)
    BY DEF IsList
  <2>3. Chain(UnlinkNode(nodes, k),
              IF nodes[k].prev = NoKey THEN nodes[k].next ELSE head,
              IF nodes[k].next = NoKey THEN nodes[k].prev ELSE tail,
              Removed(q, n, j), n - 1)
    BY <1>1, <2>2, RemovedChain
  <2> QED
    BY <2>1, <2>3
<1> QED
  BY <1>2, <1>3, <1>4 DEF IsList

\* The end of put links the new entry, k, before the head.
LEMMA InsertList ==
    ASSUME TypeOK, TypeOK', CallInv, NEW q, NEW n, IsList(q, n),
           NEW k, k = linking, k # NoKey, TrimReturns
    PROVE  /\ IsList(Pushed(k, q, n), n + 1)'
           /\ Listed' = Listed \cup {k}
           /\ \A m \in Keys \ Listed' : nodes'[m] = nodes[m]
           /\ \A m \in Keys \ {k} : nodes'[m].visited = nodes[m].visited
           /\ ~nodes'[k].visited
<1> DEFINE node == [EmptyNode EXCEPT !.next = head]
           linked == [nodes EXCEPT ![k] = node]
<1>1. /\ k \in Keys \ Listed /\ k \in Present /\ Listed \in SUBSET Keys
      /\ nodes \in [Keys -> Nodes] /\ nodes' \in [Keys -> Nodes]
  BY DEF CallInv, Listed, Present, TypeOK
<1>2. /\ nodes' = IF head = NoKey THEN linked ELSE [linked EXCEPT ![head].prev = k]
      /\ head' = k
      /\ tail' = IF tail = NoKey THEN k ELSE tail
  BY DEF TrimReturns, MoveNodeToHead
<1>3. Listed' = Listed \cup {k}
  <2>1. Present' = Present /\ linking' = NoKey
    BY DEF TrimReturns, Present
  <2> QED
    BY <1>1, <2>1, SieveAssumption DEF Listed, Present
<1>4. head \in Listed \cup {NoKey} /\ head # k
  <2>1. n \in Nat /\ (n # 0 => q[1] \in Listed)
    BY DEF IsList, IsOrder
  <2> QED
    BY <1>1, <2>1, SieveAssumption DEF IsList, Chain
<1>5. node.prev = NoKey /\ node.next = head /\ node.visited = FALSE
  BY DEF EmptyNode
<1>6. /\ linked[k] = node /\ \A m \in Keys \ {k} : linked[m] = nodes[m]
      /\ linked \in [Keys -> Nodes]
  BY <1>1, <1>4, SieveAssumption DEF EmptyNode, Nodes, Listed, Present
<1> HIDE DEF linked, node
<1>7. nodes'[k] = node
  BY <1>1, <1>2, <1>4, <1>6
<1>8. \A m \in Keys \ {k} : /\ nodes'[m].prev = IF m = head THEN k ELSE nodes[m].prev
                            /\ nodes'[m].next = nodes[m].next
                            /\ nodes'[m].visited = nodes[m].visited
                            /\ m # head => nodes'[m] = nodes[m]
  BY <1>1, <1>2, <1>6, SieveAssumption DEF Nodes
<1>9. IsOrder(q, n, Listed) /\ Chain(nodes, head, tail, q, n)
  BY DEF IsList
<1>10. Chain(nodes', head', tail', Pushed(k, q, n), n + 1)
  <2>1. nodes'[k].prev = NoKey /\ nodes'[k].next = head
    BY <1>5, <1>7
  <2>2. \A m \in Listed : /\ nodes'[m].prev = IF m = head THEN k ELSE nodes[m].prev
                          /\ nodes'[m].next = nodes[m].next
    BY <1>1, <1>8
  <2>3. Chain(nodes', k, IF tail = NoKey THEN k ELSE tail, Pushed(k, q, n), n + 1)
    BY <1>1, <1>9, <2>1, <2>2, PushedChain
  <2> QED
    BY <1>2, <2>3
<1>11. IsOrder(Pushed(k, q, n), n + 1, Listed \cup {k})
  BY <1>1, <1>9, PushedOrder
<1>12. \A m \in Keys \ Listed' : nodes'[m] = nodes[m]
  BY <1>1, <1>3, <1>4, <1>8, SieveAssumption
<1>13. IsOrder(Pushed(k, q, n), n + 1, Listed')
  BY <1>3, <1>11
<1>14. IsList(Pushed(k, q, n), n + 1)'
  BY <1>10, <1>13 DEF IsList
<1> QED
  BY <1>3, <1>5, <1>7, <1>8, <1>12, <1>14

\* A sound list: the entries outside it have no links, and are not marked.
ListInv ==
    /\ \E q, n : IsList(q, n)
    /\ \A k \in Keys \ Listed : nodes[k] = EmptyNode
    /\ hand \in Listed \cup {NoKey}

LEMMA ListInit == Init => ListInv
<1> SUFFICES ASSUME Init
             PROVE  ListInv
  OBVIOUS
<1>1. Listed = {}
  BY DEF Init, Listed, Present
<1>2. IsList(<<>>, 0)
  BY <1>1 DEF Init, IsList, IsOrder, Chain
<1> QED
  BY <1>1, <1>2 DEF Init, ListInv

\* Where the nodes of a list are.
LEMMA ListFacts ==
    ASSUME NEW q, NEW n, IsList(q, n)
    PROVE  /\ n \in Nat
           /\ \A i \in 1 .. n : q[i] \in Listed
           /\ \A k \in Listed : \E i \in 1 .. n : q[i] = k
           /\ \A i \in 1 .. n : /\ nodes[q[i]].prev \in (Listed \ {q[i]}) \cup {NoKey}
                                /\ nodes[q[i]].next \in (Listed \ {q[i]}) \cup {NoKey}
           /\ Listed = {} <=> n = 0
           /\ n = 0 => head = NoKey /\ tail = NoKey
           /\ n # 0 => head \in Listed /\ tail \in Listed
<1>1. /\ n \in Nat
      /\ \A i \in 1 .. n : q[i] \in Listed
      /\ \A k \in Listed : \E i \in 1 .. n : q[i] = k
      /\ \A i, j \in 1 .. n : q[i] = q[j] => i = j
  BY DEF IsList, IsOrder
<1>2. ASSUME NEW i \in 1 .. n
      PROVE  /\ nodes[q[i]].prev \in (Listed \ {q[i]}) \cup {NoKey}
             /\ nodes[q[i]].next \in (Listed \ {q[i]}) \cup {NoKey}
  BY <1>1 DEF IsList, Chain
<1>3. Listed = {} <=> n = 0
  BY <1>1
<1>4. /\ n = 0 => head = NoKey /\ tail = NoKey
      /\ n # 0 => head \in Listed /\ tail \in Listed
  BY <1>1 DEF IsList, Chain
<1> QED
  BY <1>1, <1>2, <1>3, <1>4

\* removeValueAt keeps the list sound, when the hand is set to a node of it.
LEMMA RemoveListInv ==
    ASSUME TypeOK, ListInv, NEW k, k \in Listed, NEW h, h \in Listed \cup {NoKey},
           RemoveValue(k, h), linking' = linking
    PROVE  ListInv'
<1>1. PICK q, n : IsList(q, n)
  BY DEF ListInv
<1>2. PICK j \in 1 .. n : q[j] = k
  BY <1>1, ListFacts
<1>3. IsList(Removed(q, n, j), n - 1)' /\ Listed' = Listed \ {k}
  BY <1>1, <1>2, RemoveList
<1>4. /\ nodes[k].prev \in Listed' \cup {NoKey} /\ nodes[k].prev \in (Listed \ {k}) \cup {NoKey}
      /\ nodes[k].next \in (Listed \ {k}) \cup {NoKey}
  BY <1>1, <1>2, <1>3, ListFacts
<1>5. hand' \in Listed' \cup {NoKey}
  BY <1>3, <1>4 DEF RemoveValue, HandAfter
<1>6. ASSUME NEW m \in Keys \ Listed'
      PROVE  nodes'[m] = EmptyNode
  <2>1. nodes' = UnlinkNode(nodes, k) /\ nodes \in [Keys -> Nodes] /\ k \in Keys
    BY DEF RemoveValue, TypeOK, Listed, Present
  <2>2. CASE m = k
    BY <2>1, <2>2, UnlinkFields
  <2>3. CASE m # k
    <3>1. m \in Keys \ Listed
      BY <1>3, <1>6, <2>3
    <3>2. nodes[m] = EmptyNode
      BY <3>1 DEF ListInv
    <3>3. m # nodes[k].prev /\ m # nodes[k].next
      BY <1>4, <3>1, SieveAssumption
    <3>4. nodes'[m] = nodes[m]
      BY <2>1, <2>3, <3>3, SieveAssumption DEF UnlinkNode, Nodes
    <3> QED
      BY <3>2, <3>4
  <2> QED
    BY <2>2, <2>3
<1> QED
  BY <1>3, <1>5, <1>6 DEF ListInv

\* A step that keeps the links and the listed entries keeps the list sound.
LEMMA SameListInv ==
    ASSUME TypeOK, TypeOK', ListInv, Listed' = Listed,
           head' = head, tail' = tail, hand' = hand,
           \A k \in Listed : /\ nodes'[k].prev = nodes[k].prev
                             /\ nodes'[k].next = nodes[k].next,
           \A k \in Keys \ Listed : nodes'[k] = nodes[k]
    PROVE  ListInv'
<1>1. PICK q, n : IsList(q, n)
  BY DEF ListInv
<1>2. IsList(q, n)'
  BY <1>1, SameList
<1>3. \A k \in Keys \ Listed' : nodes'[k] = EmptyNode
  BY DEF ListInv
<1>4. hand' \in Listed' \cup {NoKey}
  BY DEF ListInv
<1> QED
  BY <1>2, <1>3, <1>4 DEF ListInv

\* Present changes with entries only.
LEMMA SamePresent ==
    ASSUME entries' = entries, linking' = linking
    PROVE  Present' = Present /\ Listed' = Listed
BY DEF Present, Listed

\* A new entry is not in the list yet.
LEMMA AddEntryListed ==
    ASSUME TypeOK, RoomInv, CallInv, NEW k \in Keys, NEW v \in Values, AddEntry(k, v)
    PROVE  Listed' = Listed /\ k \notin Listed /\ linking = NoKey
<1>1. Present' = Present \cup {k} /\ linking' = k
  BY AddEntryType
<1>2. k \notin Present /\ linking = NoKey
  BY DEF AddEntry, CallInv
<1> QED
  BY <1>1, <1>2, SieveAssumption DEF Listed, Present

\* The clean-up that loses no link.
LEMMA CleanupWithoutLoss ==
    ASSUME TypeOK, NEW k, NEW v, NEW lost, InsertAfterCleanup(k, v, lost), ~broken'
    PROVE  UNCHANGED <<head, tail, hand>> /\ nodes' = Unvisited(nodes)
<1>1. lost = {}
  BY DEF InsertAfterCleanup
<1>2. /\ head' = Kept(head, {}) /\ tail' = Kept(tail, {}) /\ hand' = Kept(hand, {})
      /\ nodes' = Patched(nodes, {})
  BY <1>1 DEF InsertAfterCleanup
<1>3. \A link : Kept(link, {}) = link
  BY DEF Kept
<1>4. nodes \in [Keys -> Nodes]
  BY DEF TypeOK
<1>5. Patched(nodes, {}) = Unvisited(nodes)
  BY <1>3, <1>4 DEF Patched, Unvisited, Nodes
<1> QED
  BY <1>2, <1>3, <1>5

\* Every step that loses no link keeps the list sound.
LEMMA ListStep ==
    TypeOK /\ TypeOK' /\ RoomInv /\ CallInv /\ ListInv /\ [Next]_vars /\ ~broken' => ListInv'
<1> SUFFICES ASSUME TypeOK, TypeOK', RoomInv, CallInv, ListInv, [Next]_vars, ~broken'
             PROVE  ListInv'
  OBVIOUS
<1>1. ASSUME NEW k \in Keys, GetHit(k)
      PROVE  ListInv'
  <2>1. /\ pc = "idle" /\ k \in Present /\ UNCHANGED <<entries, head, tail, hand, linking>>
        /\ nodes' = [nodes EXCEPT ![k].visited = TRUE]
    BY <1>1 DEF GetHit, call
  <2>2. Listed' = Listed /\ k \in Listed
    BY <2>1, SamePresent, SieveAssumption DEF CallInv, Listed
  <2>3. \A m \in Keys : /\ nodes'[m].prev = nodes[m].prev
                        /\ nodes'[m].next = nodes[m].next
                        /\ m # k => nodes'[m] = nodes[m]
    BY <2>1 DEF TypeOK, Nodes
  <2>4. Listed \subseteq Keys
    BY DEF Listed, Present
  <2> QED
    BY <2>1, <2>2, <2>3, <2>4, SameListInv
<1>2. ASSUME NEW k \in Keys, Remove(k)
      PROVE  ListInv'
  <2>1. pc = "idle" /\ k \in Present /\ RemoveValue(k, hand) /\ linking' = linking
    BY <1>2 DEF Remove
  <2>2. k \in Listed /\ hand \in Listed \cup {NoKey}
    BY <2>1, SieveAssumption DEF CallInv, Listed, ListInv
  <2> QED
    BY <2>1, <2>2, RemoveListInv
<1>3. ASSUME NEW k \in Keys, NEW v \in Values, Replace(k, v)
      PROVE  ListInv'
  <2>1. Present' = Present
    BY <1>3, PresentWithEntry DEF Replace
  <2>2. linking = NoKey /\ linking' = NoKey
    BY <1>3 DEF Replace, StartTrim, CallInv
  <2>3. Listed' = Listed
    BY <2>1, <2>2 DEF Listed
  <2> QED
    BY <1>3, <2>3, SameListInv DEF Replace, list
<1>4. ASSUME NEW k \in Keys, NEW v \in Values,
             InsertInTombstone(k, v) \/ InsertInEmpty(k, v)
      PROVE  ListInv'
  <2>1. AddEntry(k, v) /\ UNCHANGED list
    BY <1>4 DEF InsertInTombstone, InsertInEmpty
  <2>2. Listed' = Listed
    BY <2>1, AddEntryListed
  <2> QED
    BY <2>1, <2>2, SameListInv DEF list
<1>5. ASSUME NEW k \in Keys, NEW v \in Values,
             \/ InsertAfterGrowth(k, v)
             \/ \E lost \in Losses : InsertAfterCleanup(k, v, lost)
      PROVE  ListInv'
  <2>1. /\ AddEntry(k, v) /\ UNCHANGED <<head, tail, hand>>
        /\ nodes' = Unvisited(nodes)
    BY <1>5, CleanupWithoutLoss DEF InsertAfterGrowth, InsertAfterCleanup
  <2>2. Listed' = Listed /\ Listed \subseteq Keys
    BY <2>1, AddEntryListed DEF Listed, Present
  <2>3. \A m \in Keys : /\ nodes'[m].prev = nodes[m].prev
                        /\ nodes'[m].next = nodes[m].next
                        /\ nodes[m] = EmptyNode => nodes'[m] = nodes[m]
    BY <2>1 DEF Unvisited, TypeOK, Nodes, EmptyNode
  <2>4. \A m \in Keys \ Listed : nodes'[m] = nodes[m]
    BY <2>3 DEF ListInv
  <2> QED
    BY <2>1, <2>2, <2>3, <2>4, SameListInv
<1>6. CASE (\E n \in MaxSizes : Resize(n)) \/ \E n \in MaxSizes \cup {-1} : TrimToSize(n)
  <2>1. pc = "idle" /\ UNCHANGED <<entries, list>> /\ linking' = NoKey
    BY <1>6 DEF Resize, TrimToSize, StartTrim
  <2>2. Listed' = Listed
    BY <2>1, SamePresent DEF CallInv
  <2> QED
    BY <2>1, <2>2, SameListInv DEF list
<1>7. CASE TrimReturns
  <2>1. CASE linking = NoKey
    <3>1. UNCHANGED <<entries, nodes, head, tail, hand, linking>>
      BY <1>7, <2>1 DEF TrimReturns
    <3> QED
      BY <3>1, SamePresent, SameListInv
  <2>2. CASE linking # NoKey
    <3>1. PICK q, n : IsList(q, n)
      BY DEF ListInv
    <3>2. PICK k : k = linking
      OBVIOUS
    <3>3. /\ IsList(Pushed(k, q, n), n + 1)' /\ Listed' = Listed \cup {k}
          /\ \A m \in Keys \ Listed' : nodes'[m] = nodes[m]
      BY <1>7, <2>2, <3>1, <3>2, InsertList
    <3>4. hand' = hand
      BY <1>7 DEF TrimReturns
    <3> QED
      BY <3>3, <3>4 DEF ListInv
  <2> QED
    BY <2>1, <2>2
<1>8. CASE Search \/ ScanFails \/ UNCHANGED vars
  <2>1. UNCHANGED <<entries, list, linking>>
    BY <1>8 DEF Search, ScanFails, vars, call
  <2> QED
    BY <2>1, SamePresent, SameListInv DEF list
<1>9. CASE Spare
  <2>1. /\ pc = "scan" /\ candidate # NoKey /\ UNCHANGED <<entries, head, tail, hand, linking>>
        /\ nodes' = [nodes EXCEPT ![candidate].visited = FALSE]
    BY <1>9 DEF Spare
  <2>2. candidate \in Listed /\ Listed' = Listed /\ Listed \subseteq Keys
    BY <2>1, SamePresent DEF CallInv, Listed, Present
  <2>3. \A m \in Keys : /\ nodes'[m].prev = nodes[m].prev
                        /\ nodes'[m].next = nodes[m].next
                        /\ m # candidate => nodes'[m] = nodes[m]
    BY <2>1, <2>2 DEF TypeOK, Nodes
  <2> QED
    BY <2>1, <2>2, <2>3, SameListInv
<1>10. CASE Evict
  <2>1. /\ pc = "scan" /\ candidate # NoKey /\ linking' = linking
        /\ RemoveValue(candidate, nodes[candidate].prev)
    BY <1>10 DEF Evict
  <2>2. candidate \in Listed
    BY <2>1 DEF CallInv
  <2>3. nodes[candidate].prev \in Listed \cup {NoKey}
    <3>1. PICK q, n : IsList(q, n)
      BY DEF ListInv
    <3> QED
      BY <2>2, <3>1, ListFacts
  <2> QED
    BY <2>1, <2>2, <2>3, RemoveListInv
<1> QED
  BY <1>1, <1>2, <1>3, <1>4, <1>5, <1>6, <1>7, <1>8, <1>9, <1>10 DEF Next, Call, Trim

(***************************************************************************)
(* The links, of a list that may be broken.                                *)
(***************************************************************************)

\* Every link leads to an entry that has been linked.
LinksIn(S) ==
    /\ {head, tail, hand} \subseteq S \cup {NoKey}
    /\ \A k \in Keys : {nodes[k].prev, nodes[k].next} \subseteq S \cup {NoKey}

\* The part of the inductive invariant about the links.
LinkInv == pc # "torn" => LinksIn(Listed)

\* A step that adds no link.
LEMMA SameLinks ==
    ASSUME LinksIn(Listed), Listed' = Listed,
           {head', tail', hand'} \subseteq {head, tail, hand, NoKey},
           \A k \in Keys : /\ nodes'[k].prev \in {nodes[k].prev, NoKey}
                          /\ nodes'[k].next \in {nodes[k].next, NoKey}
    PROVE  LinksIn(Listed)'
BY DEF LinksIn

\* removeValueAt copies links, and when none leads to the slot it has freed
\* they all lead to entries that are left.
LEMMA RemoveLinks ==
    ASSUME TypeOK, LinksIn(Listed), NEW k, k \in Listed, NEW h, h \in Listed \cup {NoKey},
           RemoveValue(k, h), linking' = linking, ~LeftLinked(k)
    PROVE  LinksIn(Listed)'
<1>1. Listed \subseteq Keys /\ k \in Keys /\ nodes \in [Keys -> Nodes]
  BY DEF Listed, Present, TypeOK
<1>2. Listed' = Listed \ {k}
  BY <1>1, PresentWithoutEntry DEF RemoveValue, Listed
<1>3. nodes[k].prev \in Listed \cup {NoKey} /\ nodes[k].next \in Listed \cup {NoKey}
  BY <1>1 DEF LinksIn
<1>4. {head', tail', hand'} \subseteq Listed \cup {NoKey}
  BY <1>3 DEF RemoveValue, HandAfter, LinksIn
<1>5. ASSUME NEW m \in Keys
      PROVE  {nodes'[m].prev, nodes'[m].next} \subseteq Listed \cup {NoKey}
  <2>1. nodes' = UnlinkNode(nodes, k)
    BY DEF RemoveValue
  <2>2. CASE m = k
    BY <1>1, <2>1, <2>2, UnlinkFields DEF EmptyNode
  <2>3. CASE m # k
    <3>1. /\ nodes'[m].prev \in {nodes[k].prev, nodes[m].prev}
          /\ nodes'[m].next \in {nodes[k].next, nodes[m].next}
      BY <1>1, <2>1, <2>3, UnlinkFields
    <3> QED
      BY <1>3, <3>1 DEF LinksIn
  <2> QED
    BY <2>2, <2>3
<1>6. /\ k \notin {head', tail', hand'}
      /\ \A m \in Keys : k \notin {nodes'[m].prev, nodes'[m].next}
  BY DEF LeftLinked
<1> QED
  BY <1>2, <1>4, <1>5, <1>6 DEF LinksIn

LEMMA LinkInit == Init => LinkInv
BY DEF Init, LinkInv, LinksIn, EmptyNode

\* Every step keeps the links on entries, or tears the list.
LEMMA LinkStep ==
    TypeOK /\ TypeOK' /\ RoomInv /\ CallInv /\ LinkInv /\ [Next]_vars => LinkInv'
<1> SUFFICES ASSUME TypeOK, TypeOK', RoomInv, CallInv, LinkInv, [Next]_vars
             PROVE  LinkInv'
  OBVIOUS
<1> USE DEF LinkInv
<1>1. ASSUME NEW k \in Keys, GetHit(k)
      PROVE  LinkInv'
  <2>1. /\ pc = "idle" /\ UNCHANGED <<entries, head, tail, hand, linking>>
        /\ nodes' = [nodes EXCEPT ![k].visited = TRUE]
    BY <1>1 DEF GetHit, call
  <2>2. \A m \in Keys : nodes'[m].prev = nodes[m].prev /\ nodes'[m].next = nodes[m].next
    BY <2>1 DEF TypeOK, Nodes
  <2> QED
    BY <2>1, <2>2, SamePresent, SameLinks
<1>2. ASSUME NEW k \in Keys, Remove(k)
      PROVE  LinkInv'
  <2>1. /\ pc = "idle" /\ k \in Present /\ RemoveValue(k, hand) /\ linking' = linking
        /\ LeftLinked(k) => pc' = "torn"
    BY <1>2 DEF Remove
  <2>2. k \in Listed /\ LinksIn(Listed) /\ hand \in Listed \cup {NoKey}
    BY <2>1, SieveAssumption DEF CallInv, Listed, LinksIn
  <2> QED
    BY <2>1, <2>2, RemoveLinks
<1>3. ASSUME NEW k \in Keys, NEW v \in Values, Replace(k, v)
      PROVE  LinkInv'
  <2>1. pc = "idle" /\ linking = NoKey /\ linking' = NoKey /\ UNCHANGED list
    BY <1>3 DEF Replace, StartTrim, CallInv
  <2>2. Listed' = Listed
    BY <1>3, <2>1, PresentWithEntry DEF Replace, Listed
  <2> QED
    BY <2>1, <2>2, SameLinks DEF list
<1>4. ASSUME NEW k \in Keys, NEW v \in Values, AddEntry(k, v),
             {head', tail', hand'} \subseteq {head, tail, hand, NoKey},
             \A m \in Keys : /\ nodes'[m].prev \in {nodes[m].prev, NoKey}
                            /\ nodes'[m].next \in {nodes[m].next, NoKey}
      PROVE  LinkInv'
  <2>1. Listed' = Listed /\ pc = "idle"
    BY <1>4, AddEntryListed DEF AddEntry
  <2> QED
    BY <1>4, <2>1, SameLinks
<1>5. ASSUME NEW k \in Keys, NEW v \in Values,
             InsertInTombstone(k, v) \/ InsertInEmpty(k, v)
      PROVE  LinkInv'
  BY <1>4, <1>5 DEF InsertInTombstone, InsertInEmpty, list
<1>6. ASSUME NEW k \in Keys, NEW v \in Values, InsertAfterGrowth(k, v)
      PROVE  LinkInv'
  <2>1. \A m \in Keys : nodes'[m].prev = nodes[m].prev /\ nodes'[m].next = nodes[m].next
    BY <1>6 DEF InsertAfterGrowth, Unvisited, TypeOK, Nodes
  <2> QED
    BY <1>4, <1>6, <2>1 DEF InsertAfterGrowth
<1>7. ASSUME NEW k \in Keys, NEW v \in Values, NEW lost, InsertAfterCleanup(k, v, lost)
      PROVE  LinkInv'
  <2>1. \A m \in Keys : /\ nodes'[m].prev = Kept(nodes[m].prev, lost)
                        /\ nodes'[m].next = Kept(nodes[m].next, lost)
    BY <1>7 DEF InsertAfterCleanup, Patched
  <2>2. \A link : Kept(link, lost) \in {link, NoKey}
    BY DEF Kept
  <2> QED
    BY <1>4, <1>7, <2>1, <2>2 DEF InsertAfterCleanup
<1>8. CASE (\E n \in MaxSizes : Resize(n)) \/ \E n \in MaxSizes \cup {-1} : TrimToSize(n)
  <2>1. pc = "idle" /\ UNCHANGED <<entries, list>> /\ linking' = NoKey
    BY <1>8 DEF Resize, TrimToSize, StartTrim
  <2>2. Listed' = Listed
    BY <2>1, SamePresent DEF CallInv
  <2> QED
    BY <2>1, <2>2, SameLinks DEF list
<1>9. CASE TrimReturns /\ linking = NoKey
  BY <1>9, SamePresent, SameLinks DEF TrimReturns
<1>10. CASE TrimReturns /\ linking # NoKey
  <2> DEFINE k == linking
             node == [EmptyNode EXCEPT !.next = head]
             linked == [nodes EXCEPT ![k] = node]
  <2>1. /\ nodes' = IF head = NoKey THEN linked ELSE [linked EXCEPT ![head].prev = k]
        /\ head' = k /\ tail' = (IF tail = NoKey THEN k ELSE tail) /\ hand' = hand
        /\ linking' = NoKey /\ entries' = entries /\ pc = "trim"
    BY <1>10 DEF TrimReturns, MoveNodeToHead
  <2>2. k \in Present /\ Listed' = Listed \cup {k}
    BY <1>10, <2>1, SieveAssumption DEF CallInv, Listed, Present
  <2>3. k \in Keys /\ nodes \in [Keys -> Nodes] /\ head \in Keys \cup {NoKey}
    BY <2>2 DEF Present, TypeOK
  <2>4. linked \in [Keys -> Nodes]
    BY <2>3 DEF EmptyNode, Nodes
  <2>5. \A m \in Keys : {linked[m].prev, linked[m].next} \subseteq Listed \cup {NoKey}
    BY <2>1, <2>3 DEF LinksIn, EmptyNode
  <2> HIDE DEF linked
  <2>6. \A m \in Keys : {nodes'[m].prev, nodes'[m].next} \subseteq Listed \cup {NoKey, k}
    BY <2>1, <2>3, <2>4, <2>5 DEF Nodes
  <2>7. {head', tail', hand'} \subseteq Listed \cup {NoKey, k}
    BY <2>1 DEF LinksIn
  <2> QED
    BY <2>2, <2>6, <2>7 DEF LinksIn
<1>11. CASE Search \/ ScanFails
  <2>1. pc # "torn" /\ UNCHANGED <<entries, list, linking>>
    BY <1>11 DEF Search, ScanFails
  <2> QED
    BY <2>1, SamePresent, SameLinks DEF list
<1>12. CASE Spare
  <2>1. /\ pc = "scan" /\ UNCHANGED <<entries, head, tail, hand, linking>>
        /\ nodes' = [nodes EXCEPT ![candidate].visited = FALSE]
    BY <1>12 DEF Spare
  <2>2. \A m \in Keys : nodes'[m].prev = nodes[m].prev /\ nodes'[m].next = nodes[m].next
    BY <2>1 DEF TypeOK, Nodes
  <2> QED
    BY <2>1, <2>2, SamePresent, SameLinks
<1>13. CASE Evict
  <2>1. /\ pc = "scan" /\ candidate # NoKey /\ linking' = linking
        /\ RemoveValue(candidate, nodes[candidate].prev)
        /\ LeftLinked(candidate) => pc' = "torn"
    BY <1>13 DEF Evict
  <2>2. candidate \in Listed /\ candidate \in Keys
    BY <2>1 DEF CallInv, Listed, Present
  <2>3. LinksIn(Listed) /\ nodes[candidate].prev \in Listed \cup {NoKey}
    BY <2>1, <2>2 DEF LinksIn
  <2> QED
    BY <2>1, <2>2, <2>3, RemoveLinks
<1>14. CASE UNCHANGED vars
  <2>1. UNCHANGED <<entries, list, linking, pc>>
    BY <1>14 DEF vars, call
  <2> QED
    BY <2>1, SamePresent, SameLinks DEF list
<1> QED
  BY <1>1, <1>2, <1>3, <1>5, <1>6, <1>7, <1>8, <1>9, <1>10, <1>11, <1>12, <1>13,
     <1>14 DEF Next, Call, Trim

(***************************************************************************)
(* The call in progress.                                                   *)
(***************************************************************************)

\* size counts units, and there are none without an entry.
LEMMA SizeFacts ==
    ASSUME SumInv
    PROVE  size \in Nat /\ (Present = {} => size = 0)
<1>1. size \in Nat
  BY FS_CardinalityType DEF SumInv, SizeIsSum
<1>2. ASSUME Present = {}
      PROVE  size = 0
  <2>1. Units = {}
    BY <1>2 DEF Units
  <2> QED
    BY <2>1, FS_EmptySet DEF SumInv, SizeIsSum
<1> QED
  BY <1>1, <1>2

LEMMA CallInit == Init => CallInv
BY MaxSizesType, SieveAssumption DEF Init, CallInv

\* A step of a call that enters trimToSize.
LEMMA StartTrimCall ==
    ASSUME TypeOK, TypeOK', CallInv, pc = "idle", NEW m, NEW k,
           StartTrim(m, k), k = NoKey \/ (k \in Present' /\ m = maxSize'),
           m <= maxSize' \/ size' <= maxSize'
    PROVE  CallInv'
BY DEF CallInv, StartTrim

\* Every step keeps what is known of the call in progress.
LEMMA CallStep ==
    TypeOK /\ TypeOK' /\ RoomInv /\ SumInv /\ LinkInv /\ CallInv /\ [Next]_vars => CallInv'
<1> SUFFICES ASSUME TypeOK, TypeOK', RoomInv, SumInv, LinkInv, CallInv, [Next]_vars
             PROVE  CallInv'
  OBVIOUS
<1>0. size \in Int /\ size' \in Int /\ maxSize \in Nat /\ maxSize' \in Nat
  BY MaxSizesType DEF TypeOK
<1>1. ASSUME NEW k \in Keys, GetHit(k)
      PROVE  CallInv'
  <2>1. pc = "idle" /\ UNCHANGED <<entries, size, maxSize, pc, limit, candidate, linking>>
    BY <1>1 DEF GetHit, call
  <2> QED
    BY <2>1 DEF CallInv
<1>2. ASSUME NEW k \in Keys, Remove(k)
      PROVE  CallInv'
  <2>1. /\ pc = "idle" /\ pc' \in {"idle", "torn"}
        /\ UNCHANGED <<maxSize, limit, candidate, linking>>
        /\ size' = size - SizeOfEntry(k)
    BY <1>2 DEF Remove, RemoveValue
  <2>2. size' <= size
    BY <1>0, <2>1, SizeOfEntryType
  <2> QED
    BY <1>0, <2>1, <2>2 DEF CallInv
<1>3. ASSUME NEW k \in Keys, NEW v \in Values, Replace(k, v)
      PROVE  CallInv'
  <2>1. pc = "idle" /\ StartTrim(maxSize, NoKey) /\ maxSize' = maxSize
    BY <1>3 DEF Replace
  <2> QED
    BY <1>0, <2>1, StartTrimCall
<1>4. ASSUME NEW k \in Keys, NEW v \in Values, AddEntry(k, v)
      PROVE  CallInv'
  <2>1. pc = "idle" /\ StartTrim(maxSize, k) /\ maxSize' = maxSize
    BY <1>4 DEF AddEntry
  <2>2. k \in Present'
    BY <1>4, AddEntryType
  <2> QED
    BY <1>0, <2>1, <2>2, StartTrimCall
<1>5. ASSUME NEW k \in Keys, NEW v \in Values,
             \/ InsertInTombstone(k, v) \/ InsertInEmpty(k, v) \/ InsertAfterGrowth(k, v)
             \/ \E lost \in Losses : InsertAfterCleanup(k, v, lost)
      PROVE  CallInv'
  BY <1>4, <1>5
     DEF InsertInTombstone, InsertInEmpty, InsertAfterGrowth, InsertAfterCleanup
<1>6. ASSUME NEW n \in MaxSizes, Resize(n)
      PROVE  CallInv'
  <2>1. pc = "idle" /\ StartTrim(n, NoKey) /\ maxSize' = n
    BY <1>6 DEF Resize
  <2> QED
    BY <1>0, <2>1, StartTrimCall
<1>7. ASSUME NEW n \in MaxSizes \cup {-1}, TrimToSize(n)
      PROVE  CallInv'
  <2>1. pc = "idle" /\ StartTrim(n, NoKey) /\ maxSize' = maxSize /\ size' = size
    BY <1>7 DEF TrimToSize
  <2>2. size <= maxSize
    BY <2>1 DEF CallInv
  <2> QED
    BY <2>1, <2>2, StartTrimCall
<1>8. CASE TrimReturns
  <2>1. /\ pc = "trim" /\ pc' = "idle" /\ linking' = NoKey
        /\ UNCHANGED <<size, maxSize, candidate>>
        /\ size <= limit \/ Present = {}
    BY <1>8 DEF TrimReturns, TrimDone
  <2>2. limit \in Int
    BY DEF TypeOK
  <2>3. size <= maxSize
    BY <1>0, <2>1, <2>2, SizeFacts DEF CallInv
  <2> QED
    BY <2>1, <2>3 DEF CallInv
<1>9. CASE Search
  <2>1. /\ pc = "trim" /\ pc' = "scan" /\ ~TrimDone
        /\ candidate' = IF hand # NoKey THEN hand ELSE tail
        /\ UNCHANGED <<entries, size, maxSize, limit, linking>>
    BY <1>9 DEF Search
  <2>2. ~TrimDone' /\ Listed' = Listed /\ Present' = Present
    BY <2>1, SamePresent DEF TrimDone
  <2>3. candidate' \in Listed \cup {NoKey}
    BY <2>1 DEF LinkInv, LinksIn
  <2> QED
    BY <2>1, <2>2, <2>3 DEF CallInv
<1>10. CASE Spare
  <2>1. /\ pc = "scan" /\ candidate # NoKey
        /\ candidate' = IF nodes[candidate].prev # NoKey THEN nodes[candidate].prev ELSE tail
        /\ UNCHANGED <<entries, size, maxSize, pc, limit, linking>>
    BY <1>10 DEF Spare
  <2>2. TrimDone' = TrimDone /\ Listed' = Listed /\ Present' = Present
    BY <2>1, SamePresent DEF TrimDone
  <2>3. candidate' \in Listed \cup {NoKey}
    <3>1. candidate \in Keys
      BY <2>1 DEF CallInv, Listed, Present
    <3> QED
      BY <2>1, <3>1 DEF LinkInv, LinksIn
  <2> QED
    BY <2>1, <2>2, <2>3 DEF CallInv
<1>11. CASE Evict
  <2>1. /\ pc = "scan" /\ pc' \in {"trim", "torn"}
        /\ candidate' = NoKey /\ candidate \in Keys
        /\ UNCHANGED <<maxSize, limit, linking>>
        /\ entries' = [entries EXCEPT ![candidate] = NoValue]
        /\ size' = size - SizeOfEntry(candidate)
    BY <1>11 DEF Evict, RemoveValue, TypeOK
  <2>2. size' <= size
    BY <1>0, <2>1, SizeOfEntryType
  <2>3. Present' = Present \ {candidate}
    BY <2>1, PresentWithoutEntry
  <2>4. candidate \in Listed
    BY <1>11, <2>1 DEF CallInv, Evict
  <2> QED
    BY <1>0, <2>1, <2>2, <2>3, <2>4 DEF CallInv, Listed
<1>12. CASE ScanFails
  <2>1. /\ pc = "scan" /\ candidate = NoKey /\ pc' = "crashed"
        /\ UNCHANGED <<entries, size, maxSize, limit, candidate, linking>>
    BY <1>12 DEF ScanFails
  <2>2. Present' = Present
    BY <2>1, SamePresent
  <2> QED
    BY <2>1, <2>2 DEF CallInv
<1>13. CASE UNCHANGED vars
  <2>1. UNCHANGED <<entries, size, maxSize, pc, limit, candidate, linking>>
    BY <1>13 DEF vars, call
  <2>2. TrimDone' = TrimDone /\ Listed' = Listed /\ Present' = Present
    BY <2>1, SamePresent DEF TrimDone
  <2> QED
    BY <2>1, <2>2 DEF CallInv
<1> QED
  BY <1>1, <1>2, <1>3, <1>5, <1>6, <1>7, <1>8, <1>9, <1>10, <1>11, <1>12, <1>13
     DEF Next, Call, Trim

(***************************************************************************)
(* While no clean-up has lost links.                                       *)
(***************************************************************************)

\* The call in progress on a sound list: no removal tears it, and the search for
\* a victim runs off it only when one oversized entry is left.
SearchInv ==
    /\ pc # "torn"
    /\ pc = "scan" /\ candidate = NoKey => Listed = {}
    /\ pc = "crashed" => Present = {linking} /\ linking # NoKey /\ size > maxSize

\* The part of the inductive invariant about the list.
SoundInv == ~broken => ListInv /\ SearchInv

\* The links of a sound list lead to its entries.
LEMMA SoundLinks == ListInv => LinksIn(Listed)
<1> SUFFICES ASSUME ListInv
             PROVE  LinksIn(Listed)
  OBVIOUS
<1>1. PICK q, n : IsList(q, n)
  BY DEF ListInv
<1>2. {head, tail, hand} \subseteq Listed \cup {NoKey}
  BY <1>1, ListFacts DEF ListInv
<1>3. ASSUME NEW k \in Keys
      PROVE  {nodes[k].prev, nodes[k].next} \subseteq Listed \cup {NoKey}
  BY <1>1, ListFacts DEF ListInv, EmptyNode
<1> QED
  BY <1>2, <1>3 DEF LinksIn

LEMMA SoundLinksNext == ListInv' => LinksIn(Listed)'
<1>1. (ListInv => LinksIn(Listed))'
  BY SoundLinks, PTL
<1> QED
  BY <1>1

\* A removal that leaves the list sound does not tear it.
LEMMA NotLeftLinked ==
    ASSUME ListInv', NEW k, k \notin Listed', k # NoKey
    PROVE  ~LeftLinked(k)
BY SoundLinksNext DEF LinksIn, LeftLinked

LEMMA SearchStep ==
    /\ TypeOK /\ TypeOK' /\ RoomInv /\ CallInv /\ ListInv /\ ListInv' /\ SearchInv
    /\ [Next]_vars
    => SearchInv'
<1> SUFFICES ASSUME TypeOK, TypeOK', RoomInv, CallInv, ListInv, ListInv', SearchInv,
                    [Next]_vars
             PROVE  SearchInv'
  OBVIOUS
<1> USE DEF SearchInv
<1>1. CASE \E k \in Keys : GetHit(k)
  BY <1>1 DEF GetHit, call
<1>2. ASSUME NEW k \in Keys, Remove(k)
      PROVE  SearchInv'
  <2>1. /\ pc' = (IF LeftLinked(k) THEN "torn" ELSE "idle")
        /\ entries' = [entries EXCEPT ![k] = NoValue]
    BY <1>2 DEF Remove, RemoveValue
  <2>2. k \notin Listed' /\ k # NoKey
    BY <2>1, PresentWithoutEntry, SieveAssumption DEF Listed
  <2> QED
    BY <2>1, <2>2, NotLeftLinked
<1>3. CASE \/ \E k \in Keys, v \in Values :
                \/ Replace(k, v) \/ InsertInTombstone(k, v) \/ InsertInEmpty(k, v)
                \/ InsertAfterGrowth(k, v)
                \/ \E lost \in Losses : InsertAfterCleanup(k, v, lost)
           \/ \E n \in MaxSizes : Resize(n)
           \/ \E n \in MaxSizes \cup {-1} : TrimToSize(n)
  <2>1. pc' = "trim"
    BY <1>3 DEF Replace, InsertInTombstone, InsertInEmpty, InsertAfterGrowth,
                InsertAfterCleanup, AddEntry, Resize, TrimToSize, StartTrim
  <2> QED
    BY <2>1
<1>4. CASE TrimReturns
  BY <1>4 DEF TrimReturns
<1>5. CASE Search
  <2>1. /\ pc' = "scan" /\ UNCHANGED <<entries, linking>>
        /\ candidate' = IF hand # NoKey THEN hand ELSE tail
    BY <1>5 DEF Search
  <2>2. PICK q, n : IsList(q, n)
    BY DEF ListInv
  <2>3. NoKey \notin Listed
    BY SieveAssumption DEF Listed, Present
  <2>4. candidate' = NoKey => Listed = {}
    BY <2>1, <2>2, <2>3, ListFacts
  <2> QED
    BY <2>1, <2>4, SamePresent
<1>6. CASE Spare
  <2>1. /\ pc = "scan" /\ pc' = "scan" /\ candidate # NoKey
        /\ candidate' = IF nodes[candidate].prev # NoKey THEN nodes[candidate].prev ELSE tail
    BY <1>6 DEF Spare
  <2>2. PICK q, n : IsList(q, n)
    BY DEF ListInv
  <2>3. candidate \in Listed /\ NoKey \notin Listed
    BY <2>1, SieveAssumption DEF CallInv, Listed, Present
  <2>4. candidate' # NoKey
    BY <2>1, <2>2, <2>3, ListFacts
  <2> QED
    BY <2>1, <2>4
<1>7. CASE Evict
  <2> DEFINE k == candidate
  <2>1. /\ pc = "scan" /\ k # NoKey /\ k \in Keys
        /\ pc' = (IF LeftLinked(candidate) THEN "torn" ELSE "trim")
        /\ entries' = [entries EXCEPT ![candidate] = NoValue]
    BY <1>7 DEF Evict, RemoveValue, TypeOK
  <2>2. candidate \notin Listed'
    BY <2>1, PresentWithoutEntry DEF Listed
  <2>3. ~LeftLinked(candidate)
    BY <2>1, <2>2, SoundLinksNext DEF LinksIn, LeftLinked
  <2> QED
    BY <2>1, <2>3
<1>8. CASE ScanFails
  <2>1. /\ pc = "scan" /\ candidate = NoKey /\ pc' = "crashed"
        /\ UNCHANGED <<entries, size, maxSize, linking>>
    BY <1>8 DEF ScanFails
  <2>2. Present # {} /\ size > limit /\ Listed = {}
    BY <2>1 DEF CallInv, TrimDone, TypeOK
  <2>3. Present = {linking} /\ linking # NoKey
    BY <2>2, SieveAssumption DEF Listed, Present
  <2>4. Present' = Present
    BY <2>1, SamePresent
  <2>5. limit = maxSize
    BY <2>3 DEF CallInv
  <2> QED
    BY <2>1, <2>2, <2>3, <2>4, <2>5
<1>9. CASE UNCHANGED vars
  <2>1. UNCHANGED <<entries, size, maxSize, pc, candidate, linking>>
    BY <1>9 DEF vars, call
  <2> QED
    BY <2>1, SamePresent
<1> QED
  BY <1>1, <1>2, <1>3, <1>4, <1>5, <1>6, <1>7, <1>8, <1>9 DEF Next, Call, Trim

\* What a clean-up has lost stays lost.
LEMMA BrokenForGood == TypeOK /\ [Next]_vars /\ ~broken' => ~broken
BY DEF TypeOK, Next, Call, Trim, GetHit, Remove, RemoveValue, Replace, InsertInTombstone,
       InsertInEmpty, InsertAfterGrowth, InsertAfterCleanup, Resize, TrimToSize,
       TrimReturns, Search, Spare, Evict, ScanFails, vars, history

(***************************************************************************)
(* The inductive invariant, and what follows from it.                      *)
(***************************************************************************)

IInv == TypeOK /\ RoomInv /\ SumInv /\ LinkInv /\ CallInv /\ SoundInv

LEMMA Inductive == Spec => []IInv
<1>1. Init => IInv
  <2> SUFFICES ASSUME Init
               PROVE  SoundInv
    BY RoomInit, SumInit, LinkInit, CallInit DEF IInv
  <2>1. SearchInv
    BY DEF Init, SearchInv
  <2> QED
    BY <2>1, ListInit DEF SoundInv
<1>2. IInv /\ [Next]_vars => IInv'
  <2> SUFFICES ASSUME IInv, [Next]_vars
               PROVE  IInv'
    OBVIOUS
  <2>1. TypeOK /\ RoomInv /\ SumInv /\ LinkInv /\ CallInv /\ SoundInv
    BY DEF IInv
  <2>2. TypeOK' /\ RoomInv'
    BY <2>1, RoomStep
  <2>3. SumInv'
    BY <2>1, <2>2, SumStep
  <2>4. LinkInv'
    BY <2>1, <2>2, LinkStep
  <2>5. CallInv'
    BY <2>1, <2>2, CallStep
  <2>6. SoundInv'
    <3> SUFFICES ASSUME ~broken'
                 PROVE  ListInv' /\ SearchInv'
      BY DEF SoundInv
    <3>1. ListInv /\ SearchInv
      BY <2>1, BrokenForGood DEF SoundInv
    <3>2. ListInv'
      BY <2>1, <2>2, <3>1, ListStep
    <3> QED
      BY <2>1, <2>2, <3>1, <3>2, SearchStep
  <2> QED
    BY <2>2, <2>3, <2>4, <2>5, <2>6 DEF IInv
<1> QED
  BY <1>1, <1>2, PTL DEF Spec

\* In every reachable state the fields of the cache and the locals of the call
\* in progress have their types; the capacity stays of the form 2^n - 1.
THEOREM TypeCorrect == Spec => []TypeOK
<1>1. IInv => TypeOK
  BY DEF IInv
<1> QED
  BY <1>1, Inductive, PTL

\* The table accounts for each slot it has handed out and always keeps an
\* Empty one, on which the probes for a missing key end.
THEOREM TableKeepsRoom == Spec => []TableHasRoom
<1>1. IInv => TableHasRoom
  BY DEF IInv, RoomInv
<1> QED
  BY <1>1, Inductive, PTL

\* size is the sum of the sizes of the entries, whatever their values are
\* replaced by and in the middle of a trim too.
THEOREM SizeCorrect == Spec => []SizeIsSum
<1>1. IInv => SizeIsSum
  BY DEF IInv, SumInv
<1> QED
  BY <1>1, Inductive, PTL

LEMMA OrderIsBijection ==
    ASSUME NEW q, NEW n, NEW S, IsOrder(q, n, S)
    PROVE  Cardinality(S) = n /\ q \in Bijection(1 .. n, S) /\ Range(q) = S
<1>1. n \in Nat /\ q \in [1 .. n -> S]
  BY DEF IsOrder
<1>2. q \in Injection(1 .. n, S)
  BY <1>1 DEF IsOrder, Injection, IsInjective
<1>3. q \in Surjection(1 .. n, S)
  BY <1>1 DEF IsOrder, Surjection
<1>4. q \in Bijection(1 .. n, S)
  BY <1>2, <1>3 DEF Bijection
<1>5. ExistsBijection(1 .. n, S)
  BY <1>4 DEF ExistsBijection
<1>6. Cardinality(S) = n
  BY <1>1, <1>5, FS_CountingElements
<1>7. Range(q) = S
  BY <1>1 DEF IsOrder, Range
<1> QED
  BY <1>4, <1>6, <1>7

LEMMA ListIsLinked ==
    ASSUME NEW q, NEW n, IsList(q, n)
    PROVE  q \in Orders /\ Linked(q)
<1>1. IsOrder(q, n, Listed) /\ Chain(nodes, head, tail, q, n)
  BY DEF IsList
<1>2. Cardinality(Listed) = n /\ q \in Bijection(1 .. n, Listed) /\ Range(q) = Listed
  BY <1>1, OrderIsBijection
<1>3. Listed \in SUBSET Keys
  BY DEF Listed, Present
<1>4. q \in Orders
  BY <1>2, <1>3 DEF Orders
<1>5. Linked(q)
  BY <1>1, <1>2 DEF Linked, Chain
<1> QED
  BY <1>4, <1>5

\* Until a clean-up of the table in place has lost links, the list can be walked
\* both ways from end to end between the steps of every call, holds each entry
\* once but the one put has not linked yet, and the hand is on it: no removal,
\* eviction, growth of the table or clean-up without a loss costs or repeats a
\* node.
THEOREM ListStaysSound == Spec => []ListIsSound
<1>1. IInv => ListIsSound
  <2> SUFFICES ASSUME ListInv
               PROVE  ListIsSound
    BY DEF IInv, SoundInv, ListIsSound
  <2>1. PICK q, n : IsList(q, n)
    BY DEF ListInv
  <2> QED
    BY <2>1, ListIsLinked DEF ListInv, ListIsSound
<1> QED
  BY <1>1, Inductive, PTL

\* No call returns with the cache over its maximum.
THEOREM CallsEndWithinMax == Spec => []WithinMaxWhenIdle
<1>1. IInv => WithinMaxWhenIdle
  BY DEF IInv, CallInv, WithinMaxWhenIdle
<1> QED
  BY <1>1, Inductive, PTL

\* Until a clean-up of the table in place has lost links, the search for a victim
\* runs off the list only in the put of a value larger than maxSize, whose entry
\* is the only one left, and no removal leaves a link to what it removes.
THEOREM OnlyOversizedCrash == Spec => []OnlyOversizedFails
<1>1. IInv => OnlyOversizedFails
  <2> SUFFICES ASSUME TypeOK, SumInv, SearchInv, pc = "crashed"
               PROVE  linking # NoKey /\ SizeOfEntry(linking) > maxSize
    BY DEF IInv, SoundInv, SearchInv, OnlyOversizedFails
  <2>1. Present = {linking} /\ linking # NoKey /\ size > maxSize
    BY DEF SearchInv
  <2>2. Units = {linking} \X (1 .. SizeOfEntry(linking))
    BY <2>1 DEF Units
  <2>3. linking \in Keys
    BY <2>1 DEF Present
  <2>4. SizeOfEntry(linking) \in Nat
    BY <2>3, SizeOfEntryType
  <2>5. size = SizeOfEntry(linking)
    BY <2>2, <2>4, UnitsOfSize DEF SumInv, SizeIsSum
  <2> QED
    BY <2>1, <2>5
<1> QED
  BY <1>1, Inductive, PTL

\* evictAll, when it returns, has evicted every entry, those of size 0 too.
THEOREM EvictAllLeavesNothing == Spec => EvictAllEmpties
<1>1. IInv /\ [Next]_vars
        => [pc = "trim" /\ limit = -1 /\ pc' = "idle" => Present' = {}]_vars
  <2> SUFFICES ASSUME IInv, [Next]_vars, pc = "trim", limit = -1, pc' = "idle"
               PROVE  Present' = {}
    OBVIOUS
  <2>1. TrimReturns
    BY DEF Next, Call, Trim, GetHit, Remove, Replace, InsertInTombstone,
           InsertInEmpty, InsertAfterGrowth, InsertAfterCleanup, AddEntry,
           StartTrim, Resize, TrimToSize, Search, Spare, Evict, ScanFails, vars, call
  <2>2. size \in Nat
    BY SizeFacts DEF IInv
  <2>3. Present = {}
    BY <2>1, <2>2 DEF TrimReturns, TrimDone
  <2> QED
    BY <2>1, <2>3 DEF TrimReturns, Present
<1> QED
  BY <1>1, Inductive, PTL DEF Spec, EvictAllEmpties

(***************************************************************************)
(* The list is the queue of the policy.                                    *)
(***************************************************************************)

\* The links determine the order: two lists of the entries are the same.
LEMMA OneList ==
    ASSUME NEW q, NEW n, IsList(q, n), NEW p, IsList(p, n)
    PROVE  p = q
<1>1. /\ n \in Nat /\ q \in [1 .. n -> Listed] /\ p \in [1 .. n -> Listed]
  BY DEF IsList, IsOrder
<1> DEFINE Wrong == {i \in 1 .. n : p[i] # q[i]}
<1>2. SUFFICES ASSUME Wrong # {}
               PROVE  FALSE
  <2>1. CASE Wrong = {}
    BY <1>1, <2>1
  <2> QED
    BY <2>1
<1>3. PICK m \in Wrong : \A d \in Wrong : m <= d
  <2>1. Wrong \in SUBSET Nat
    BY <1>1
  <2> HIDE DEF Wrong
  <2> QED
    BY <1>2, <2>1, LeastNumber
<1>4. m \in 1 .. n /\ p[m] # q[m]
  OBVIOUS
<1>5. CASE m = 1
  BY <1>1, <1>4, <1>5 DEF IsList, Chain
<1>6. CASE m # 1
  <2> DEFINE k == m - 1
  <2>1. k \in 1 .. n /\ k # n /\ k + 1 = m /\ ~(m <= k)
    BY <1>1, <1>4, <1>6
  <2>2. p[k] = q[k]
    BY <1>3, <2>1
  <2>3. nodes[p[k]].next = p[k + 1] /\ nodes[q[k]].next = q[k + 1]
    BY <2>1 DEF IsList, Chain
  <2> QED
    BY <1>4, <2>1, <2>2, <2>3
<1> QED
  BY <1>5, <1>6

\* The queue of the refinement mapping is the list.
LEMMA QueueIs ==
    ASSUME NEW q, NEW n, IsList(q, n)
    PROVE  Queue = q
<1>1. q \in Orders /\ Linked(q) /\ Cardinality(Listed) = n
  BY ListIsLinked, OrderIsBijection DEF IsList
<1> DEFINE p == Queue
<1>2. p \in Orders /\ Linked(p)
  BY <1>1 DEF Queue
<1> HIDE DEF p
<1>3. PICK S \in SUBSET Keys : p \in Bijection(1 .. Cardinality(S), S)
  BY <1>2 DEF Orders
<1>4. /\ p \in [1 .. Cardinality(S) -> S]
      /\ \A i, j \in 1 .. Cardinality(S) : p[i] = p[j] => i = j
      /\ \A k \in S : \E i \in 1 .. Cardinality(S) : p[i] = k
  BY <1>3 DEF Bijection, Injection, Surjection, IsInjective
<1>5. S = Listed
  <2>1. Range(p) = S
    BY <1>4 DEF Range
  <2> QED
    BY <1>2, <2>1 DEF Linked
<1>6. n \in Nat
  BY DEF IsList, IsOrder
<1>7. IsOrder(p, n, Listed)
  BY <1>1, <1>4, <1>5, <1>6 DEF IsOrder
<1>8. Chain(nodes, head, tail, p, n)
  BY <1>1, <1>2 DEF Linked, Chain
<1>9. p = q
  BY <1>7, <1>8, OneList DEF IsList
<1> QED
  BY <1>9 DEF p

\* The same after a step.
LEMMA QueueIsNext == \A q, n : IsList(q, n)' => Queue' = q
<1>1. \A q, n : IsList(q, n) => Queue = q
  BY QueueIs
<1>2. (\A q, n : IsList(q, n) => Queue = q)'
  BY <1>1, PTL
<1> QED
  BY <1>2

\* What the policy says of the queue, said of the list.
LEMMA PolicyFacts ==
    ASSUME NEW q, NEW n, IsList(q, n)
    PROVE  /\ Queue = q /\ q \in Seq(Listed) /\ Len(q) = n
           /\ Policy!Queued = Listed
           /\ q = <<>> <=> Listed = {}
           /\ \A j \in 1 .. n : /\ Policy!Place(q[j]) = j
                                /\ Policy!Newer(q[j]) = nodes[q[j]].prev
           /\ \A k : Policy!OrTail(k) = IF k # NoKey THEN k ELSE tail
<1>1. /\ n \in Nat /\ q \in [1 .. n -> Listed]
      /\ \A i, j \in 1 .. n : q[i] = q[j] => i = j
      /\ \A k \in Listed : \E i \in 1 .. n : q[i] = k
  BY DEF IsList, IsOrder
<1>2. Queue = q
  BY QueueIs
<1>3. q \in Seq(Listed) /\ Len(q) = n /\ DOMAIN q = 1 .. n
  BY <1>1
<1>4. Policy!Queued = Listed
  BY <1>1, <1>2, <1>3 DEF Policy!Queued
<1>5. q = <<>> <=> n = 0
  BY <1>1, <1>3
<1>6. ASSUME NEW j \in 1 .. n
      PROVE  /\ Policy!Place(q[j]) = j
             /\ Policy!Newer(q[j]) = nodes[q[j]].prev
  <2>1. Policy!Place(q[j]) = j
    BY <1>1, <1>2, <1>3 DEF Policy!Place
  <2>2. nodes[q[j]].prev = IF j = 1 THEN NoKey ELSE q[j - 1]
    BY DEF IsList, Chain
  <2> QED
    BY <1>2, <2>1, <2>2 DEF Policy!Newer
<1>7. ASSUME NEW k
      PROVE  Policy!OrTail(k) = IF k # NoKey THEN k ELSE tail
  <2>1. tail = IF n = 0 THEN NoKey ELSE q[n]
    BY DEF IsList, Chain
  <2> QED
    BY <1>2, <1>3, <1>5, <2>1 DEF Policy!OrTail, Policy!Last
<1>8. Listed = {} <=> n = 0
  BY ListFacts
<1> QED
  BY <1>2, <1>3, <1>4, <1>5, <1>6, <1>7, <1>8

\* Unlinking a node removes its key from the queue.
LEMMA PolicyRemoves ==
    ASSUME TypeOK, NEW q, NEW n, IsList(q, n), NEW k, k \in Listed,
           NEW h, RemoveValue(k, h), linking' = linking
    PROVE  /\ Queue' = Policy!RemoveAt(Queue, Policy!Place(k))
           /\ Policy!Newer(k) = nodes[k].prev
<1>1. PICK j \in 1 .. n : q[j] = k
  BY ListFacts
<1>2. IsList(Removed(q, n, j), n - 1)'
  BY <1>1, RemoveList
<1>3. Queue' = Removed(q, n, j)
  BY <1>2, QueueIsNext
<1>4. /\ Queue = q /\ q \in Seq(Listed) /\ Len(q) = n
      /\ Policy!Place(k) = j /\ Policy!Newer(k) = nodes[k].prev
  BY <1>1, PolicyFacts
<1>5. Policy!RemoveAt(q, j) = Removed(q, n, j)
  <2> DEFINE r == Policy!RemoveAt(q, j)
  <2>1. r = SubSeq(q, 1, j - 1) \o SubSeq(q, j + 1, Len(q))
    BY DEF Policy!RemoveAt
  <2>2. j \in 1 .. Len(q)
    BY <1>4
  <2>3. q \in Seq(Listed)
    BY <1>4
  <2>4. r = [i \in 1 .. Len(q) - 1 |-> IF i < j THEN q[i] ELSE q[i + 1]]
    BY <2>1, <2>2, <2>3, SequenceWithout, Zenon
  <2> QED
    BY <1>4, <2>4 DEF r, Removed
<1> QED
  BY <1>3, <1>4, <1>5

\* The policy's visited keys: those whose node is marked.
Marked == {k \in Keys : nodes[k].visited}

\* What the queue of the policy does when the list does not change.
LEMMA SameQueue ==
    ASSUME TypeOK, ListInv, Listed' = Listed, head' = head, tail' = tail,
           \A k \in Listed : /\ nodes'[k].prev = nodes[k].prev
                             /\ nodes'[k].next = nodes[k].next
    PROVE  Queue' = Queue
<1>1. PICK q, n : IsList(q, n)
  BY DEF ListInv
<1>2. IsList(q, n)'
  BY <1>1, SameList
<1> QED
  BY <1>1, <1>2, QueueIs, QueueIsNext

\* No entry is marked that is not in the list.
LEMMA MarkedAreListed ==
    ASSUME ListInv
    PROVE  Marked \subseteq Listed
BY DEF ListInv, Marked, EmptyNode

\* Every step of the cache that loses no link is one of the policy, the rebuild
\* that forgets the visits, or leaves the queue alone.
LEMMA PolicyStep ==
    IInv /\ IInv' /\ [Next]_vars /\ ~broken'
      => Policy!Next \/ ForgetsVisits \/ UNCHANGED Policy!vars
<1> SUFFICES ASSUME IInv, IInv', [Next]_vars, ~broken'
             PROVE  Policy!Next \/ ForgetsVisits \/ UNCHANGED Policy!vars
  OBVIOUS
<1>a. ListInv
  BY BrokenForGood DEF IInv, SoundInv
<1> USE <1>a DEF IInv
<1>0. PICK q, n : IsList(q, n)
  BY DEF ListInv
<1>1. ASSUME NEW k \in Keys, GetHit(k)
      PROVE  Policy!Hit(k)
  <2>1. /\ pc = "idle" /\ k \in Present
        /\ UNCHANGED <<entries, head, tail, hand, linking, candidate>>
        /\ nodes' = [nodes EXCEPT ![k].visited = TRUE]
    BY <1>1 DEF GetHit, call
  <2>2. Listed' = Listed /\ k \in Listed /\ candidate = NoKey
    BY <2>1, SamePresent, SieveAssumption DEF CallInv, Listed
  <2>3. \A m \in Keys : /\ nodes'[m].prev = nodes[m].prev
                        /\ nodes'[m].next = nodes[m].next
                        /\ nodes'[m].visited = (m = k \/ nodes[m].visited)
    BY <2>1 DEF TypeOK, Nodes
  <2>4. Marked' = Marked \cup {k}
    BY <2>3 DEF Marked
  <2>5. Queue' = Queue
    BY <2>1, <2>2, <2>3, SameQueue DEF Listed, Present
  <2>6. Policy!Queued = Listed
    BY <1>0, PolicyFacts
  <2> QED
    BY <2>1, <2>2, <2>4, <2>5, <2>6 DEF Policy!Hit, Marked
<1>2. ASSUME NEW k, k \in Listed, NEW h, RemoveValue(k, h), linking' = linking
      PROVE  /\ Queue' = Policy!RemoveAt(Queue, Policy!Place(k))
             /\ Policy!Newer(k) = nodes[k].prev
             /\ Marked' = Marked \ {k}
             /\ k \in Policy!Queued
  <2>1. k \in Keys /\ nodes' = UnlinkNode(nodes, k) /\ nodes \in [Keys -> Nodes]
    BY <1>2 DEF RemoveValue, Listed, Present, TypeOK
  <2>2. \A m \in Keys : /\ m = k => ~nodes'[m].visited
                        /\ m # k => nodes'[m].visited = nodes[m].visited
    BY <2>1, UnlinkFields DEF EmptyNode
  <2>3. Marked' = Marked \ {k}
    BY <2>2 DEF Marked
  <2>4. /\ Queue' = Policy!RemoveAt(Queue, Policy!Place(k))
        /\ Policy!Newer(k) = nodes[k].prev
    BY <1>0, <1>2, PolicyRemoves
  <2>5. k \in Policy!Queued
    BY <1>0, <1>2, PolicyFacts
  <2> QED
    BY <2>3, <2>4, <2>5
<1>3. ASSUME NEW k \in Keys, Remove(k)
      PROVE  Policy!Delete(k)
  <2>1. /\ pc = "idle" /\ k \in Present /\ RemoveValue(k, hand)
        /\ UNCHANGED <<linking, candidate>>
    BY <1>3 DEF Remove
  <2>2. k \in Listed /\ candidate = NoKey
    BY <2>1, SieveAssumption DEF CallInv, Listed
  <2>3. hand' = IF hand = k THEN nodes[k].prev ELSE hand
    BY <2>1 DEF RemoveValue, HandAfter
  <2> QED
    BY <1>2, <2>1, <2>2, <2>3 DEF Policy!Delete, Marked
<1>4. ASSUME NEW k \in Keys, NEW v \in Values, Replace(k, v)
      PROVE  UNCHANGED Policy!vars
  <2>1. UNCHANGED list /\ candidate' = candidate /\ linking' = NoKey /\ linking = NoKey
    BY <1>4 DEF Replace, StartTrim, CallInv
  <2>2. Listed' = Listed
    BY <1>4, <2>1, PresentWithEntry DEF Replace, Listed
  <2>3. Queue' = Queue
    BY <2>1, <2>2, SameQueue DEF list
  <2> QED
    BY <2>1, <2>3 DEF Policy!vars, list
<1>5. ASSUME NEW k \in Keys, NEW v \in Values,
             InsertInTombstone(k, v) \/ InsertInEmpty(k, v)
      PROVE  UNCHANGED Policy!vars
  <2>1. AddEntry(k, v) /\ UNCHANGED list
    BY <1>5 DEF InsertInTombstone, InsertInEmpty
  <2>2. Listed' = Listed /\ candidate' = candidate
    BY <2>1, AddEntryListed, AddEntryType
  <2>3. Queue' = Queue
    BY <2>1, <2>2, SameQueue DEF list
  <2> QED
    BY <2>1, <2>2, <2>3 DEF Policy!vars, list
<1>6. ASSUME NEW k \in Keys, NEW v \in Values,
             \/ InsertAfterGrowth(k, v)
             \/ \E lost \in Losses : InsertAfterCleanup(k, v, lost)
      PROVE  ForgetsVisits
  <2>1. /\ AddEntry(k, v) /\ UNCHANGED <<head, tail, hand>>
        /\ nodes' = Unvisited(nodes) /\ growthLimit = 0
    BY <1>6, CleanupWithoutLoss DEF InsertAfterGrowth, InsertAfterCleanup, RebuildTable
  <2>2. Listed' = Listed /\ candidate' = candidate /\ Listed \subseteq Keys
    BY <2>1, AddEntryListed, AddEntryType DEF Listed, Present
  <2>3. \A m \in Keys : /\ nodes'[m].prev = nodes[m].prev
                        /\ nodes'[m].next = nodes[m].next
                        /\ nodes'[m].visited = FALSE
    BY <2>1 DEF Unvisited, TypeOK, Nodes
  <2>4. Marked' = {}
    BY <2>3 DEF Marked
  <2>5. Queue' = Queue
    BY <2>1, <2>2, <2>3, SameQueue
  <2>6. candidate = NoKey
    BY <2>1 DEF AddEntry, CallInv
  <2>7. Policy!Forget
    BY <2>1, <2>2, <2>4, <2>5, <2>6 DEF Policy!Forget, Marked
  <2>8. k \in Keys \ Present /\ entries'[k] # NoValue
    BY <2>1, SieveAssumption DEF AddEntry, TypeOK
  <2> QED
    BY <2>1, <2>7, <2>8 DEF ForgetsVisits
<1>7. CASE (\E m \in MaxSizes : Resize(m)) \/ \E m \in MaxSizes \cup {-1} : TrimToSize(m)
  <2>1. pc = "idle" /\ UNCHANGED <<entries, list, candidate>> /\ linking' = NoKey
    BY <1>7 DEF Resize, TrimToSize, StartTrim
  <2>2. Listed' = Listed
    BY <2>1, SamePresent DEF CallInv
  <2>3. Queue' = Queue
    BY <2>1, <2>2, SameQueue DEF list
  <2> QED
    BY <2>1, <2>3 DEF Policy!vars, list
<1>8. ASSUME TrimReturns, linking = NoKey
      PROVE  UNCHANGED Policy!vars
  <2>1. UNCHANGED <<entries, nodes, head, tail, hand, linking, candidate>>
    BY <1>8 DEF TrimReturns
  <2>2. Queue' = Queue
    BY <2>1, SamePresent, SameQueue
  <2> QED
    BY <2>1, <2>2 DEF Policy!vars
<1>9. ASSUME TrimReturns, linking # NoKey
      PROVE  \E k \in Keys : Policy!Insert(k)
  <2>1. PICK k : k = linking
    OBVIOUS
  <2>2. /\ IsList(Pushed(k, q, n), n + 1)'
        /\ \A m \in Keys \ {k} : nodes'[m].visited = nodes[m].visited
        /\ ~nodes'[k].visited
    BY <1>0, <1>9, <2>1, InsertList
  <2>3. k \in Keys /\ k \notin Listed /\ ~nodes[k].visited
    BY <1>9, <2>1 DEF CallInv, Listed, Present, ListInv, EmptyNode
  <2>4. Marked' = Marked
    BY <2>2, <2>3 DEF Marked
  <2>5. Queue' = Pushed(k, q, n) /\ Queue = q /\ Policy!Queued = Listed
    BY <1>0, <2>2, QueueIsNext, PolicyFacts
  <2>6. Pushed(k, q, n) = <<k>> \o q
    <3>1. /\ q \in Seq(Keys) /\ Len(q) = n /\ n \in Nat
          /\ <<k>> \in Seq(Keys) /\ Len(<<k>>) = 1 /\ <<k>>[1] = k
      <4>1. q \in Seq(Listed) /\ Len(q) = n /\ n \in Nat
        BY <1>0, PolicyFacts, ListFacts
      <4>2. Listed \subseteq Keys
        BY DEF Listed, Present
      <4>3. q \in Seq(Keys)
        BY <4>1, <4>2, SeqMonotonic
      <4> QED
        BY <2>3, <4>1, <4>3
    <3> DEFINE r == <<k>> \o q
               s == <<k>>
    <3> HIDE DEF s
    <3>2. /\ r \in Seq(Keys) /\ Len(r) = Len(s) + Len(q)
          /\ \A i \in 1 .. Len(s) + Len(q) :
               r[i] = IF i <= Len(s) THEN s[i] ELSE q[i - Len(s)]
      BY <3>1, ConcatProperties DEF s
    <3> HIDE DEF r
    <3>3. r \in [1 .. n + 1 -> Keys]
      BY <3>1, <3>2, LenProperties DEF s
    <3>4. \A i \in 1 .. n + 1 : r[i] = IF i = 1 THEN k ELSE q[i - 1]
      BY <3>1, <3>2 DEF s
    <3> QED
      BY <3>3, <3>4 DEF r, Pushed
  <2>7. candidate = NoKey /\ UNCHANGED <<hand, candidate>>
    BY <1>9 DEF TrimReturns, CallInv
  <2> QED
    BY <2>3, <2>4, <2>5, <2>6, <2>7 DEF Policy!Insert, Marked
<1>10. CASE Search
  <2>1. /\ pc = "trim" /\ UNCHANGED <<entries, list, linking>>
        /\ candidate' = IF hand # NoKey THEN hand ELSE tail
    BY <1>10 DEF Search
  <2>2. Queue' = Queue
    BY <2>1, SamePresent, SameQueue DEF list
  <2>3. candidate = NoKey
    BY <2>1 DEF CallInv
  <2>4. candidate' = Policy!OrTail(hand)
    BY <1>0, <2>1, PolicyFacts
  <2>5. CASE Queue # <<>>
    BY <2>1, <2>2, <2>3, <2>4, <2>5 DEF Policy!Next, Policy!Search, list
  <2>6. CASE Queue = <<>>
    <3>1. Listed = {}
      BY <1>0, <2>6, PolicyFacts
    <3>2. tail = NoKey /\ hand = NoKey
      BY <1>0, <3>1, ListFacts DEF ListInv
    <3> QED
      BY <2>1, <2>2, <2>3, <3>2 DEF Policy!vars, list
  <2> QED
    BY <2>5, <2>6
<1>11. CASE Spare
  <2>1. /\ pc = "scan" /\ candidate # NoKey /\ nodes[candidate].visited
        /\ UNCHANGED <<entries, head, tail, hand, linking>>
        /\ nodes' = [nodes EXCEPT ![candidate].visited = FALSE]
        /\ candidate' = IF nodes[candidate].prev # NoKey THEN nodes[candidate].prev ELSE tail
    BY <1>11 DEF Spare
  <2>2. candidate \in Listed /\ Listed' = Listed /\ Listed \subseteq Keys
    BY <2>1, SamePresent DEF CallInv, Listed, Present
  <2>3. \A m \in Keys : /\ nodes'[m].prev = nodes[m].prev
                        /\ nodes'[m].next = nodes[m].next
                        /\ nodes'[m].visited = (m # candidate /\ nodes[m].visited)
    BY <2>1, <2>2 DEF TypeOK, Nodes
  <2>4. Marked' = Marked \ {candidate} /\ candidate \in Marked
    BY <2>1, <2>2, <2>3 DEF Marked
  <2>5. Queue' = Queue
    BY <2>1, <2>2, <2>3, SameQueue
  <2>6. PICK j \in 1 .. n : q[j] = candidate
    BY <1>0, <2>2, ListFacts
  <2>7. candidate' = Policy!OrTail(Policy!Newer(candidate))
    BY <1>0, <2>1, <2>6, PolicyFacts
  <2>8. Policy!Spare
    BY <2>1, <2>4, <2>5, <2>7 DEF Policy!Spare, Marked
  <2> QED
    BY <2>8 DEF Policy!Next
<1>12. CASE Evict
  <2>1. /\ pc = "scan" /\ candidate # NoKey /\ ~nodes[candidate].visited
        /\ linking' = linking /\ candidate' = NoKey
        /\ RemoveValue(candidate, nodes[candidate].prev)
    BY <1>12 DEF Evict
  <2>2. candidate \in Listed
    BY <2>1 DEF CallInv
  <2>3. PICK k : k = candidate
    OBVIOUS
  <2>4. /\ Queue' = Policy!RemoveAt(Queue, Policy!Place(k))
        /\ Policy!Newer(k) = nodes[k].prev
        /\ Marked' = Marked \ {k}
    BY <1>2, <2>1, <2>2, <2>3
  <2>5. k \notin Marked /\ Marked' = Marked
    BY <2>1, <2>3, <2>4 DEF Marked
  <2>6. nodes[k].prev # k
    BY <1>0, <2>2, <2>3, ListFacts, SieveAssumption DEF Listed, Present
  <2>7. hand' = nodes[k].prev
    BY <2>1, <2>3, <2>6 DEF RemoveValue, HandAfter
  <2>8. Policy!Evict
    BY <2>1, <2>3, <2>4, <2>5, <2>7 DEF Policy!Evict, Marked
  <2> QED
    BY <2>8 DEF Policy!Next
<1>13. CASE ScanFails \/ UNCHANGED vars
  <2>1. UNCHANGED <<entries, list, linking, candidate>>
    BY <1>13 DEF ScanFails, vars, call
  <2>2. Queue' = Queue
    BY <2>1, SamePresent, SameQueue DEF list
  <2> QED
    BY <2>1, <2>2 DEF Policy!vars, list
<1> QED
  BY <1>1, <1>3, <1>4, <1>5, <1>6, <1>7, <1>8, <1>9, <1>10, <1>11, <1>12, <1>13
     DEF Next, Call, Trim, Policy!Next

\* Until a clean-up of the table in place has lost links, the linked nodes, their
\* marks, the hand and the search for a victim behave as the queue of the SIEVE
\* policy does: keys enter at the head and stay in order, a marked key is spared
\* once, and the hand goes on where it stopped; only the rebuild of a full table
\* departs from it, and unmarks every key.
THEOREM ListIsQueue == Spec => FollowsPolicy
<1>1. Init => Policy!Init
  <2> SUFFICES ASSUME Init
               PROVE  Policy!Init
    OBVIOUS
  <2>1. Listed = {}
    BY DEF Init, Listed, Present
  <2>2. IsList(<<>>, 0)
    BY <2>1 DEF Init, IsList, IsOrder, Chain
  <2>3. Queue = <<>>
    BY <2>2, QueueIs
  <2>4. Marked = {}
    BY DEF Init, Marked, EmptyNode
  <2> QED
    BY <2>3, <2>4 DEF Init, Policy!Init, Marked
<1>2. IInv /\ IInv' /\ [Next]_vars
        => [~broken' => \/ Policy!Next
                        \/ ForgetsVisits
                        \/ UNCHANGED Policy!vars]_vars
  BY PolicyStep
<1> QED
  BY <1>1, <1>2, Inductive, PTL DEF Spec, FollowsPolicy
=============================================================================
