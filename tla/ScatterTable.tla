---------------------------- MODULE ScatterTable ----------------------------
(***************************************************************************)
(* The flat hash table under ScatterSet, ScatterMap, IntSet, IntObjectMap  *)
(* and their generated siblings, as MutableIntSet has it: one metadata     *)
(* byte for each slot, a sentinel, and a copy of the first bytes after the *)
(* sentinel, read in groups of GroupWidth bytes from any offset.           *)
(*                                                                         *)
(* A byte that holds the low bits of a hash is Full: the code compares the *)
(* element after every match of these bits.  A call is one action, except  *)
(* that dropDeletes takes one action for each turn of its loop.            *)
(***************************************************************************)
EXTENDS Integers, FiniteSets, FiniteSetsExt

CONSTANTS
    Elements, NoElement,
    GroupWidth,         \* 8 in the code
    HashCodes,          \* functions from Elements to h1 of their hashes
    InitialCapacity,    \* the argument of the constructor
    CapacityBound,      \* bounds the capacity the table grows to
    FindStops,          \* the bytes that end the search of the platform's find
    Mirrors             \* whether the platform's remove writes the copy too

VARIABLES
    metadata, elements, capacity, growthLimit, size,
    h1,                 \* the hash code of each element
    pc, index, pending  \* dropDeletes: its index, and what add has in hand

table == <<metadata, elements, capacity, growthLimit, size>>
cleanup == <<pc, index, pending>>
tableVars == <<table, h1, cleanup>>

Empty == "Empty"
Deleted == "Deleted"
Full == "Full"
Sentinel == "Sentinel"

NoSlot == -1

ASSUME ScatterAssumption ==
    /\ NoElement \notin Elements
    /\ GroupWidth \in {4, 8}
    /\ \A h \in HashCodes : h \in [Elements -> Nat]
    /\ InitialCapacity \in 0 .. 2 ^ 29 /\ CapacityBound \in 0 .. 2 ^ 30 - 1
    \* 25/32 of a larger table would be more than its load with groups of 4.
    /\ GroupWidth = 4 => InitialCapacity <= 12 /\ CapacityBound <= 15
    /\ Empty \in FindStops /\ FindStops \subseteq {Empty, Deleted}
    /\ Mirrors \in BOOLEAN

-----------------------------------------------------------------------------
(* Capacities *)

\* Mutation of LoadedCapacity: no exception for the smallest table.
LoadedCapacityOfAll(c) == c - c \div GroupWidth

LoadedCapacity(c) == IF c = GroupWidth - 1 THEN GroupWidth - 2 ELSE c - c \div GroupWidth

UnloadedCapacity(n) ==
    CASE n = 0 -> 0
      [] n = GroupWidth - 1 -> GroupWidth
      [] OTHER -> n + (n - 1) \div (GroupWidth - 1)

\* The capacities 2^n - 1 of the code.
Capacities == {0} \cup {2 ^ i - 1 : i \in 1 .. 30}

NormalizeCapacity(n) == IF n = 0 THEN 0 ELSE Min({c \in Capacities : c >= n})

NextCapacity(c) == IF c = 0 THEN GroupWidth - 2 ELSE 2 * c + 1

\* The capacity initializeStorage takes for the one it is asked for.
StorageCapacity(n) ==
    IF n = 0 THEN 0 ELSE Max({GroupWidth - 1, NormalizeCapacity(n)})

DropsDeletes == capacity > GroupWidth /\ size * 32 <= capacity * 25

-----------------------------------------------------------------------------
(* Metadata *)

Slots == 0 .. capacity - 1

\* Metadata of capacity c without an element; EmptyGroup for 0.
AllEmpty(c) == [b \in 0 .. c + GroupWidth - 1 |-> IF b = c THEN Sentinel ELSE Empty]

\* The bytes after the sentinel are copied from the first ones.
Cloned(m, c) == [b \in DOMAIN m |-> IF b > c THEN m[b - c - 1] ELSE m[b]]

\* Mutation of WriteMetadata: the clones keep their old bytes.
WriteMetadataRaw(m, c, i, byte) == [m EXCEPT ![i] = byte]

\* writeMetadata copies the group that holds i, when it is the first one and i
\* is not its last byte.
WriteMetadata(m, c, i, byte) ==
    LET raw == [m EXCEPT ![i] = byte]
    IN  IF i < GroupWidth - 1 THEN Cloned(raw, c) ELSE raw

\* convertMetadataForCleanup.
ConvertedForCleanup(m, c) ==
    Cloned([b \in DOMAIN m |-> IF b = c THEN Sentinel
                               ELSE IF m[b] = Full THEN Deleted ELSE Empty], c)

\* The offset of the n-th group probed for the hash h.
ProbeOffset(c, h, n) == (h + GroupWidth * ((n * (n + 1)) \div 2)) % (c + 1)

\* After these probes the offsets repeat.
Probes(c) == 0 .. Max({1, (c + 1) \div GroupWidth}) - 1

\* The positions in the group at an offset whose byte is in bytes.
InGroup(m, offset, bytes) == {j \in 0 .. GroupWidth - 1 : m[offset + j] \in bytes}

SlotAt(c, offset, j) == (offset + j) % (c + 1)

FindFirstAvailableSlot(m, c, h) ==
    LET Available(n) == InGroup(m, ProbeOffset(c, h, n), {Empty, Deleted})
        n == Min({i \in Probes(c) : Available(i) # {}})
    IN  SlotAt(c, ProbeOffset(c, h, n), Min(Available(n)))

\* The search of find, findSlot and remove: group after group until the element
\* is matched or the group holds a byte of stops.
Find(e, stops) ==
    LET Offset(n) == ProbeOffset(capacity, h1[e], n)
        Matches(offset) == {j \in InGroup(metadata, offset, {Full}) :
                              elements[SlotAt(capacity, offset, j)] = e}
        Ends == {n \in Probes(capacity) :
                   \/ InGroup(metadata, Offset(n), stops) # {}
                   \/ Matches(Offset(n)) # {}}
    IN  IF Ends = {} THEN NoSlot
        ELSE LET offset == Offset(Min(Ends))
             IN  IF Matches(offset) = {} THEN NoSlot
                 ELSE SlotAt(capacity, offset, Min(Matches(offset)))

Contains(e) == Find(e, FindStops) # NoSlot

-----------------------------------------------------------------------------
Init ==
    LET c == StorageCapacity(UnloadedCapacity(InitialCapacity)) IN
    /\ capacity = c
    /\ metadata = AllEmpty(c)
    /\ elements = [i \in 0 .. c - 1 |-> NoElement]
    /\ growthLimit = LoadedCapacity(c)
    /\ size = 0
    /\ h1 \in HashCodes
    /\ pc = "idle" /\ index = 0 /\ pending = NoElement

\* The end of findAbsoluteInsertIndex, in the table t left by adjustStorage, and
\* the caller's write of the element; n is the size before.
Insert(e, t, n) ==
    LET i == FindFirstAvailableSlot(t.metadata, t.capacity, h1[e]) IN
    /\ capacity' = t.capacity
    /\ metadata' = WriteMetadata(t.metadata, t.capacity, i, Full)
    /\ elements' = [t.elements EXCEPT ![i] = e]
    /\ size' = n + 1
    /\ growthLimit' = t.growthLimit - (IF t.metadata[i] = Empty THEN 1 ELSE 0)

Current == [metadata |-> metadata, elements |-> elements,
            capacity |-> capacity, growthLimit |-> growthLimit]

\* A turn of the loop of resizeStorage: the element of slot i, if there is one,
\* is placed in the new table t.
Place(t, i) ==
    LET s == FindFirstAvailableSlot(t.metadata, t.capacity, h1[elements[i]])
    IN  IF metadata[i] = Full
        THEN [t EXCEPT !.metadata = WriteMetadata(@, t.capacity, s, Full),
                       !.elements = [@ EXCEPT ![s] = elements[i]]]
        ELSE t

\* initializeStorage.
NewTable(n) == [metadata |-> AllEmpty(n), elements |-> [i \in 0 .. n - 1 |-> NoElement],
                capacity |-> n, growthLimit |-> LoadedCapacity(n) - size]

\* A new table of capacity n after k turns of the loop, which takes the slots in
\* their order.
Placed(n, k) ==
    LET after[turns \in 0 .. capacity] ==
            IF turns = 0 THEN NewTable(n) ELSE Place(after[turns - 1], turns - 1)
    IN  after[k]

\* Mutation of Resized: the loop over the old slots misses the last one.
ResizedButLast(c) == Placed(StorageCapacity(c), IF capacity = 0 THEN 0 ELSE capacity - 1)

\* resizeStorage.
Resized(c) == Placed(StorageCapacity(c), capacity)

\* There is no room: growthLimit is used up and no Deleted slot is at hand.
MustAdjust(e) ==
    /\ growthLimit = 0
    /\ metadata[FindFirstAvailableSlot(metadata, capacity, h1[e])] # Deleted

AddAtOnce(e) ==
    /\ pc = "idle"
    /\ Find(e, {Empty}) = NoSlot
    /\ ~MustAdjust(e)
    /\ Insert(e, Current, size)
    /\ UNCHANGED <<h1, cleanup>>

AddAfterResize(e) ==
    /\ pc = "idle"
    /\ Find(e, {Empty}) = NoSlot
    /\ MustAdjust(e)
    /\ ~DropsDeletes
    /\ NextCapacity(capacity) <= CapacityBound
    /\ Insert(e, Resized(NextCapacity(capacity)), size)
    /\ UNCHANGED <<h1, cleanup>>

\* adjustStorage enters dropDeletes.
DropDeletes(e) ==
    /\ pc = "idle"
    /\ Find(e, {Empty}) = NoSlot
    /\ MustAdjust(e)
    /\ DropsDeletes
    /\ metadata' = ConvertedForCleanup(metadata, capacity)
    /\ pc' = "drop" /\ index' = 0 /\ pending' = e
    /\ UNCHANGED <<elements, capacity, growthLimit, size, h1>>

\* The slot for the element at index, in the loop of dropDeletes.
Target == FindFirstAvailableSlot(metadata, capacity, h1[elements[index]])

\* The group of slot i in the probe of the element at index.
ProbeIndex(i) == ((i - h1[elements[index]]) % (capacity + 1)) \div GroupWidth

StaysInGroup == ProbeIndex(Target) = ProbeIndex(index)

Dropping == pc = "drop" /\ index < capacity

\* The bytes that the loop writes, mirrored.
WriteAll(bytes) ==
    Cloned([b \in DOMAIN metadata |-> IF b \in DOMAIN bytes THEN bytes[b] ELSE metadata[b]],
           capacity)

DropSkips ==
    /\ Dropping
    /\ metadata[index] # Deleted
    /\ index' = index + 1
    /\ UNCHANGED <<table, h1, pc, pending>>

DropKeeps ==
    /\ Dropping
    /\ metadata[index] = Deleted
    /\ StaysInGroup
    /\ metadata' = WriteAll([b \in {index} |-> Full])
    /\ index' = index + 1
    /\ UNCHANGED <<elements, capacity, growthLimit, size, h1, pc, pending>>

DropMoves ==
    /\ Dropping
    /\ metadata[index] = Deleted
    /\ ~StaysInGroup
    /\ metadata[Target] = Empty
    /\ metadata' = WriteAll([b \in {index, Target} |-> IF b = index THEN Empty ELSE Full])
    /\ elements' = [elements EXCEPT ![Target] = elements[index], ![index] = NoElement]
    /\ index' = index + 1
    /\ UNCHANGED <<capacity, growthLimit, size, h1, pc, pending>>

\* Mutation of DropSwaps: the element swapped in is not looked at.
DropSwapsOn ==
    /\ Dropping
    /\ metadata[index] = Deleted
    /\ ~StaysInGroup
    /\ metadata[Target] = Deleted
    /\ metadata' = WriteAll([b \in {Target} |-> Full])
    /\ elements' = [elements EXCEPT ![Target] = elements[index], ![index] = elements[Target]]
    /\ index' = index + 1
    /\ UNCHANGED <<capacity, growthLimit, size, h1, pc, pending>>

\* Mutation of DropSwaps: the target is not marked as settled.
DropSwapsUnmarked ==
    /\ Dropping
    /\ metadata[index] = Deleted
    /\ ~StaysInGroup
    /\ metadata[Target] = Deleted
    /\ elements' = [elements EXCEPT ![Target] = elements[index], ![index] = elements[Target]]
    /\ UNCHANGED <<metadata, capacity, growthLimit, size, h1, cleanup>>

\* The element swapped in is the next one looked at.
DropSwaps ==
    /\ Dropping
    /\ metadata[index] = Deleted
    /\ ~StaysInGroup
    /\ metadata[Target] = Deleted
    /\ metadata' = WriteAll([b \in {Target} |-> Full])
    /\ elements' = [elements EXCEPT ![Target] = elements[index], ![index] = elements[Target]]
    /\ UNCHANGED <<capacity, growthLimit, size, h1, cleanup>>

\* The loop is done: initializeGrowth, and the element in hand is inserted.
DropEnds ==
    /\ pc = "drop"
    /\ index = capacity
    /\ Insert(pending, [Current EXCEPT !.growthLimit = LoadedCapacity(capacity) - size], size)
    /\ pc' = "idle" /\ index' = 0 /\ pending' = NoElement
    /\ UNCHANGED h1

Drop == DropSkips \/ DropKeeps \/ DropMoves \/ DropSwaps \/ DropEnds

\* Mutation of Remove: the slot becomes Empty.
RemoveToEmpty(e) ==
    LET i == Find(e, {Empty}) IN
    /\ pc = "idle"
    /\ i # NoSlot
    /\ metadata' = WriteMetadata(metadata, capacity, i, Empty)
    /\ elements' = [elements EXCEPT ![i] = NoElement]
    /\ size' = size - 1
    /\ UNCHANGED <<capacity, growthLimit, h1, cleanup>>

Remove(e) ==
    LET i == Find(e, {Empty}) IN
    /\ pc = "idle"
    /\ i # NoSlot
    /\ metadata' = IF Mirrors THEN WriteMetadata(metadata, capacity, i, Deleted)
                   ELSE [metadata EXCEPT ![i] = Deleted]
    /\ elements' = [elements EXCEPT ![i] = NoElement]
    /\ size' = size - 1
    /\ UNCHANGED <<capacity, growthLimit, h1, cleanup>>

\* clear leaves the elements where they are.
Clear ==
    /\ pc = "idle"
    /\ metadata' = AllEmpty(capacity)
    /\ size' = 0
    /\ growthLimit' = LoadedCapacity(capacity)
    /\ UNCHANGED <<elements, capacity, h1, cleanup>>

Trim ==
    LET c == NormalizeCapacity(UnloadedCapacity(size)) IN
    /\ pc = "idle"
    /\ c < capacity
    /\ metadata' = Resized(c).metadata
    /\ elements' = Resized(c).elements
    /\ capacity' = Resized(c).capacity
    /\ growthLimit' = Resized(c).growthLimit
    /\ UNCHANGED <<size, h1, cleanup>>

Next ==
    \/ \E e \in Elements : AddAtOnce(e) \/ AddAfterResize(e) \/ DropDeletes(e) \/ Remove(e)
    \/ Drop
    \/ Clear
    \/ Trim

Spec == Init /\ [][Next]_tableVars

-----------------------------------------------------------------------------
(* Properties *)

\* The slots that hold an element: in a cleanup also those not yet looked at.
Occupied == {i \in Slots : metadata[i] = Full \/ (pc = "drop" /\ metadata[i] = Deleted)}

Stored == {elements[i] : i \in Occupied}

Count(byte) == Cardinality({i \in Slots : metadata[i] = byte})

TypeOK ==
    /\ capacity \in Capacities
    /\ metadata \in [0 .. capacity + GroupWidth - 1 -> {Empty, Deleted, Full, Sentinel}]
    /\ elements \in [Slots -> Elements \cup {NoElement}]
    /\ growthLimit \in Nat
    /\ size \in Nat
    /\ h1 \in HashCodes
    /\ pc \in {"idle", "drop"}
    /\ index \in 0 .. capacity
    /\ pending \in Elements \cup {NoElement}

\* Between calls growthLimit is what is left of the load factor after the slots
\* that are Full or Deleted.
GrowthIsAccounted ==
    pc = "idle" => growthLimit = LoadedCapacity(capacity) - Count(Full) - Count(Deleted)

\* Every probe meets an Empty byte and ends, in a cleanup too.
ProbesEnd ==
    \A h \in {h1[e] : e \in Elements} :
       \E n \in Probes(capacity) : InGroup(metadata, ProbeOffset(capacity, h, n), {Empty}) # {}

\* No element has two slots, none is lost, and size counts them.
SizeIsCount ==
    /\ size = Cardinality(Occupied)
    /\ size = Cardinality(Stored)
    /\ NoElement \notin Stored

\* contains, get and find answer true for the elements that are in the table,
\* whatever was removed before them, and for no other.
FindsExactly == pc = "idle" => \A e \in Elements : Contains(e) <=> e \in Stored

\* The copies agree with the bytes they copy: on a platform whose remove leaves
\* them alone, only a Deleted slot may have a stale copy.
ClonesAgree ==
    \A b \in capacity + 1 .. capacity + GroupWidth - 1 :
       LET i == b - capacity - 1 IN
       i < capacity => \/ metadata[b] = metadata[i]
                       \/ ~Mirrors /\ metadata[i] = Deleted /\ metadata[b] = Full

\* The types and the accounting of the table, which growing, reusing Deleted
\* slots, cleaning up and trimming each keep in their own way.
TableIsSound == TypeOK /\ GrowthIsAccounted /\ SizeIsCount /\ ClonesAgree

\* The elements stay where they are in the set unless a call names them.
Contents == INSTANCE SetContract WITH contents <- Stored

ImplementsSet == Contents!Spec

\* The loop of dropDeletes, which stays where it is after a swap, comes to an
\* end: every turn settles an element or moves on.
CleanupAdvances ==
    [][pc = "drop" /\ pc' = "drop" =>
          \/ Count(Deleted)' < Count(Deleted)
          \/ Count(Deleted)' = Count(Deleted) /\ index' > index]_tableVars
=============================================================================
