---------------------------- MODULE SieveStorage ----------------------------
(***************************************************************************)
(* The storage of SieveCache: the table of ScatterTable whose slots are    *)
(* also the nodes of a doubly-linked list, and the way growing and         *)
(* cleaning up the table patch the links of the nodes they move.           *)
(*                                                                         *)
(* The list is here what the code has, slots that link to slots; the       *)
(* entries have size 1 and are never read, so the first candidate of an    *)
(* eviction is evicted (SieveCache has sizes and visited bits).            *)
(***************************************************************************)
EXTENDS ScatterTable, Sequences

VARIABLES
    nodes, head, tail, hand,
    mapping,        \* indexMapping of dropDeletes
    order,          \* the elements, the one put last first
    dropped         \* dropDeletes has moved an entry

links == <<nodes, head, tail, hand>>
vars == <<tableVars, links, mapping, order, dropped>>

EmptyNode == [prev |-> NoSlot, next |-> NoSlot]

\* createMapping; NoSlot is InvalidMappingLink, Erased what eraseSrcMapping
\* leaves, which is not an index either.
Mapping(src, dst) == [src |-> src, dst |-> dst]
Erased == -2
InvalidMapping == Mapping(NoSlot, NoSlot)

Unmapped == [i \in Slots |-> InvalidMapping]

-----------------------------------------------------------------------------
SieveInit ==
    /\ Init
    /\ nodes = [i \in Slots |-> EmptyNode]
    /\ head = NoSlot /\ tail = NoSlot /\ hand = NoSlot
    /\ mapping = <<>> /\ order = <<>> /\ dropped = FALSE

\* moveNodeToHead(i), when the links were ns, h and t before.
MoveNodeToHead(i, ns, h, t) ==
    LET linked == [ns EXCEPT ![i] = [EmptyNode EXCEPT !.next = h]] IN
    /\ nodes' = IF h = NoSlot THEN linked ELSE [linked EXCEPT ![h].prev = i]
    /\ head' = i
    /\ tail' = IF t = NoSlot THEN i ELSE t

\* fixupNodes: F has the new slot of each slot of an entry.
Fixed(F, i) == IF i = NoSlot THEN NoSlot ELSE F[i]

FixedNode(F, node) == [prev |-> Fixed(F, node.prev), next |-> Fixed(F, node.next)]

PutAtOnce(e) ==
    /\ AddAtOnce(e)
    /\ MoveNodeToHead(FindFirstAvailableSlot(metadata, capacity, h1[e]), nodes, head, tail)
    /\ order' = <<e>> \o order
    /\ UNCHANGED <<hand, mapping, dropped>>

\* The one-way mapping of resizeStorage into the table t; 0 for the slots that
\* are not Full.
ResizeMapping(t) ==
    [i \in Slots |-> IF metadata[i] = Full
                     THEN CHOOSE s \in DOMAIN t.elements : t.elements[s] = elements[i]
                     ELSE 0]

\* Mutation of ResizedNodes: the links keep the old slots.
ResizedNodesUnfixed(t) ==
    LET F == ResizeMapping(t)
    IN  [s \in DOMAIN t.elements |->
           IF t.elements[s] = NoElement THEN EmptyNode
           ELSE nodes[CHOOSE i \in Slots : metadata[i] = Full /\ F[i] = s]]

ResizedNodes(t) ==
    LET F == ResizeMapping(t)
    IN  [s \in DOMAIN t.elements |->
           IF t.elements[s] = NoElement THEN EmptyNode
           ELSE FixedNode(F, nodes[CHOOSE i \in Slots : metadata[i] = Full /\ F[i] = s])]

PutAfterResize(e) ==
    LET t == Resized(NextCapacity(capacity))
        F == ResizeMapping(t)
    IN
    /\ AddAfterResize(e)
    /\ MoveNodeToHead(FindFirstAvailableSlot(t.metadata, t.capacity, h1[e]),
                      ResizedNodes(t), Fixed(F, head), Fixed(F, tail))
    /\ hand' = Fixed(F, hand)
    /\ order' = <<e>> \o order
    /\ UNCHANGED <<mapping, dropped>>

PutDropsDeletes(e) ==
    /\ DropDeletes(e)
    /\ mapping' = Unmapped
    /\ UNCHANGED <<links, order, dropped>>

SieveDropSkips ==
    /\ DropSkips
    /\ UNCHANGED <<links, mapping, order, dropped>>

SieveDropKeeps ==
    /\ DropKeeps
    /\ mapping' = IF mapping[index] = InvalidMapping
                  THEN [mapping EXCEPT ![index] = Mapping(index, index)]
                  ELSE mapping
    /\ UNCHANGED <<links, order, dropped>>

\* The node moves to Target, its slot becomes free.
SieveDropMoves ==
    LET src == mapping[index].src
        left == IF src # NoSlot
                THEN [mapping EXCEPT ![src].dst = Target, ![index].src = Erased]
                ELSE [mapping EXCEPT ![index] = Mapping(NoSlot, Target)]
    IN
    /\ DropMoves
    /\ nodes' = [nodes EXCEPT ![Target] = nodes[index], ![index] = EmptyNode]
    /\ mapping' = [left EXCEPT ![Target] = Mapping(index, NoSlot)]
    /\ dropped' = TRUE
    /\ UNCHANGED <<head, tail, hand, order>>

\* Mutation of SieveDropSwaps: the source is erased as after a move.
SieveDropSwapsErasing ==
    LET src == mapping[index].src
        left == IF src # NoSlot
                THEN [mapping EXCEPT ![src].dst = Target, ![index].src = Erased]
                ELSE [mapping EXCEPT ![index] = Mapping(Erased, Target)]
    IN
    /\ DropSwaps
    /\ nodes' = [nodes EXCEPT ![Target] = nodes[index], ![index] = nodes[Target]]
    /\ mapping' = [left EXCEPT ![Target] = Mapping(IF src # NoSlot THEN src ELSE index, index)]
    /\ dropped' = TRUE
    /\ UNCHANGED <<head, tail, hand, order>>

\* The node changes places with the one at Target.
SieveDropSwaps ==
    LET src == mapping[index].src
        left == IF src # NoSlot
                THEN [mapping EXCEPT ![src].dst = Target, ![index].src = Target]
                ELSE [mapping EXCEPT ![index] = Mapping(Target, Target)]
    IN
    /\ DropSwaps
    /\ nodes' = [nodes EXCEPT ![Target] = nodes[index], ![index] = nodes[Target]]
    /\ mapping' = [left EXCEPT ![Target] = Mapping(IF src # NoSlot THEN src ELSE index, index)]
    /\ dropped' = TRUE
    /\ UNCHANGED <<head, tail, hand, order>>

\* fixupNodes, and the entry put has in hand becomes the head.
SieveDropEnds ==
    LET F == [i \in Slots |-> mapping[i].dst] IN
    /\ DropEnds
    /\ MoveNodeToHead(FindFirstAvailableSlot(metadata, capacity, h1[pending]),
                      [i \in Slots |-> FixedNode(F, nodes[i])], Fixed(F, head), Fixed(F, tail))
    /\ hand' = Fixed(F, hand)
    /\ order' = <<pending>> \o order
    /\ mapping' = <<>>
    /\ UNCHANGED dropped

\* The place of the element e in the order.
Rank(e) == CHOOSE n \in DOMAIN order : order[n] = e

\* removeValueAt(i), when the hand is at h.
RemoveValueAt(i, h) ==
    LET prev == nodes[i].prev
        next == nodes[i].next
        rank == Rank(elements[i])
        n1   == IF prev = NoSlot THEN nodes ELSE [nodes EXCEPT ![prev].next = next]
        n2   == IF next = NoSlot THEN n1 ELSE [n1 EXCEPT ![next].prev = prev]
    IN
    /\ Remove(elements[i])
    /\ nodes' = [n2 EXCEPT ![i] = EmptyNode]
    /\ head' = IF prev = NoSlot THEN next ELSE head
    /\ tail' = IF next = NoSlot THEN prev ELSE tail
    /\ hand' = IF h = i THEN prev ELSE h
    /\ order' = SubSeq(order, 1, rank - 1) \o SubSeq(order, rank + 1, Len(order))
    /\ UNCHANGED <<mapping, dropped>>

RemoveKey(e) ==
    /\ pc = "idle"
    /\ Find(e, {Empty}) # NoSlot
    /\ RemoveValueAt(Find(e, {Empty}), hand)

\* trimToSize(size - 1); the candidate of a list that dropDeletes has broken may
\* be no entry at all, which is not followed further.
EvictOne ==
    LET candidate == IF hand # NoSlot THEN hand ELSE tail IN
    /\ pc = "idle"
    /\ candidate # NoSlot
    /\ metadata[candidate] = Full
    /\ RemoveValueAt(candidate, nodes[candidate].prev)

SieveDrop ==
    SieveDropSkips \/ SieveDropKeeps \/ SieveDropMoves \/ SieveDropSwaps \/ SieveDropEnds

SieveNext ==
    \/ \E e \in Elements : \/ PutAtOnce(e)
                           \/ PutAfterResize(e)
                           \/ PutDropsDeletes(e)
                           \/ RemoveKey(e)
    \/ EvictOne
    \/ SieveDrop

SieveSpec == SieveInit /\ [][SieveNext]_vars

-----------------------------------------------------------------------------
(* Properties *)

SlotOf(e) == CHOOSE i \in Slots : metadata[i] = Full /\ elements[i] = e

\* The slot of the n-th element of the order.
Nth(n) == IF n \in DOMAIN order THEN SlotOf(order[n]) ELSE NoSlot

ListIsOrder ==
    /\ head = Nth(1)
    /\ tail = Nth(Len(order))
    /\ \A n \in DOMAIN order : nodes[Nth(n)] = [prev |-> Nth(n - 1), next |-> Nth(n + 1)]
    /\ hand # NoSlot => metadata[hand] = Full

\* The list has the entries in the order they were put in, forwards and
\* backwards, and the hand is on it, as long as dropDeletes has moved none:
\* resizeStorage patches the links right.
ListSurvivesResize == pc = "idle" /\ ~dropped => ListIsOrder

\* The same after dropDeletes has moved entries: "we need to patch the nodes
\* array when we're done" (803).
ListSurvivesCleanup == pc = "idle" => ListIsOrder

\* The entries of the table are the elements put and not removed, each once and
\* each found, with the links moved beside them.
TableIsOrder ==
    /\ pc = "idle" => /\ Len(order) = size
                      /\ {order[n] : n \in DOMAIN order} = Stored
    /\ FindsExactly
    /\ ClonesAgree

\* dropDeletes never takes an erased source for an index of the mapping.
SourceIsIndex == Dropping /\ metadata[index] = Deleted => mapping[index].src # Erased
=============================================================================
