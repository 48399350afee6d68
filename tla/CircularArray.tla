---------------------------- MODULE CircularArray ----------------------------
(***************************************************************************)
(* androidx.collection.CircularArray: a deque in a ring of elements of     *)
(* which the places from head up to but not including tail are used,       *)
(* modulo the capacity, a power of two.  head = tail means empty: the ring *)
(* is doubled as soon as it is full.                                       *)
(***************************************************************************)
EXTENDS Integers, FiniteSets, Sequences

CONSTANTS
    Elements, Null,
    MinCapacity,     \* the argument of the constructor
    MaxCapacity      \* 2^30, the longest array doubleCapacity will make

\* What the constructor makes of its argument.
RoundedUp(n) ==
    LET Powers == {2 ^ i : i \in 0 .. 30}
    IN  CHOOSE p \in Powers : p >= n /\ \A q \in Powers : q >= n => p <= q

ASSUME RingAssumption ==
    /\ Null \notin Elements
    /\ MinCapacity \in Nat /\ MaxCapacity \in Nat
    /\ RoundedUp(MinCapacity) \in 1 .. MaxCapacity

VARIABLES
    elements, head, tail, capacityBitmask,
    overflowed    \* a call has failed for want of a longer array

vars == <<elements, head, tail, capacityBitmask, overflowed>>

-----------------------------------------------------------------------------
\* i and capacityBitmask.
Masked(i) == i % (capacityBitmask + 1)

Capacity == Cardinality(DOMAIN elements)

Size == Masked(tail - head)

\* What get(i) returns.
ElementAt(i) == elements[Masked(head + i)]

\* The array f with null from the first to before the last place.
Cleared(f, first, last) ==
    [i \in DOMAIN f |-> IF first <= i /\ i < last THEN Null ELSE f[i]]

\* Mutation of Doubled: the part in front of the head is forgotten.
DoubledHalf(f, first, n) ==
    [i \in 0 .. 2 * n - 1 |-> IF i < n - first THEN f[first + i] ELSE Null]

\* doubleCapacity: the ring f of n places is laid out from its head on.
Doubled(f, first, n) ==
    [i \in 0 .. 2 * n - 1 |->
       IF i < n - first THEN f[first + i]
       ELSE IF i < n THEN f[i - (n - first)]
       ELSE Null]

\* Mutation of Added: the mask of the old array is kept.
AddedUnderOldMask(f, first, last) ==
    /\ IF first # last
         THEN elements' = f /\ head' = first /\ tail' = last
         ELSE /\ 2 * Capacity <= MaxCapacity
              /\ elements' = Doubled(f, first, Capacity)
              /\ head' = 0 /\ tail' = Capacity
    /\ UNCHANGED <<capacityBitmask, overflowed>>

\* An add has stored into f and moved head or tail.
Added(f, first, last) ==
    IF first # last
      THEN /\ elements' = f /\ head' = first /\ tail' = last
           /\ UNCHANGED <<capacityBitmask, overflowed>>
    ELSE IF 2 * Capacity <= MaxCapacity
      THEN /\ elements' = Doubled(f, first, Capacity)
           /\ head' = 0 /\ tail' = Capacity
           /\ capacityBitmask' = 2 * Capacity - 1
           /\ UNCHANGED overflowed
    ELSE /\ elements' = f /\ head' = first /\ tail' = last
         /\ overflowed' = TRUE
         /\ UNCHANGED capacityBitmask

-----------------------------------------------------------------------------
Init ==
    /\ elements = [i \in 0 .. RoundedUp(MinCapacity) - 1 |-> Null]
    /\ head = 0 /\ tail = 0
    /\ capacityBitmask = RoundedUp(MinCapacity) - 1
    /\ overflowed = FALSE

AddFirst(e) ==
    LET first == Masked(head - 1)
    IN  Added([elements EXCEPT ![first] = e], first, tail)

AddLast(e) == Added([elements EXCEPT ![tail] = e], head, Masked(tail + 1))

PopFirst ==
    /\ head # tail
    /\ elements' = [elements EXCEPT ![head] = Null]
    /\ head' = Masked(head + 1)
    /\ UNCHANGED <<tail, capacityBitmask, overflowed>>

PopLast ==
    LET t == Masked(tail - 1) IN
    /\ head # tail
    /\ elements' = [elements EXCEPT ![t] = Null]
    /\ tail' = t
    /\ UNCHANGED <<head, capacityBitmask, overflowed>>

\* removeFromStart: up to the end of the array, then from its beginning.
\* clear() is removeFromStart(size()).
RemoveFromStart(count) ==
    LET end == IF count < Capacity - head THEN head + count ELSE Capacity
        wrapped == count - (end - head)
        cleared == Cleared(elements, head, end)
    IN
    /\ 0 < count /\ count <= Size
    /\ IF wrapped > 0
         THEN elements' = Cleared(cleared, 0, wrapped) /\ head' = wrapped
         ELSE elements' = cleared /\ head' = Masked(end)
    /\ UNCHANGED <<tail, capacityBitmask, overflowed>>

\* Mutation of RemoveFromEnd: the part before the end of the array is not
\* cleared.
RemoveFromEndUncleared(count) ==
    /\ 0 < count /\ count <= Size
    /\ elements' = Cleared(elements, IF count < tail THEN tail - count ELSE 0, tail)
    /\ tail' = Masked(tail - count)
    /\ UNCHANGED <<head, capacityBitmask, overflowed>>

\* removeFromEnd: down to the beginning of the array, then from its end.
RemoveFromEnd(count) ==
    LET start == IF count < tail THEN tail - count ELSE 0
        wrapped == count - (tail - start)
        cleared == Cleared(elements, start, tail)
    IN
    /\ 0 < count /\ count <= Size
    /\ IF wrapped > 0
         THEN /\ elements' = Cleared(cleared, Capacity - wrapped, Capacity)
              /\ tail' = Capacity - wrapped
         ELSE elements' = cleared /\ tail' = start
    /\ UNCHANGED <<head, capacityBitmask, overflowed>>

Next ==
    \/ \E e \in Elements : AddFirst(e) \/ AddLast(e)
    \/ PopFirst
    \/ PopLast
    \/ \E n \in 1 .. Size : RemoveFromStart(n) \/ RemoveFromEnd(n)

Spec == Init /\ [][Next]_vars

-----------------------------------------------------------------------------
(* Properties *)

Places == 0 .. capacityBitmask

\* The fields have their types, the mask is the one of the array, and head and
\* tail are places of it.
TypeOK ==
    /\ capacityBitmask \in Nat /\ capacityBitmask < MaxCapacity
    /\ elements \in [Places -> Elements \cup {Null}]
    /\ head \in Places /\ tail \in Places
    /\ overflowed \in BOOLEAN

\* The place i is between head and tail, going up and around.
Used(i) == Masked(i - head) < Size

\* Exactly the places between head and tail hold an element: none is lost when
\* a removal or a doubling wraps around the end of the array, and what has
\* been removed is not kept alive.
HoldsItsElements ==
    ~overflowed => \A i \in Places : Used(i) <=> elements[i] # Null

\* What the ring holds, as get(0), get(1), ... return it.
Items == [i \in 1 .. Size |-> ElementAt(i - 1)]

\* The ring implements the deque.
Abstract == INSTANCE Deque WITH items <- Items

ImplementsDeque == Abstract!Spec
==============================================================================
