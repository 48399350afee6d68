-------------------------------- MODULE Deque --------------------------------
(* What CircularArray promises: a sequence of elements that grows and shrinks *)
(* at both ends.  It is kept in an array with one place to spare, which must  *)
(* double to hold more, and when it cannot, the call fails.                   *)
EXTENDS Integers, Sequences

CONSTANTS Elements, MaxCapacity

VARIABLE items

Init == items = <<>>

AddFirst(e) == items' = <<e>> \o items

AddLast(e) == items' = Append(items, e)

\* popFirst and popLast are the removal of one element.
RemoveFromStart(n) ==
    /\ n <= Len(items)
    /\ items' = SubSeq(items, n + 1, Len(items))

RemoveFromEnd(n) ==
    /\ n <= Len(items)
    /\ items' = SubSeq(items, 1, Len(items) - n)

\* What a failed call leaves: the ring with its ends touching, which is empty.
Overflow == 2 * (Len(items) + 1) > MaxCapacity /\ items' = <<>>

Next ==
    \/ \E e \in Elements : AddFirst(e) \/ AddLast(e)
    \/ \E n \in 1 .. Len(items) : RemoveFromStart(n) \/ RemoveFromEnd(n)
    \/ Overflow

Spec == Init /\ [][Next]_items
==============================================================================
