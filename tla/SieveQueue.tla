----------------------------- MODULE SieveQueue -----------------------------
(***************************************************************************)
(* The SIEVE eviction policy SieveCache announces (SieveCache.kt 44-57),   *)
(* on a queue of keys.  Keys enter at the head and never move.  A hand     *)
(* walks from the tail to the head and around, spares each key that was    *)
(* read since it last passed, and evicts the first that was not.           *)
(***************************************************************************)
EXTENDS Integers, Sequences, SequencesExt

CONSTANTS Keys, NoKey

VARIABLES
    queue,      \* head first
    visited,
    hand,       \* where the next search starts, NoKey for the tail
    candidate   \* where the current search stands, NoKey if there is none

vars == <<queue, visited, hand, candidate>>

Queued == {queue[i] : i \in DOMAIN queue}

\* The place of a queued key, 1 being the head.
Place(k) == CHOOSE i \in DOMAIN queue : queue[i] = k

\* The neighbour towards the head.
Newer(k) == IF Place(k) = 1 THEN NoKey ELSE queue[Place(k) - 1]

OrTail(k) ==
    IF k # NoKey THEN k ELSE IF queue = <<>> THEN NoKey ELSE Last(queue)

Init == queue = <<>> /\ visited = {} /\ hand = NoKey /\ candidate = NoKey

Insert(k) ==
    /\ k \notin Queued /\ candidate = NoKey
    /\ queue' = <<k>> \o queue
    /\ UNCHANGED <<visited, hand, candidate>>

Hit(k) ==
    /\ k \in Queued /\ candidate = NoKey
    /\ visited' = visited \cup {k}
    /\ UNCHANGED <<queue, hand, candidate>>

Delete(k) ==
    /\ k \in Queued /\ candidate = NoKey
    /\ queue' = RemoveAt(queue, Place(k))
    /\ visited' = visited \ {k}
    /\ hand' = IF hand = k THEN Newer(k) ELSE hand
    /\ UNCHANGED candidate

Search ==
    /\ queue # <<>> /\ candidate = NoKey
    /\ candidate' = OrTail(hand)
    /\ UNCHANGED <<queue, visited, hand>>

Spare ==
    /\ candidate \in visited
    /\ visited' = visited \ {candidate}
    /\ candidate' = OrTail(Newer(candidate))
    /\ UNCHANGED <<queue, hand>>

Evict ==
    /\ candidate # NoKey /\ candidate \notin visited
    /\ queue' = RemoveAt(queue, Place(candidate))
    /\ hand' = Newer(candidate)
    /\ candidate' = NoKey
    /\ UNCHANGED visited

\* No step of the policy: what was read is forgotten.
Forget ==
    /\ candidate = NoKey
    /\ visited' = {}
    /\ UNCHANGED <<queue, hand, candidate>>

Next ==
    \/ \E k \in Keys : Insert(k) \/ Hit(k) \/ Delete(k)
    \/ Search \/ Spare \/ Evict

Spec == Init /\ [][Next]_vars
=============================================================================
