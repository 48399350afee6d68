---------------------------- MODULE CacheContract ----------------------------
(***************************************************************************)
(* What LruCache promises the owner of the values, as the documentation of *)
(* entryRemoved and create states it (LruCache.kt 212-243): a value handed *)
(* to the cache is held under its key until it is evicted, removed or      *)
(* replaced, a created value that lost the race for its key is never held, *)
(* and each of them is passed to entryRemoved exactly once, at some time   *)
(* after it left, before the owner hands it in again.                      *)
(***************************************************************************)
CONSTANTS Keys, Values, NoValue

VARIABLES
    contents,    \* the value each key is mapped to, or NoValue
    leaving,     \* values out of the cache whose entryRemoved is still due
    gone         \* values entryRemoved was called with

vars == <<contents, leaving, gone>>

Held == {contents[k] : k \in Keys} \ {NoValue}

Unseen == Values \ (Held \cup leaving \cup gone)

Init ==
    /\ contents = [k \in Keys |-> NoValue]
    /\ leaving = {}
    /\ gone = {}

\* A put, or a get whose created value is kept.
Accept(k, v) ==
    /\ v \in Unseen
    /\ contents' = [contents EXCEPT ![k] = v]
    /\ leaving' = leaving \cup ({contents[k]} \ {NoValue})
    /\ UNCHANGED gone

\* A created value that found its key taken.
Refuse(k, v) ==
    /\ v \in Unseen
    /\ contents[k] # NoValue
    /\ leaving' = leaving \cup {v}
    /\ UNCHANGED <<contents, gone>>

\* An eviction or a remove.
Drop(k) ==
    /\ contents[k] # NoValue
    /\ contents' = [contents EXCEPT ![k] = NoValue]
    /\ leaving' = leaving \cup {contents[k]}
    /\ UNCHANGED gone

Release(v) ==
    /\ v \in leaving
    /\ leaving' = leaving \ {v}
    /\ gone' = gone \cup {v}
    /\ UNCHANGED contents

\* The owner may hand in a value again that it got back.
Reuse(v) ==
    /\ v \in gone
    /\ gone' = gone \ {v}
    /\ UNCHANGED <<contents, leaving>>

Next ==
    \/ \E k \in Keys : Drop(k) \/ \E v \in Values : Accept(k, v) \/ Refuse(k, v)
    \/ \E v \in Values : Release(v) \/ Reuse(v)

Spec == Init /\ [][Next]_vars

\* entryRemoved is called for every value that left.
FairSpec == Spec /\ \A v \in Values : WF_vars(Release(v))
=============================================================================
