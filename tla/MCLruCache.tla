----------------------------- MODULE MCLruCache -----------------------------
(* Small instances of LruCache. *)
EXTENDS LruCache, TLC

CONSTANTS v1, v2, v3, v4

\* A value of size 0 (what evictAll's -1 is for), two of size 1, one that
\* alone is over the smallest maximum.
MCSizeOf == [v \in Values |-> CASE v = v1 -> 1 [] v = v2 -> 2 [] v = v3 -> 0 [] v = v4 -> 1]

\* A value whose sizeOf is negative, and legal sizes of which two together are
\* over an IntMax of 4.
FaultySizeOf == [v \in Values |-> CASE v = v1 -> 3 [] v = v2 -> -1 [] v = v3 -> 2 [] v = v4 -> 1]

MCTrimSizes == {0}

\* The owner of the values hands v in again, and there may be as many lookups
\* as LookupBound says once more.
HandBack(v) ==
    /\ gone[v] # "no"
    /\ gone' = [gone EXCEPT ![v] = "no"]
    /\ fresh' = fresh \cup {v}
    /\ hitCount' = 0 /\ missCount' = 0
    /\ UNCHANGED <<map, size, maxSize, createCount, putCount, evictionCount,
                   frame, faults>>

\* Threads that may fill the cache again for ever.
RefillSpec ==
    /\ Init
    /\ [][Next \/ \E v \in Values : HandBack(v)]_vars
    /\ Fairness

\* What decides how the cache goes on: the number of lookups, of all counters,
\* and whether entryRemoved was called with a value, not how.
View == <<map, size, maxSize, hitCount + missCount, frame, fresh,
          {v \in Values : gone[v] # "no"}, faults>>

Symmetric == Permutations(Threads) \cup Permutations(Keys)
=============================================================================
