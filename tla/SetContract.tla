----------------------------- MODULE SetContract -----------------------------
(* What MutableIntSet and the other scatter sets promise of their contents:  *)
(* a call adds or removes the element it names, clear removes all of them,   *)
(* and growing, cleaning up and trimming the storage change nothing.         *)
CONSTANT Elements

VARIABLE contents

Init == contents = {}

Add(e) == e \notin contents /\ contents' = contents \cup {e}

Remove(e) == e \in contents /\ contents' = contents \ {e}

Clear == contents' = {}

\* addAll to an empty set may copy the storage of the other.
Copy == contents = {} /\ contents' \subseteq Elements

Next == (\E e \in Elements : Add(e) \/ Remove(e)) \/ Clear \/ Copy

Spec == Init /\ [][Next]_contents
==============================================================================
