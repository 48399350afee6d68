----------------------------- MODULE MapContract -----------------------------
(* What the sparse arrays promise of their contents, a set of pairs of a key  *)
(* and its value: a call maps the key it names, or takes mappings out, and    *)
(* compacting or growing the arrays changes nothing.                          *)
CONSTANTS Keys, Values

VARIABLE contents

Init == contents = {}

Put(k, v) == contents' = {m \in contents : m[1] # k} \cup {<<k, v>>}

Erase == contents' \subseteq contents

Next == (\E k \in Keys, v \in Values : Put(k, v)) \/ Erase

Spec == Init /\ [][Next]_contents
=============================================================================
