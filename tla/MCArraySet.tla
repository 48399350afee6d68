----------------------------- MODULE MCArraySet ------------------------------
(* Small instances of ArraySet. *)
EXTENDS ArraySet

CONSTANTS a1, a2, a3, b1, c1

\* Null and two elements have the hash 0, two elements hashes on either side of
\* it, one of them the one that is last in the order.
MCHashOf ==
    [e \in Elements |-> CASE e = a1 -> -1 [] e \in {Null, a2, a3} -> 0 [] e = b1 -> 5 [] e = c1 -> 9]

MCOthers == {<<a1, a2, Null>>, <<a3, a2, Null, b1>>}
=============================================================================
