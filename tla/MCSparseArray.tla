--------------------------- MODULE MCSparseArray ----------------------------
(* Small instances of SparseArray. *)
EXTENDS SparseArray

CONSTANT v1

\* Behind the mappings the keys are never read and the values never but to see
\* that nothing is kept there.
Used ==
    <<self.size, self.garbage, shown,
      [i \in DOMAIN self.keys |-> IF i < self.size THEN self.keys[i] ELSE 0],
      [i \in DOMAIN self.values |->
         IF i < self.size \/ self.values[i] # Deleted THEN self.values[i] ELSE Null]>>
=============================================================================
