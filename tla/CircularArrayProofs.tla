------------------------ MODULE CircularArrayProofs ------------------------
(***************************************************************************)
(* Theorems about CircularArray, for any elements and any capacities.      *)
(***************************************************************************)
EXTENDS CircularArray, FiniteSetTheorems, TLAPS

(***************************************************************************)
(* Facts about the mask.                                                   *)
(***************************************************************************)

\* A number within a capacity of the ring is brought back into it by adding or
\* subtracting the capacity once.
LEMMA Wrapped ==
    ASSUME NEW c \in Nat \ {0}, NEW x \in -c .. 2 * c - 1
    PROVE  x % c = IF x < 0 THEN x + c ELSE IF x < c THEN x ELSE x - c
<1>1. CASE x < 0
  BY <1>1, SMTT(30)
<1>2. CASE 0 <= x /\ x < c
  BY <1>2, Z3
<1>3. CASE c <= x
  BY <1>3, SMTT(30)
<1> QED
  BY <1>1, <1>2, <1>3

\* The places between head and tail, without the modulus.
LEMMA Between ==
    ASSUME NEW c \in Nat \ {0}, NEW h \in 0 .. c - 1, NEW t \in 0 .. c - 1,
           NEW i \in 0 .. c - 1
    PROVE  (i - h) % c < (t - h) % c
             <=> IF h <= t THEN h <= i /\ i < t ELSE h <= i \/ i < t
<1>1. (i - h) % c = IF i < h THEN i - h + c ELSE i - h
  <2>1. CASE i < h
    BY <2>1, SMTT(30)
  <2>2. CASE i >= h
    BY <2>2, SMTT(30)
  <2> QED
    BY <2>1, <2>2
<1>2. (t - h) % c = IF t < h THEN t - h + c ELSE t - h
  <2>1. CASE t < h
    BY <2>1, SMTT(30)
  <2>2. CASE t >= h
    BY <2>2, SMTT(30)
  <2> QED
    BY <2>1, <2>2
<1> QED
  BY <1>1, <1>2

\* The capacity is the one of the mask.
LEMMA CapacityOfMask ==
    TypeOK => /\ capacityBitmask \in Nat
              /\ Capacity = capacityBitmask + 1
              /\ Capacity \in Nat \ {0}
<1> SUFFICES ASSUME TypeOK
             PROVE  /\ capacityBitmask \in Nat
                    /\ Capacity = capacityBitmask + 1
                    /\ Capacity \in Nat \ {0}
  OBVIOUS
<1>1. capacityBitmask \in Nat /\ DOMAIN elements = 0 .. capacityBitmask
  BY DEF TypeOK, Places
<1>2. Cardinality(0 .. capacityBitmask) = capacityBitmask + 1
  BY <1>1, FS_Interval
<1> QED
  BY <1>1, <1>2 DEF Capacity

\* What Masked does with the numbers the operations apply it to.
LEMMA MaskedIs ==
    ASSUME TypeOK, NEW x \in -Capacity .. 2 * Capacity - 1
    PROVE  /\ Masked(x) = IF x < 0 THEN x + Capacity
                          ELSE IF x < Capacity THEN x ELSE x - Capacity
           /\ Masked(x) \in Places
<1>1. capacityBitmask \in Nat /\ Capacity = capacityBitmask + 1 /\ Capacity \in Nat \ {0}
  BY CapacityOfMask
<1>2. x % Capacity = IF x < 0 THEN x + Capacity
                     ELSE IF x < Capacity THEN x ELSE x - Capacity
  BY <1>1, Wrapped
<1>3. Masked(x) = x % Capacity
  BY <1>1, Zenon DEF Masked
<1>4. x % Capacity \in 0 .. capacityBitmask
  BY <1>1, <1>2
<1> QED
  BY <1>2, <1>3, <1>4, Zenon DEF Places

\* The number of elements.
LEMMA SizeIs ==
    TypeOK => /\ Size = IF tail < head THEN tail - head + Capacity ELSE tail - head
              /\ Size \in 0 .. capacityBitmask
<1> SUFFICES ASSUME TypeOK
             PROVE  /\ Size = IF tail < head THEN tail - head + Capacity ELSE tail - head
                    /\ Size \in 0 .. capacityBitmask
  OBVIOUS
<1>1. capacityBitmask \in Nat /\ Capacity = capacityBitmask + 1 /\ Capacity \in Nat \ {0}
  BY CapacityOfMask
<1>2. head \in 0 .. Capacity - 1 /\ tail \in 0 .. Capacity - 1
  BY <1>1 DEF TypeOK, Places
<1>3. tail - head \in -Capacity .. 2 * Capacity - 1
  BY <1>1, <1>2
<1>4. Size = IF tail - head < 0 THEN tail - head + Capacity
             ELSE IF tail - head < Capacity THEN tail - head
             ELSE tail - head - Capacity
  BY <1>3, MaskedIs, Zenon DEF Size
<1> QED
  BY <1>1, <1>2, <1>4

(***************************************************************************)
(* Types.                                                                  *)
(***************************************************************************)

\* Clearing a part of an array leaves an array.
LEMMA ClearedType ==
    ASSUME NEW n \in Nat, NEW S, Null \in S, NEW f \in [0 .. n -> S],
           NEW a \in Int, NEW b \in Int
    PROVE  Cleared(f, a, b) \in [0 .. n -> S]
BY DEF Cleared

\* The doubled array.
LEMMA DoubledType ==
    ASSUME NEW n \in Nat \ {0}, NEW S, Null \in S, NEW f \in [0 .. n - 1 -> S],
           NEW first \in 0 .. n - 1
    PROVE  Doubled(f, first, n) \in [0 .. 2 * n - 1 -> S]
<1>1. ASSUME NEW i \in 0 .. 2 * n - 1
      PROVE  (IF i < n - first THEN f[first + i]
              ELSE IF i < n THEN f[i - (n - first)] ELSE Null) \in S
  <2>1. CASE i < n - first
    <3>1. first + i \in 0 .. n - 1
      BY <2>1
    <3> QED
      BY <2>1, <3>1
  <2>2. CASE ~(i < n - first) /\ i < n
    <3>1. i - (n - first) \in 0 .. n - 1
      BY <2>2
    <3> QED
      BY <2>2, <3>1
  <2>3. CASE ~(i < n - first) /\ ~(i < n)
    BY <2>3
  <2> QED
    BY <2>1, <2>2, <2>3
<1> QED
  BY <1>1 DEF Doubled

\* An add leaves the fields with their types, however it ends.
LEMMA AddedType ==
    ASSUME TypeOK,
           NEW f \in [Places -> Elements \cup {Null}],
           NEW first \in Places, NEW last \in Places,
           Added(f, first, last)
    PROVE  TypeOK'
<1>1. capacityBitmask \in Nat /\ Capacity = capacityBitmask + 1 /\ Capacity \in Nat \ {0}
  BY CapacityOfMask
<1>2. CASE first # last
  BY <1>1, <1>2 DEF TypeOK, Added, Places
<1>3. CASE first = last /\ 2 * Capacity <= MaxCapacity
  <2>1. f \in [0 .. Capacity - 1 -> Elements \cup {Null}] /\ first \in 0 .. Capacity - 1
    BY <1>1 DEF Places
  <2>2. Doubled(f, first, Capacity) \in [0 .. 2 * Capacity - 1 -> Elements \cup {Null}]
    BY <1>1, <2>1, DoubledType
  <2>3. /\ elements' = Doubled(f, first, Capacity)
        /\ head' = 0 /\ tail' = Capacity
        /\ capacityBitmask' = 2 * Capacity - 1
        /\ overflowed' = overflowed
    BY <1>3 DEF Added
  <2>4. capacityBitmask' \in Nat /\ capacityBitmask' < MaxCapacity
    BY <1>1, <1>3, <2>3, RingAssumption
  <2>5. head' \in Places' /\ tail' \in Places'
    BY <1>1, <2>3 DEF Places
  <2>6. elements' \in [Places' -> Elements \cup {Null}]
    BY <2>2, <2>3 DEF Places
  <2> QED
    BY <2>3, <2>4, <2>5, <2>6 DEF TypeOK
<1>4. CASE first = last /\ ~(2 * Capacity <= MaxCapacity)
  BY <1>1, <1>4 DEF TypeOK, Added, Places
<1> QED
  BY <1>2, <1>3, <1>4

\* The constructor.
LEMMA TypeInit == Init => TypeOK
<1> SUFFICES ASSUME Init PROVE TypeOK
  OBVIOUS
<1>1. RoundedUp(MinCapacity) \in 1 .. MaxCapacity /\ MaxCapacity \in Nat
  BY RingAssumption
<1>2. /\ elements = [i \in 0 .. RoundedUp(MinCapacity) - 1 |-> Null]
      /\ head = 0 /\ tail = 0
      /\ capacityBitmask = RoundedUp(MinCapacity) - 1
      /\ overflowed = FALSE
  BY DEF Init
<1>3. capacityBitmask \in Nat /\ capacityBitmask < MaxCapacity
  BY <1>1, <1>2
<1>4. elements \in [0 .. capacityBitmask -> Elements \cup {Null}]
  BY <1>2
<1>5. head \in 0 .. capacityBitmask /\ tail \in 0 .. capacityBitmask
  BY <1>2, <1>3
<1> QED
  BY <1>2, <1>3, <1>4, <1>5 DEF TypeOK, Places

\* Where the operations move head and tail.
LEMMA Moves ==
    ASSUME TypeOK
    PROVE  /\ Masked(head - 1) = (IF head = 0 THEN capacityBitmask ELSE head - 1)
           /\ Masked(head + 1) = (IF head = capacityBitmask THEN 0 ELSE head + 1)
           /\ Masked(tail - 1) = (IF tail = 0 THEN capacityBitmask ELSE tail - 1)
           /\ Masked(tail + 1) = (IF tail = capacityBitmask THEN 0 ELSE tail + 1)
<1>1. capacityBitmask \in Nat /\ Capacity = capacityBitmask + 1 /\ Capacity \in Nat \ {0}
  BY CapacityOfMask
<1>2. head \in 0 .. capacityBitmask /\ tail \in 0 .. capacityBitmask
  BY DEF TypeOK, Places
<1>3. ASSUME NEW p \in 0 .. capacityBitmask
      PROVE  /\ Masked(p - 1) = (IF p = 0 THEN capacityBitmask ELSE p - 1)
             /\ Masked(p + 1) = (IF p = capacityBitmask THEN 0 ELSE p + 1)
  <2>1. p - 1 \in -Capacity .. 2 * Capacity - 1
    BY <1>1
  <2>2. Masked(p - 1) = (IF p - 1 < 0 THEN p - 1 + Capacity
                         ELSE IF p - 1 < Capacity THEN p - 1 ELSE p - 1 - Capacity)
    BY <2>1, MaskedIs, Zenon
  <2> DEFINE next == p + 1
  <2>3. next \in -Capacity .. 2 * Capacity - 1
    BY <1>1
  <2> HIDE DEF next
  <2>4. Masked(next) = (IF next < 0 THEN next + Capacity
                        ELSE IF next < Capacity THEN next ELSE next - Capacity)
    BY <2>3, MaskedIs, Zenon
  <2> QED
    BY <1>1, <2>2, <2>4 DEF next
<1> QED
  BY <1>2, <1>3, Zenon

(***************************************************************************)
(* What the removals do, whether or not they wrap around.                  *)
(***************************************************************************)

\* The ring after the removal of n elements from its start.
RemovedFromStart(n) ==
    /\ elements' = [i \in Places |->
                      IF (head <= i /\ i < head + n) \/ i < head + n - Capacity
                        THEN Null ELSE elements[i]]
    /\ head' = IF head + n < Capacity THEN head + n ELSE head + n - Capacity
    /\ UNCHANGED <<tail, capacityBitmask, overflowed>>

\* The ring after the removal of n elements from its end.
RemovedFromEnd(n) ==
    /\ elements' = [i \in Places |->
                      IF (tail - n <= i /\ i < tail) \/ tail - n + Capacity <= i
                        THEN Null ELSE elements[i]]
    /\ tail' = IF n <= tail THEN tail - n ELSE tail - n + Capacity
    /\ UNCHANGED <<head, capacityBitmask, overflowed>>

\* removeFromStart: in one part, exactly to the end of the array, or in two.
LEMMA RemovesFromStart ==
    ASSUME TypeOK, NEW n \in 1 .. Size, RemoveFromStart(n)
    PROVE  RemovedFromStart(n)
<1> DEFINE end == IF n < Capacity - head THEN head + n ELSE Capacity
           wrapped == n - (end - head)
           cleared == Cleared(elements, head, end)
<1>1. capacityBitmask \in Nat /\ Capacity = capacityBitmask + 1 /\ Capacity \in Nat \ {0}
  BY CapacityOfMask
<1>2. /\ head \in 0 .. capacityBitmask /\ tail \in 0 .. capacityBitmask
      /\ elements \in [0 .. capacityBitmask -> Elements \cup {Null}]
  BY DEF TypeOK, Places
<1>3. n \in 1 .. capacityBitmask
  BY <1>1, SizeIs
<1>4. /\ IF wrapped > 0
            THEN elements' = Cleared(cleared, 0, wrapped) /\ head' = wrapped
            ELSE elements' = cleared /\ head' = Masked(end)
      /\ UNCHANGED <<tail, capacityBitmask, overflowed>>
  BY Zenon DEF RemoveFromStart
<1>5. CASE n < Capacity - head
  <2>1. end = head + n /\ wrapped = 0
    BY <1>1, <1>2, <1>3, <1>5
  <2>2. end \in -Capacity .. 2 * Capacity - 1 /\ end < Capacity /\ ~(end < 0)
    BY <1>1, <1>2, <1>3, <1>5
  <2>3. Masked(end) = end
    <3> HIDE DEF end
    <3>1. Masked(end) = IF end < 0 THEN end + Capacity
                        ELSE IF end < Capacity THEN end ELSE end - Capacity
      BY <2>2, MaskedIs, Zenon
    <3> QED
      BY <2>2, <3>1
  <2>4. elements' = cleared /\ head' = head + n
    BY <1>4, <2>1, <2>3
  <2>5. elements' = [i \in Places |->
                      IF (head <= i /\ i < head + n) \/ i < head + n - Capacity
                        THEN Null ELSE elements[i]]
    BY <1>1, <1>2, <1>3, <1>5, <2>1, <2>4 DEF Cleared, Places
  <2> QED
    BY <1>1, <1>2, <1>3, <1>4, <1>5, <2>4, <2>5 DEF RemovedFromStart
<1>6. CASE n = Capacity - head
  <2>1. end = Capacity /\ wrapped = 0
    BY <1>1, <1>2, <1>3, <1>6
  <2>2. Masked(Capacity) = 0
    <3>1. Capacity \in -Capacity .. 2 * Capacity - 1
      BY <1>1
    <3>2. Masked(Capacity) = IF Capacity < 0 THEN Capacity + Capacity
                             ELSE IF Capacity < Capacity THEN Capacity ELSE Capacity - Capacity
      BY <3>1, MaskedIs, Zenon
    <3> QED
      BY <1>1, <3>2
  <2>3. elements' = cleared /\ head' = 0
    BY <1>4, <2>1, <2>2
  <2>4. elements' = [i \in Places |->
                      IF (head <= i /\ i < head + n) \/ i < head + n - Capacity
                        THEN Null ELSE elements[i]]
    BY <1>1, <1>2, <1>3, <1>6, <2>1, <2>3 DEF Cleared, Places
  <2> QED
    BY <1>1, <1>2, <1>3, <1>4, <1>6, <2>3, <2>4 DEF RemovedFromStart
<1>7. CASE n > Capacity - head
  <2>1. end = Capacity /\ wrapped = head + n - Capacity /\ wrapped > 0
    BY <1>1, <1>2, <1>3, <1>7
  <2>2. elements' = Cleared(cleared, 0, wrapped) /\ head' = head + n - Capacity
    BY <1>4, <2>1
  <2>3. elements' = [i \in Places |->
                      IF (head <= i /\ i < head + n) \/ i < head + n - Capacity
                        THEN Null ELSE elements[i]]
    BY <1>1, <1>2, <1>3, <1>7, <2>1, <2>2 DEF Cleared, Places
  <2> QED
    BY <1>1, <1>2, <1>3, <1>4, <1>7, <2>2, <2>3 DEF RemovedFromStart
<1> QED
  BY <1>1, <1>2, <1>3, <1>5, <1>6, <1>7

\* removeFromEnd: in one part, exactly to the start of the array, or in two.
LEMMA RemovesFromEnd ==
    ASSUME TypeOK, NEW n \in 1 .. Size, RemoveFromEnd(n)
    PROVE  RemovedFromEnd(n)
<1> DEFINE start == IF n < tail THEN tail - n ELSE 0
           wrapped == n - (tail - start)
           cleared == Cleared(elements, start, tail)
<1>1. capacityBitmask \in Nat /\ Capacity = capacityBitmask + 1 /\ Capacity \in Nat \ {0}
  BY CapacityOfMask
<1>2. /\ head \in 0 .. capacityBitmask /\ tail \in 0 .. capacityBitmask
      /\ elements \in [0 .. capacityBitmask -> Elements \cup {Null}]
  BY DEF TypeOK, Places
<1>3. n \in 1 .. capacityBitmask
  BY <1>1, SizeIs
<1>4. /\ IF wrapped > 0
            THEN /\ elements' = Cleared(cleared, Capacity - wrapped, Capacity)
                 /\ tail' = Capacity - wrapped
            ELSE elements' = cleared /\ tail' = start
      /\ UNCHANGED <<head, capacityBitmask, overflowed>>
  BY Zenon DEF RemoveFromEnd
<1>5. CASE n <= tail
  <2>1. start = tail - n /\ wrapped = 0
    BY <1>2, <1>3, <1>5
  <2>2. elements' = cleared /\ tail' = tail - n
    BY <1>4, <2>1
  <2>3. elements' = [i \in Places |->
                      IF (tail - n <= i /\ i < tail) \/ tail - n + Capacity <= i
                        THEN Null ELSE elements[i]]
    BY <1>1, <1>2, <1>3, <1>5, <2>1, <2>2 DEF Cleared, Places
  <2> QED
    BY <1>4, <1>5, <2>2, <2>3 DEF RemovedFromEnd
<1>6. CASE n > tail
  <2>1. start = 0 /\ wrapped = n - tail /\ wrapped > 0
    BY <1>2, <1>3, <1>6
  <2>2. /\ elements' = Cleared(cleared, Capacity - wrapped, Capacity)
        /\ tail' = tail - n + Capacity
    BY <1>1, <1>2, <1>3, <1>4, <2>1
  <2>3. elements' = [i \in Places |->
                      IF (tail - n <= i /\ i < tail) \/ tail - n + Capacity <= i
                        THEN Null ELSE elements[i]]
    BY <1>1, <1>2, <1>3, <1>6, <2>1, <2>2 DEF Cleared, Places
  <2> QED
    BY <1>2, <1>3, <1>4, <1>6, <2>2, <2>3 DEF RemovedFromEnd
<1> QED
  BY <1>2, <1>3, <1>5, <1>6

\* popFirst and popLast are the removal of one element.
LEMMA Pops ==
    ASSUME TypeOK
    PROVE  /\ PopFirst => 1 \in 1 .. Size /\ RemovedFromStart(1)
           /\ PopLast => 1 \in 1 .. Size /\ RemovedFromEnd(1)
<1>1. capacityBitmask \in Nat /\ Capacity = capacityBitmask + 1 /\ Capacity \in Nat \ {0}
  BY CapacityOfMask
<1>2. /\ head \in 0 .. capacityBitmask /\ tail \in 0 .. capacityBitmask
      /\ elements \in [0 .. capacityBitmask -> Elements \cup {Null}]
  BY DEF TypeOK, Places
<1>3. head # tail => 1 \in 1 .. Size
  BY <1>1, <1>2, SizeIs
<1>4. ASSUME PopFirst
      PROVE  1 \in 1 .. Size /\ RemovedFromStart(1)
  <2>1. /\ head # tail
        /\ elements' = [elements EXCEPT ![head] = Null]
        /\ head' = Masked(head + 1)
        /\ UNCHANGED <<tail, capacityBitmask, overflowed>>
    BY <1>4 DEF PopFirst
  <2>2. elements' = [i \in Places |->
                      IF (head <= i /\ i < head + 1) \/ i < head + 1 - Capacity
                        THEN Null ELSE elements[i]]
    <3>1. elements' = [i \in Places |-> IF i = head THEN Null ELSE elements[i]]
      BY <1>2, <2>1 DEF Places
    <3>2. \A i \in Places :
             (head <= i /\ i < head + 1) \/ i < head + 1 - Capacity <=> i = head
      BY <1>1, <1>2 DEF Places
    <3> QED
      BY <3>1, <3>2, Zenon
  <2>3. head' = IF head + 1 < Capacity THEN head + 1 ELSE head + 1 - Capacity
    BY <1>1, <1>2, <2>1, Moves
  <2> QED
    BY <1>3, <2>1, <2>2, <2>3 DEF RemovedFromStart
<1>5. ASSUME PopLast
      PROVE  1 \in 1 .. Size /\ RemovedFromEnd(1)
  <2> DEFINE t == IF tail = 0 THEN capacityBitmask ELSE tail - 1
  <2>1. /\ head # tail
        /\ elements' = [elements EXCEPT ![t] = Null]
        /\ tail' = t
        /\ UNCHANGED <<head, capacityBitmask, overflowed>>
    <3>1. Masked(tail - 1) = t
      BY Moves
    <3> QED
      BY <1>5, <3>1 DEF PopLast
  <2>2. elements' = [i \in Places |->
                      IF (tail - 1 <= i /\ i < tail) \/ tail - 1 + Capacity <= i
                        THEN Null ELSE elements[i]]
    <3>1. elements' = [i \in Places |-> IF i = t THEN Null ELSE elements[i]]
      BY <1>2, <2>1 DEF Places
    <3>2. \A i \in Places :
             (tail - 1 <= i /\ i < tail) \/ tail - 1 + Capacity <= i <=> i = t
      BY <1>1, <1>2 DEF Places
    <3> QED
      BY <3>1, <3>2
  <2>3. tail' = IF 1 <= tail THEN tail - 1 ELSE tail - 1 + Capacity
    BY <1>1, <1>2, <2>1
  <2> QED
    BY <1>3, <2>1, <2>2, <2>3 DEF RemovedFromEnd
<1> QED
  BY <1>4, <1>5

\* A removal leaves the fields with their types.
LEMMA RemovalType ==
    ASSUME TypeOK, NEW n \in 1 .. Size,
           RemovedFromStart(n) \/ RemovedFromEnd(n)
    PROVE  TypeOK'
<1>1. capacityBitmask \in Nat /\ Capacity = capacityBitmask + 1 /\ Capacity \in Nat \ {0}
  BY CapacityOfMask
<1>2. n \in 1 .. capacityBitmask
  BY <1>1, SizeIs
<1>3. CASE RemovedFromStart(n)
  <2>1. elements' \in [Places -> Elements \cup {Null}]
    BY <1>3 DEF RemovedFromStart, TypeOK
  <2>2. head' \in 0 .. capacityBitmask
    BY <1>1, <1>2, <1>3 DEF RemovedFromStart, TypeOK, Places
  <2> QED
    BY <1>3, <2>1, <2>2 DEF RemovedFromStart, TypeOK, Places
<1>4. CASE RemovedFromEnd(n)
  <2>1. elements' \in [Places -> Elements \cup {Null}]
    BY <1>4 DEF RemovedFromEnd, TypeOK
  <2>2. tail' \in 0 .. capacityBitmask
    BY <1>1, <1>2, <1>4 DEF RemovedFromEnd, TypeOK, Places
  <2> QED
    BY <1>4, <2>1, <2>2 DEF RemovedFromEnd, TypeOK, Places
<1> QED
  BY <1>3, <1>4

\* An add stores at a place of the ring.
LEMMA AddsAt ==
    ASSUME TypeOK, NEW e \in Elements, NEW p \in Places
    PROVE  [elements EXCEPT ![p] = e] \in [Places -> Elements \cup {Null}]
BY DEF TypeOK

\* Every step keeps the types.
LEMMA TypeStep ==
    ASSUME TypeOK, [Next]_vars
    PROVE  TypeOK'
<1>1. capacityBitmask \in Nat /\ head \in Places /\ tail \in Places
  BY DEF TypeOK
<1>2. Masked(head - 1) \in Places /\ Masked(tail + 1) \in Places
  BY <1>1, Moves DEF Places
<1>3. ASSUME NEW e \in Elements, AddFirst(e)
      PROVE  TypeOK'
  BY <1>1, <1>2, <1>3, AddsAt, AddedType, Zenon DEF AddFirst
<1>4. ASSUME NEW e \in Elements, AddLast(e)
      PROVE  TypeOK'
  BY <1>1, <1>2, <1>4, AddsAt, AddedType, Zenon DEF AddLast
<1>5. CASE PopFirst
  BY <1>5, Pops, RemovalType
<1>6. CASE PopLast
  BY <1>6, Pops, RemovalType
<1>7. ASSUME NEW n \in 1 .. Size, RemoveFromStart(n) \/ RemoveFromEnd(n)
      PROVE  TypeOK'
  BY <1>7, RemovesFromStart, RemovesFromEnd, RemovalType
<1>8. CASE UNCHANGED vars
  BY <1>8 DEF vars, TypeOK, Places
<1> QED
  BY <1>3, <1>4, <1>5, <1>6, <1>7, <1>8 DEF Next

\* The fields of the ring have their types, the mask is the one of its array,
\* and head and tail never leave it.
THEOREM TypeCorrect == Spec => []TypeOK
<1>1. Init => TypeOK
  BY TypeInit
<1>2. TypeOK /\ [Next]_vars => TypeOK'
  BY TypeStep
<1> QED
  BY <1>1, <1>2, PTL DEF Spec

(***************************************************************************)
(* The ring holds its elements.                                            *)
(***************************************************************************)

\* The place i is used, without the modulus.
InUse(i, first, last) ==
    IF first <= last THEN first <= i /\ i < last ELSE first <= i \/ i < last

\* The inductive invariant: HoldsItsElements in terms of InUse.
UsedPlacesFilled ==
    ~overflowed => \A i \in Places : InUse(i, head, tail) <=> elements[i] # Null

LEMMA UsedIsInUse ==
    TypeOK => (HoldsItsElements <=> UsedPlacesFilled)
<1> SUFFICES ASSUME TypeOK
             PROVE  HoldsItsElements <=> UsedPlacesFilled
  OBVIOUS
<1> DEFINE c == capacityBitmask + 1
<1>1. c \in Nat \ {0} /\ head \in 0 .. c - 1 /\ tail \in 0 .. c - 1 /\ Places = 0 .. c - 1
  BY DEF TypeOK, Places
<1>2. ASSUME NEW i \in Places
      PROVE  Used(i) <=> InUse(i, head, tail)
  <2> HIDE DEF c
  <2>1. (i - head) % c < (tail - head) % c
          <=> IF head <= tail THEN head <= i /\ i < tail ELSE head <= i \/ i < tail
    BY <1>1, Between, Zenon
  <2> QED
    BY <2>1, Zenon DEF Used, Size, Masked, InUse, c
<1> QED
  BY <1>2, Zenon DEF HoldsItsElements, UsedPlacesFilled

\* An add to a ring whose elements, with the one stored, are in their places.
LEMMA AddedHolds ==
    ASSUME TypeOK,
           NEW f \in [Places -> Elements \cup {Null}],
           NEW first \in Places, NEW last \in Places,
           Added(f, first, last),
           \A i \in Places : first = last \/ InUse(i, first, last) <=> f[i] # Null
    PROVE  UsedPlacesFilled'
<1>1. capacityBitmask \in Nat /\ Capacity = capacityBitmask + 1 /\ Capacity \in Nat \ {0}
  BY CapacityOfMask
<1>2. CASE first # last
  BY <1>2 DEF Added, UsedPlacesFilled, Places
<1>3. CASE first = last /\ 2 * Capacity <= MaxCapacity
  <2>1. /\ elements' = Doubled(f, first, Capacity)
        /\ head' = 0 /\ tail' = Capacity
        /\ capacityBitmask' = 2 * Capacity - 1
    BY <1>3 DEF Added
  <2>2. ASSUME NEW i \in 0 .. 2 * Capacity - 1
        PROVE  elements'[i] # Null <=> i < Capacity
    <3>1. elements'[i] = IF i < Capacity - first THEN f[first + i]
                         ELSE IF i < Capacity THEN f[i - (Capacity - first)]
                         ELSE Null
      BY <2>1 DEF Doubled
    <3>2. CASE i < Capacity - first
      <4>1. first + i \in Places /\ i < Capacity
        BY <1>1, <3>2 DEF Places
      <4> QED
        BY <1>3, <3>1, <3>2, <4>1
    <3>3. CASE ~(i < Capacity - first) /\ i < Capacity
      <4>1. i - (Capacity - first) \in Places
        BY <1>1, <3>3 DEF Places
      <4> QED
        BY <1>3, <3>1, <3>3, <4>1
    <3>4. CASE ~(i < Capacity - first) /\ ~(i < Capacity)
      BY <3>1, <3>4
    <3> QED
      BY <3>2, <3>3, <3>4
  <2>3. Places' = 0 .. 2 * Capacity - 1
    BY <2>1 DEF Places
  <2>4. \A i \in 0 .. 2 * Capacity - 1 : InUse(i, 0, Capacity) <=> i < Capacity
    BY <1>1 DEF InUse
  <2> QED
    BY <2>1, <2>2, <2>3, <2>4 DEF UsedPlacesFilled
<1>4. CASE first = last /\ ~(2 * Capacity <= MaxCapacity)
  BY <1>4 DEF Added, UsedPlacesFilled
<1> QED
  BY <1>2, <1>3, <1>4

LEMMA AddFirstHolds ==
    ASSUME TypeOK, UsedPlacesFilled, NEW e \in Elements, AddFirst(e)
    PROVE  UsedPlacesFilled'
<1> DEFINE first == IF head = 0 THEN capacityBitmask ELSE head - 1
           f == [elements EXCEPT ![first] = e]
<1>1. /\ capacityBitmask \in Nat
      /\ head \in 0 .. capacityBitmask /\ tail \in 0 .. capacityBitmask
      /\ elements \in [0 .. capacityBitmask -> Elements \cup {Null}]
  BY DEF TypeOK, Places
<1>2. first \in 0 .. capacityBitmask
  BY <1>1
<1>3. Added(f, first, tail)
  BY Moves, Zenon DEF AddFirst
<1>4. CASE overflowed
  BY <1>4, <1>3 DEF Added, UsedPlacesFilled
<1>5. CASE ~overflowed
  <2>1. f \in [Places -> Elements \cup {Null}]
    BY <1>1, <1>2 DEF Places
  <2>2. ASSUME NEW i \in Places
        PROVE  first = tail \/ InUse(i, first, tail) <=> f[i] # Null
    <3>1. f[i] # Null <=> i = first \/ elements[i] # Null
      BY <1>1, <1>2, RingAssumption DEF Places
    <3>2. elements[i] # Null <=> InUse(i, head, tail)
      BY <1>5 DEF UsedPlacesFilled
    <3>3. first = tail \/ InUse(i, first, tail) <=> i = first \/ InUse(i, head, tail)
      BY <1>1 DEF Places, InUse
    <3> QED
      BY <3>1, <3>2, <3>3
  <2>3. first \in Places /\ tail \in Places
    BY <1>1, <1>2 DEF Places
  <2> HIDE DEF f, first
  <2> QED
    BY <1>3, <2>1, <2>2, <2>3, AddedHolds, Zenon
<1> QED
  BY <1>4, <1>5

LEMMA AddLastHolds ==
    ASSUME TypeOK, UsedPlacesFilled, NEW e \in Elements, AddLast(e)
    PROVE  UsedPlacesFilled'
<1> DEFINE last == IF tail = capacityBitmask THEN 0 ELSE tail + 1
           f == [elements EXCEPT ![tail] = e]
<1>1. /\ capacityBitmask \in Nat
      /\ head \in 0 .. capacityBitmask /\ tail \in 0 .. capacityBitmask
      /\ elements \in [0 .. capacityBitmask -> Elements \cup {Null}]
  BY DEF TypeOK, Places
<1>2. last \in 0 .. capacityBitmask
  BY <1>1
<1>3. Added(f, head, last)
  BY Moves, Zenon DEF AddLast
<1>4. CASE overflowed
  BY <1>4, <1>3 DEF Added, UsedPlacesFilled
<1>5. CASE ~overflowed
  <2>1. f \in [Places -> Elements \cup {Null}]
    BY <1>1 DEF Places
  <2>2. ASSUME NEW i \in Places
        PROVE  head = last \/ InUse(i, head, last) <=> f[i] # Null
    <3>1. f[i] # Null <=> i = tail \/ elements[i] # Null
      BY <1>1, RingAssumption DEF Places
    <3>2. elements[i] # Null <=> InUse(i, head, tail)
      BY <1>5 DEF UsedPlacesFilled
    <3>3. head = last \/ InUse(i, head, last) <=> i = tail \/ InUse(i, head, tail)
      BY <1>1 DEF Places, InUse
    <3> QED
      BY <3>1, <3>2, <3>3
  <2>3. head \in Places /\ last \in Places
    BY <1>1, <1>2 DEF Places
  <2> HIDE DEF f, last
  <2> QED
    BY <1>3, <2>1, <2>2, <2>3, AddedHolds, Zenon
<1> QED
  BY <1>4, <1>5

LEMMA RemovalHolds ==
    ASSUME TypeOK, UsedPlacesFilled, NEW n \in 1 .. Size,
           RemovedFromStart(n) \/ RemovedFromEnd(n)
    PROVE  UsedPlacesFilled'
<1>1. /\ capacityBitmask \in Nat /\ Capacity = capacityBitmask + 1
      /\ head \in 0 .. capacityBitmask /\ tail \in 0 .. capacityBitmask
  BY CapacityOfMask DEF TypeOK, Places
<1>2. /\ n \in Nat \ {0}
      /\ n <= IF tail < head THEN tail - head + Capacity ELSE tail - head
  BY <1>1, SizeIs
<1>3. capacityBitmask' = capacityBitmask /\ overflowed' = overflowed /\ Places' = Places
  BY DEF RemovedFromStart, RemovedFromEnd, Places
<1>4. SUFFICES ASSUME ~overflowed, NEW i \in Places
               PROVE  InUse(i, head', tail') <=> elements'[i] # Null
  BY <1>3 DEF UsedPlacesFilled
<1>5. elements[i] # Null <=> InUse(i, head, tail)
  BY <1>4 DEF UsedPlacesFilled
<1>6. CASE RemovedFromStart(n)
  <2> DEFINE removed == (head <= i /\ i < head + n) \/ i < head + n - Capacity
  <2>1. elements'[i] # Null <=> elements[i] # Null /\ ~removed
    BY <1>4, <1>6 DEF RemovedFromStart
  <2>2. InUse(i, head', tail') <=> InUse(i, head, tail) /\ ~removed
    BY <1>1, <1>2, <1>4, <1>6 DEF RemovedFromStart, InUse, Places
  <2> QED
    BY <1>5, <2>1, <2>2
<1>7. CASE RemovedFromEnd(n)
  <2> DEFINE removed == (tail - n <= i /\ i < tail) \/ tail - n + Capacity <= i
  <2>1. elements'[i] # Null <=> elements[i] # Null /\ ~removed
    BY <1>4, <1>7 DEF RemovedFromEnd
  <2>2. InUse(i, head', tail') <=> InUse(i, head, tail) /\ ~removed
    BY <1>1, <1>2, <1>4, <1>7 DEF RemovedFromEnd, InUse, Places
  <2> QED
    BY <1>5, <2>1, <2>2
<1> QED
  BY <1>6, <1>7

\* Exactly the places between head and tail hold an element, until a call
\* fails for want of a longer array: nothing is lost or kept alive by a
\* removal or a doubling that wraps around the end of the array.
THEOREM HoldsExactly == Spec => []HoldsItsElements
<1>1. Init => UsedPlacesFilled
  <2> SUFFICES ASSUME Init PROVE UsedPlacesFilled
    OBVIOUS
  <2>1. capacityBitmask \in Nat /\ head = 0 /\ tail = 0
    BY TypeInit DEF Init, TypeOK
  <2>2. \A i \in Places : elements[i] = Null /\ ~InUse(i, head, tail)
    BY <2>1 DEF Init, Places, InUse
  <2> QED
    BY <2>2 DEF UsedPlacesFilled
<1>2. TypeOK /\ UsedPlacesFilled /\ [Next]_vars => UsedPlacesFilled'
  <2> SUFFICES ASSUME TypeOK, UsedPlacesFilled, [Next]_vars
               PROVE  UsedPlacesFilled'
    OBVIOUS
  <2>1. ASSUME NEW e \in Elements, AddFirst(e) \/ AddLast(e)
        PROVE  UsedPlacesFilled'
    BY <2>1, AddFirstHolds, AddLastHolds
  <2>2. CASE PopFirst \/ PopLast
    BY <2>2, Pops, RemovalHolds
  <2>3. ASSUME NEW n \in 1 .. Size, RemoveFromStart(n) \/ RemoveFromEnd(n)
        PROVE  UsedPlacesFilled'
    BY <2>3, RemovesFromStart, RemovesFromEnd, RemovalHolds
  <2>4. CASE UNCHANGED vars
    BY <2>4 DEF vars, UsedPlacesFilled, Places
  <2> QED
    BY <2>1, <2>2, <2>3, <2>4 DEF Next
<1> QED
  BY <1>1, <1>2, TypeCorrect, UsedIsInUse, PTL DEF Spec

(***************************************************************************)
(* The ring implements the deque.                                          *)
(***************************************************************************)

\* The place of the element i of a ring of c places, counted from 0.
PlaceOf(i, c, first) == IF first + i < c THEN first + i ELSE first + i - c

\* The n elements of the ring f, in their order.
LaidOut(f, c, first, n) == [i \in 1 .. n |-> f[PlaceOf(i - 1, c, first)]]

\* They are a sequence.
LEMMA LaidOutIsSeq ==
    ASSUME NEW S, NEW c \in Nat \ {0}, NEW f \in [0 .. c - 1 -> S],
           NEW first \in 0 .. c - 1, NEW n \in 0 .. c
    PROVE  LaidOut(f, c, first, n) \in Seq(S) /\ Len(LaidOut(f, c, first, n)) = n
<1>1. \A i \in 1 .. n : PlaceOf(i - 1, c, first) \in 0 .. c - 1
  BY DEF PlaceOf
<1>2. LaidOut(f, c, first, n) \in [1 .. n -> S]
  BY <1>1 DEF LaidOut
<1> QED
  BY <1>2

LEMMA ItemsLaidOut ==
    TypeOK => Items = LaidOut(elements, Capacity, head, Size)
<1> SUFFICES ASSUME TypeOK
             PROVE  Items = LaidOut(elements, Capacity, head, Size)
  OBVIOUS
<1>1. capacityBitmask \in Nat /\ Capacity = capacityBitmask + 1 /\ Capacity \in Nat \ {0}
  BY CapacityOfMask
<1>2. head \in 0 .. capacityBitmask
  BY DEF TypeOK, Places
<1>3. ASSUME NEW i \in 1 .. Size
      PROVE  Masked(head + (i - 1)) = PlaceOf(i - 1, Capacity, head)
  <2> DEFINE x == head + (i - 1)
  <2>1. x \in -Capacity .. 2 * Capacity - 1 /\ ~(x < 0)
    BY <1>1, <1>2, SizeIs
  <2> HIDE DEF x
  <2>2. Masked(x) = IF x < 0 THEN x + Capacity
                    ELSE IF x < Capacity THEN x ELSE x - Capacity
    BY <2>1, MaskedIs, Zenon
  <2>3. Masked(x) = PlaceOf(i - 1, Capacity, head)
    BY <1>1, <1>2, <2>1, <2>2 DEF PlaceOf, x
  <2> QED
    BY <2>3 DEF x
<1> QED
  BY <1>3, Zenon DEF Items, ElementAt, LaidOut

\* The arrays of c places, and the capacities.
Arrays(c) == [0 .. c - 1 -> Elements \cup {Null}]
Positive == Nat \ {0}

\* The place before the first element.
PlaceBefore(c, first) == IF first = 0 THEN c - 1 ELSE first - 1

\* The array f with e stored at p.
Stored(f, p, e) == [f EXCEPT ![p] = e]

\* Storing in front of the first element.
LEMMA StoredBefore ==
    ASSUME NEW c \in Positive, NEW f \in Arrays(c),
           NEW e \in Elements, NEW first \in 0 .. c - 1, NEW n \in 1 .. c
    PROVE  LaidOut(Stored(f, PlaceBefore(c, first), e), c, PlaceBefore(c, first), n)
             = <<e>> \o LaidOut(f, c, first, n - 1)
<1> DEFINE S == Elements \cup {Null}
           before == PlaceBefore(c, first)
           s == LaidOut(f, c, first, n - 1)
           a == LaidOut(Stored(f, before, e), c, before, n)
<1>0. c \in Nat \ {0} /\ f \in [0 .. c - 1 -> S]
  BY DEF Positive, Arrays
<1>1. before \in 0 .. c - 1 /\ before = IF first = 0 THEN c - 1 ELSE first - 1
  BY <1>0 DEF PlaceBefore
<1> HIDE DEF before
<1>2. s \in Seq(S) /\ Len(s) = n - 1
  <2>1. n - 1 \in 0 .. c
    BY <1>0
  <2>2. s \in Seq(S)
    BY <1>0, <2>1, LaidOutIsSeq, Zenon
  <2>3. Len(s) = n - 1
    BY <1>0, <2>1 DEF LaidOut
  <2> QED
    BY <1>0, <2>2, <2>3
<1>3. a \in Seq(S) /\ Len(a) = n
  <2>1. Stored(f, before, e) \in [0 .. c - 1 -> S] /\ n \in 0 .. c
    BY <1>0, <1>1 DEF Stored
  <2>2. a \in Seq(S)
    BY <1>0, <1>1, <2>1, LaidOutIsSeq, Zenon
  <2>3. Len(a) = n
    BY <1>0, <2>1 DEF LaidOut
  <2> QED
    BY <1>0, <2>2, <2>3
<1>4. ASSUME NEW i \in 1 .. n
      PROVE  a[i] = IF i = 1 THEN e ELSE s[i - 1]
  <2>1. a[i] = [f EXCEPT ![before] = e][PlaceOf(i - 1, c, before)]
    BY <1>0 DEF LaidOut, Stored
  <2>2. CASE i = 1
    <3>1. PlaceOf(i - 1, c, before) = before
      BY <1>0, <1>1, <2>2 DEF PlaceOf
    <3> QED
      BY <1>0, <1>1, <2>1, <2>2, <3>1
  <2>3. CASE i # 1
    <3>1. /\ PlaceOf(i - 1, c, before) = PlaceOf(i - 2, c, first)
          /\ PlaceOf(i - 1, c, before) # before
          /\ PlaceOf(i - 1, c, before) \in 0 .. c - 1
      BY <1>0, <1>1, <2>3 DEF PlaceOf
    <3>2. s[i - 1] = f[PlaceOf(i - 2, c, first)]
      BY <1>0, <2>3 DEF LaidOut
    <3> QED
      BY <1>0, <2>1, <2>3, <3>1, <3>2
  <2> QED
    BY <1>0, <2>2, <2>3
<1> HIDE DEF s, a
<1>5. a = <<e>> \o s
  BY <1>0, <1>2, <1>3, <1>4
<1> QED
  BY <1>0, <1>5 DEF a, s, before

\* Storing behind the last element.
LEMMA StoredBehind ==
    ASSUME NEW c \in Positive, NEW f \in Arrays(c),
           NEW e \in Elements, NEW first \in 0 .. c - 1, NEW n \in 1 .. c
    PROVE  LaidOut(Stored(f, PlaceOf(n - 1, c, first), e), c, first, n)
             = Append(LaidOut(f, c, first, n - 1), e)
<1> DEFINE S == Elements \cup {Null}
           behind == PlaceOf(n - 1, c, first)
           s == LaidOut(f, c, first, n - 1)
           b == LaidOut(Stored(f, behind, e), c, first, n)
<1>0. c \in Nat \ {0} /\ f \in [0 .. c - 1 -> S]
  BY DEF Positive, Arrays
<1>1. behind \in 0 .. c - 1
  BY <1>0 DEF PlaceOf
<1>2. s \in Seq(S) /\ Len(s) = n - 1
  <2>1. n - 1 \in 0 .. c
    BY <1>0
  <2>2. s \in Seq(S)
    BY <1>0, <2>1, LaidOutIsSeq, Zenon
  <2>3. Len(s) = n - 1
    BY <1>0, <2>1 DEF LaidOut
  <2> QED
    BY <1>0, <2>2, <2>3
<1>3. b \in Seq(S) /\ Len(b) = n
  <2> HIDE DEF behind
  <2>1. Stored(f, behind, e) \in [0 .. c - 1 -> S] /\ n \in 0 .. c
    BY <1>0, <1>1 DEF Stored
  <2>2. b \in Seq(S)
    BY <1>0, <1>1, <2>1, LaidOutIsSeq, Zenon
  <2>3. Len(b) = n
    BY <1>0, <2>1 DEF LaidOut
  <2> QED
    BY <1>0, <2>2, <2>3
<1>4. ASSUME NEW i \in 1 .. n
      PROVE  b[i] = IF i = n THEN e ELSE s[i]
  <2>1. b[i] = [f EXCEPT ![behind] = e][PlaceOf(i - 1, c, first)]
    BY <1>0 DEF LaidOut, Stored
  <2>2. CASE i = n
    BY <1>0, <1>1, <2>1, <2>2
  <2>3. CASE i # n
    <3>1. PlaceOf(i - 1, c, first) # behind /\ PlaceOf(i - 1, c, first) \in 0 .. c - 1
      BY <1>0, <2>3 DEF PlaceOf
    <3>2. s[i] = f[PlaceOf(i - 1, c, first)]
      BY <1>0, <2>3 DEF LaidOut
    <3> QED
      BY <1>0, <2>1, <2>3, <3>1, <3>2
  <2> QED
    BY <1>0, <2>2, <2>3
<1> HIDE DEF s, b
<1>5. b = Append(s, e)
  BY <1>0, <1>2, <1>3, <1>4
<1> QED
  BY <1>0, <1>5 DEF b, s

\* A sequence without its first n elements, and without its last n.
Dropped(s, n) == SubSeq(s, n + 1, Len(s))
Kept(s, n) == SubSeq(s, 1, Len(s) - n)

\* Taking n of the m elements off the start.
LEMMA TakenFromStart ==
    ASSUME NEW c \in Positive, NEW f \in Arrays(c),
           NEW g \in Arrays(c),
           NEW first \in 0 .. c - 1, NEW m \in 0 .. c - 1, NEW n \in 1 .. m,
           \A i \in n .. m - 1 : g[PlaceOf(i, c, first)] = f[PlaceOf(i, c, first)]
    PROVE  LaidOut(g, c, PlaceOf(n, c, first), m - n)
             = Dropped(LaidOut(f, c, first, m), n)
<1> DEFINE S == Elements \cup {Null}
           s == LaidOut(f, c, first, m)
           then == PlaceOf(n, c, first)
           a == LaidOut(g, c, then, m - n)
<1>0. c \in Nat \ {0} /\ f \in [0 .. c - 1 -> S] /\ g \in [0 .. c - 1 -> S]
  BY DEF Positive, Arrays
<1>1. then \in 0 .. c - 1 /\ m - n \in 0 .. c /\ m \in 0 .. c
  BY <1>0 DEF PlaceOf
<1>2. s \in Seq(S) /\ Len(s) = m
  <2>1. s \in Seq(S)
    BY <1>0, <1>1, LaidOutIsSeq, Zenon
  <2>2. Len(s) = m
    BY <1>0, <1>1 DEF LaidOut
  <2> QED
    BY <1>0, <2>1, <2>2
<1>3. a \in Seq(S) /\ Len(a) = m - n
  <2> HIDE DEF then
  <2>1. a \in Seq(S)
    BY <1>0, <1>1, LaidOutIsSeq, Zenon
  <2>2. Len(a) = m - n
    BY <1>0, <1>1 DEF LaidOut
  <2> QED
    BY <1>0, <2>1, <2>2
<1>4. ASSUME NEW j \in 1 .. m - n
      PROVE  a[j] = s[j + n]
  <2>1. PlaceOf(j - 1, c, then) = PlaceOf(j - 1 + n, c, first)
    BY <1>0 DEF PlaceOf
  <2>2. a[j] = g[PlaceOf(j - 1 + n, c, first)]
    BY <1>0, <2>1 DEF LaidOut
  <2>3. j - 1 + n \in n .. m - 1 /\ j + n \in 1 .. m /\ j + n - 1 = j - 1 + n
    BY <1>0
  <2>4. s[j + n] = f[PlaceOf(j - 1 + n, c, first)]
    BY <1>0, <2>3 DEF LaidOut
  <2> QED
    BY <1>0, <2>2, <2>3, <2>4
<1> HIDE DEF a, s
<1>5. a = SubSeq(s, n + 1, m)
  BY <1>0, <1>2, <1>3, <1>4
<1> QED
  BY <1>0, <1>2, <1>5 DEF a, s, Dropped

\* Taking n of the m elements off the end.
LEMMA TakenFromEnd ==
    ASSUME NEW c \in Positive, NEW f \in Arrays(c),
           NEW g \in Arrays(c),
           NEW first \in 0 .. c - 1, NEW m \in 0 .. c - 1, NEW n \in 1 .. m,
           \A i \in 0 .. m - n - 1 : g[PlaceOf(i, c, first)] = f[PlaceOf(i, c, first)]
    PROVE  LaidOut(g, c, first, m - n) = Kept(LaidOut(f, c, first, m), n)
<1> DEFINE S == Elements \cup {Null}
           s == LaidOut(f, c, first, m)
           b == LaidOut(g, c, first, m - n)
<1>0. c \in Nat \ {0} /\ f \in [0 .. c - 1 -> S] /\ g \in [0 .. c - 1 -> S]
  BY DEF Positive, Arrays
<1>1. m - n \in 0 .. c /\ m \in 0 .. c
  BY <1>0
<1>2. s \in Seq(S) /\ Len(s) = m
  <2>1. s \in Seq(S)
    BY <1>0, <1>1, LaidOutIsSeq, Zenon
  <2>2. Len(s) = m
    BY <1>0, <1>1 DEF LaidOut
  <2> QED
    BY <1>0, <2>1, <2>2
<1>3. b \in Seq(S) /\ Len(b) = m - n
  <2>1. b \in Seq(S)
    BY <1>0, <1>1, LaidOutIsSeq, Zenon
  <2>2. Len(b) = m - n
    BY <1>0, <1>1 DEF LaidOut
  <2> QED
    BY <1>0, <2>1, <2>2
<1>4. ASSUME NEW j \in 1 .. m - n
      PROVE  b[j] = s[j]
  <2>1. j - 1 \in 0 .. m - n - 1 /\ j \in 1 .. m
    BY <1>0
  <2> QED
    BY <1>0, <2>1 DEF LaidOut
<1> HIDE DEF b, s
<1>5. b = SubSeq(s, 1, m - n)
  BY <1>0, <1>2, <1>3, <1>4
<1> QED
  BY <1>0, <1>2, <1>5 DEF b, s, Kept

\* The state after a step.
LEMMA NextState ==
    ASSUME TypeOK'
    PROVE  /\ capacityBitmask' \in Nat /\ Capacity' = capacityBitmask' + 1
           /\ Size' = IF tail' < head' THEN tail' - head' + Capacity' ELSE tail' - head'
           /\ Items' = LaidOut(elements', Capacity', head', Size')
<1>1. (capacityBitmask \in Nat /\ Capacity = capacityBitmask + 1 /\ Capacity \in Nat \ {0})'
  BY CapacityOfMask, PTL
<1>2. (/\ Size = IF tail < head THEN tail - head + Capacity ELSE tail - head
       /\ Size \in 0 .. capacityBitmask)'
  BY SizeIs, PTL
<1>3. (Items = LaidOut(elements, Capacity, head, Size))'
  BY ItemsLaidOut, PTL
<1> QED
  BY <1>1, <1>2, <1>3

\* What the ring holds after an add: the n elements from first up to last in
\* the array stored into, unless it is full and cannot be doubled.
LEMMA AddedItems ==
    ASSUME TypeOK, TypeOK',
           NEW f, NEW first \in Places, NEW last \in Places,
           Added(f, first, last),
           NEW n \in 1 .. Capacity,
           n = IF last <= first THEN last - first + Capacity ELSE last - first
    PROVE  IF first = last /\ ~(2 * Capacity <= MaxCapacity)
             THEN Items' = <<>>
             ELSE Items' = LaidOut(f, Capacity, first, n)
<1>1. capacityBitmask \in Nat /\ Capacity = capacityBitmask + 1 /\ Capacity \in Nat \ {0}
  BY CapacityOfMask
<1>2. first \in 0 .. Capacity - 1 /\ last \in 0 .. Capacity - 1
  BY <1>1 DEF Places
<1>3. /\ Capacity' = capacityBitmask' + 1
      /\ Size' = IF tail' < head' THEN tail' - head' + Capacity' ELSE tail' - head'
      /\ Items' = LaidOut(elements', Capacity', head', Size')
  BY NextState
<1>4. CASE first # last
  <2>1. elements' = f /\ head' = first /\ tail' = last /\ Capacity' = Capacity
    BY <1>1, <1>3, <1>4 DEF Added
  <2>2. Size' = n
    BY <1>1, <1>2, <1>3, <1>4, <2>1
  <2> QED
    BY <1>3, <1>4, <2>1, <2>2
<1>5. CASE first = last /\ 2 * Capacity <= MaxCapacity
  <2>1. /\ elements' = Doubled(f, first, Capacity)
        /\ head' = 0 /\ tail' = Capacity /\ Capacity' = 2 * Capacity
    BY <1>1, <1>3, <1>5 DEF Added
  <2>2. Size' = Capacity /\ n = Capacity
    BY <1>1, <1>2, <1>3, <1>5, <2>1
  <2>3. ASSUME NEW i \in 1 .. Capacity
        PROVE  elements'[PlaceOf(i - 1, 2 * Capacity, 0)] = f[PlaceOf(i - 1, Capacity, first)]
    <3>1. PlaceOf(i - 1, 2 * Capacity, 0) = i - 1 /\ i - 1 \in 0 .. 2 * Capacity - 1
      BY <1>1 DEF PlaceOf
    <3>2. elements'[i - 1] = IF i - 1 < Capacity - first THEN f[first + (i - 1)]
                             ELSE IF i - 1 < Capacity THEN f[i - 1 - (Capacity - first)]
                             ELSE Null
      BY <2>1, <3>1 DEF Doubled
    <3>3. CASE i - 1 < Capacity - first
      <4>1. PlaceOf(i - 1, Capacity, first) = first + (i - 1)
        BY <1>1, <1>2, <3>3 DEF PlaceOf
      <4> QED
        BY <3>1, <3>2, <3>3, <4>1
    <3>4. CASE ~(i - 1 < Capacity - first)
      <4>1. PlaceOf(i - 1, Capacity, first) = i - 1 - (Capacity - first) /\ i - 1 < Capacity
        BY <1>1, <1>2, <3>4 DEF PlaceOf
      <4> QED
        BY <3>1, <3>2, <3>4, <4>1
    <3> QED
      BY <3>3, <3>4
  <2>4. LaidOut(elements', 2 * Capacity, 0, Capacity) = LaidOut(f, Capacity, first, Capacity)
    BY <2>3, Zenon DEF LaidOut
  <2> QED
    BY <1>3, <1>5, <2>1, <2>2, <2>4
<1>6. CASE first = last /\ ~(2 * Capacity <= MaxCapacity)
  <2>1. head' = tail' /\ head' \in Int /\ tail' \in Int
    BY <1>2, <1>6 DEF Added
  <2>2. Size' = 0
    <3>1. PICK x \in Int : head' = x /\ tail' = x
      BY <2>1, Zenon
    <3>2. Size' = IF x < x THEN x - x + Capacity' ELSE x - x
      BY <1>3, <3>1, Zenon
    <3> QED
      BY <3>2
  <2>3. LaidOut(elements', Capacity', head', 0) = <<>>
    BY DEF LaidOut
  <2> QED
    BY <1>3, <1>6, <2>2, <2>3
<1> QED
  BY <1>4, <1>5, <1>6

\* The sequence the ring holds.
LEMMA ItemsType ==
    ASSUME TypeOK
    PROVE  /\ Items \in Seq(Elements \cup {Null})
           /\ Len(Items) = Size
           /\ Items = LaidOut(elements, Capacity, head, Size)
<1>1. capacityBitmask \in Nat /\ Capacity = capacityBitmask + 1 /\ Capacity \in Nat \ {0}
  BY CapacityOfMask
<1>2. head \in 0 .. Capacity - 1 /\ Size \in 0 .. Capacity
  BY <1>1, SizeIs DEF TypeOK, Places
<1>3. elements \in [0 .. Capacity - 1 -> Elements \cup {Null}]
  BY <1>1 DEF TypeOK, Places
<1>4. Items = LaidOut(elements, Capacity, head, Size)
  BY ItemsLaidOut
<1>5. Items \in Seq(Elements \cup {Null})
  BY <1>1, <1>2, <1>3, <1>4, LaidOutIsSeq, Zenon
<1>6. Len(Items) = Size
  BY <1>1, <1>2, <1>4 DEF LaidOut
<1> QED
  BY <1>4, <1>5, <1>6

LEMMA AddFirstImplements ==
    ASSUME TypeOK, TypeOK', NEW e \in Elements, AddFirst(e)
    PROVE  Abstract!AddFirst(e) \/ Abstract!Overflow
<1> DEFINE S == Elements \cup {Null}
           first == PlaceBefore(Capacity, head)
           f == Stored(elements, first, e)
           n == Size + 1
<1>1. capacityBitmask \in Nat /\ Capacity = capacityBitmask + 1 /\ Capacity \in Nat \ {0}
  BY CapacityOfMask
<1>2. /\ head \in 0 .. Capacity - 1 /\ tail \in 0 .. Capacity - 1
      /\ elements \in [0 .. Capacity - 1 -> S] /\ Places = 0 .. Capacity - 1
  BY <1>1 DEF TypeOK, Places
<1>3. /\ first \in 0 .. Capacity - 1
      /\ first = IF head = 0 THEN Capacity - 1 ELSE head - 1
  BY <1>1, <1>2 DEF PlaceBefore
<1>4. Added(f, first, tail)
  <2>1. Masked(head - 1) = first
    BY <1>1, <1>2, Moves DEF PlaceBefore
  <2> QED
    BY <2>1, Zenon DEF AddFirst, Stored
<1>5. /\ Size \in 0 .. Capacity - 1 /\ n \in 1 .. Capacity
      /\ Size = n - 1
      /\ n = IF tail <= first THEN tail - first + Capacity ELSE tail - first
  <2> HIDE DEF first
  <2> QED
    BY <1>1, <1>2, <1>3, SizeIs
<1>6. LaidOut(f, Capacity, first, n) = <<e>> \o Items
  <2> HIDE DEF n
  <2>0. Capacity \in Positive /\ elements \in Arrays(Capacity)
    BY <1>1, <1>2 DEF Positive, Arrays
  <2>1. LaidOut(Stored(elements, PlaceBefore(Capacity, head), e), Capacity,
                PlaceBefore(Capacity, head), n)
          = <<e>> \o LaidOut(elements, Capacity, head, n - 1)
    BY <1>2, <1>5, <2>0, StoredBefore, Zenon
  <2> QED
    BY <1>5, <2>1, ItemsType, Zenon
<1> HIDE DEF f, n, first
<1>7. IF first = tail /\ ~(2 * Capacity <= MaxCapacity)
        THEN Items' = <<>>
        ELSE Items' = LaidOut(f, Capacity, first, n)
  <2>1. first \in Places
    BY <1>2, <1>3
  <2>2. tail \in Places
    BY <1>2, <1>3
  <2>3. n \in 1 .. Capacity
    BY <1>5
  <2>4. n = IF tail <= first THEN tail - first + Capacity ELSE tail - first
    BY <1>5
  <2> QED
    BY <1>4, <2>1, <2>2, <2>3, <2>4, AddedItems, Zenon
<1>8. CASE first = tail /\ ~(2 * Capacity <= MaxCapacity)
  <2>1. Len(Items) + 1 = Capacity
    BY <1>1, <1>2, <1>3, <1>5, <1>8, ItemsType DEF n
  <2>2. 2 * (Len(Items) + 1) > MaxCapacity
    BY <1>1, <1>8, <2>1, RingAssumption
  <2> QED
    BY <1>7, <1>8, <2>2 DEF Abstract!Overflow
<1>9. CASE ~(first = tail /\ ~(2 * Capacity <= MaxCapacity))
  BY <1>6, <1>7, <1>9 DEF Abstract!AddFirst
<1> QED
  BY <1>8, <1>9

LEMMA AddLastImplements ==
    ASSUME TypeOK, TypeOK', NEW e \in Elements, AddLast(e)
    PROVE  Abstract!AddLast(e) \/ Abstract!Overflow
<1> DEFINE S == Elements \cup {Null}
           last == IF tail = capacityBitmask THEN 0 ELSE tail + 1
           f == Stored(elements, tail, e)
           n == Size + 1
<1>1. capacityBitmask \in Nat /\ Capacity = capacityBitmask + 1 /\ Capacity \in Nat \ {0}
  BY CapacityOfMask
<1>2. /\ head \in 0 .. Capacity - 1 /\ tail \in 0 .. Capacity - 1
      /\ elements \in [0 .. Capacity - 1 -> S] /\ Places = 0 .. Capacity - 1
  BY <1>1 DEF TypeOK, Places
<1>3. last \in 0 .. Capacity - 1
  BY <1>1, <1>2
<1>4. Added(f, head, last)
  BY Moves, Zenon DEF AddLast, Stored
<1>5. /\ Size \in 0 .. Capacity - 1 /\ n \in 1 .. Capacity
      /\ Size = n - 1
      /\ n = IF last <= head THEN last - head + Capacity ELSE last - head
      /\ tail = PlaceOf(n - 1, Capacity, head)
  BY <1>1, <1>2, <1>3, SizeIs DEF PlaceOf
<1>6. LaidOut(f, Capacity, head, n) = Append(Items, e)
  <2> HIDE DEF n
  <2>0. Capacity \in Positive /\ elements \in Arrays(Capacity)
    BY <1>1, <1>2 DEF Positive, Arrays
  <2>1. LaidOut(Stored(elements, PlaceOf(n - 1, Capacity, head), e), Capacity, head, n)
          = Append(LaidOut(elements, Capacity, head, n - 1), e)
    <3>1. head \in 0 .. Capacity - 1
      BY <1>2
    <3>2. n \in 1 .. Capacity
      BY <1>5
    <3> QED
      BY <2>0, <3>1, <3>2, StoredBehind, Zenon
  <2> QED
    BY <1>5, <2>1, ItemsType, Zenon
<1> HIDE DEF f, n, last
<1>7. IF head = last /\ ~(2 * Capacity <= MaxCapacity)
        THEN Items' = <<>>
        ELSE Items' = LaidOut(f, Capacity, head, n)
  <2>1. head \in Places
    BY <1>2, <1>3
  <2>2. last \in Places
    BY <1>2, <1>3
  <2>3. n \in 1 .. Capacity
    BY <1>5
  <2>4. n = IF last <= head THEN last - head + Capacity ELSE last - head
    BY <1>5
  <2> QED
    BY <1>4, <2>1, <2>2, <2>3, <2>4, AddedItems, Zenon
<1>8. CASE head = last /\ ~(2 * Capacity <= MaxCapacity)
  <2>1. Len(Items) + 1 = Capacity
    BY <1>1, <1>2, <1>3, <1>5, <1>8, ItemsType DEF n
  <2>2. 2 * (Len(Items) + 1) > MaxCapacity
    BY <1>1, <1>8, <2>1, RingAssumption
  <2> QED
    BY <1>7, <1>8, <2>2 DEF Abstract!Overflow
<1>9. CASE ~(head = last /\ ~(2 * Capacity <= MaxCapacity))
  BY <1>6, <1>7, <1>9 DEF Abstract!AddLast
<1> QED
  BY <1>8, <1>9

\* A removal takes as many items off the sequence.
LEMMA RemovalImplements ==
    ASSUME TypeOK, TypeOK', NEW n \in 1 .. Size
    PROVE  /\ RemovedFromStart(n) => Abstract!RemoveFromStart(n)
           /\ RemovedFromEnd(n) => Abstract!RemoveFromEnd(n)
<1> DEFINE S == Elements \cup {Null}
           m == Size
<1>1. capacityBitmask \in Nat /\ Capacity = capacityBitmask + 1 /\ Capacity \in Nat \ {0}
  BY CapacityOfMask
<1>2. /\ head \in 0 .. Capacity - 1 /\ tail \in 0 .. Capacity - 1
      /\ elements \in [0 .. Capacity - 1 -> S]
  BY <1>1 DEF TypeOK, Places
<1>3. /\ m \in 0 .. Capacity - 1 /\ n \in 1 .. m
      /\ m = IF tail < head THEN tail - head + Capacity ELSE tail - head
  BY <1>1, <1>2, SizeIs
<1>4. /\ Capacity' = capacityBitmask' + 1
      /\ Size' = IF tail' < head' THEN tail' - head' + Capacity' ELSE tail' - head'
      /\ Items' = LaidOut(elements', Capacity', head', Size')
  BY NextState
<1>5. Len(Items) = m /\ Items = LaidOut(elements, Capacity, head, m)
  BY ItemsType
<1>6. ASSUME RemovedFromStart(n)
      PROVE  Abstract!RemoveFromStart(n)
  <2>1. /\ Capacity' = Capacity /\ tail' = tail
        /\ elements' \in [0 .. Capacity - 1 -> S]
        /\ head' = IF head + n < Capacity THEN head + n ELSE head + n - Capacity
    BY <1>1, <1>4, <1>6 DEF RemovedFromStart, TypeOK, Places
  <2>2. head' = PlaceOf(n, Capacity, head) /\ Size' = m - n
    BY <1>1, <1>2, <1>3, <1>4, <2>1 DEF PlaceOf
  <2>3. ASSUME NEW i \in n .. m - 1
        PROVE  elements'[PlaceOf(i, Capacity, head)] = elements[PlaceOf(i, Capacity, head)]
    <3> DEFINE p == PlaceOf(i, Capacity, head)
    <3>1. p \in Places /\ ~((head <= p /\ p < head + n) \/ p < head + n - Capacity)
      BY <1>1, <1>2, <1>3 DEF PlaceOf, Places
    <3> HIDE DEF p
    <3>2. elements'[p] = elements[p]
      BY <1>6, <3>1 DEF RemovedFromStart
    <3> QED
      BY <3>2 DEF p
  <2> HIDE DEF m
  <2>4. LaidOut(elements', Capacity, PlaceOf(n, Capacity, head), m - n)
          = Dropped(LaidOut(elements, Capacity, head, m), n)
    <3>1. Capacity \in Positive
      BY <1>1 DEF Positive
    <3>2. elements \in Arrays(Capacity)
      BY <1>2 DEF Arrays
    <3>3. elements' \in Arrays(Capacity)
      BY <2>1 DEF Arrays
    <3>4. head \in 0 .. Capacity - 1
      BY <1>2
    <3>5. m \in 0 .. Capacity - 1
      BY <1>3
    <3>6. n \in 1 .. m
      BY <1>3
    <3>7. \A i \in n .. m - 1 :
            elements'[PlaceOf(i, Capacity, head)] = elements[PlaceOf(i, Capacity, head)]
      BY <2>3
    <3> QED
      BY <3>1, <3>2, <3>3, <3>4, <3>5, <3>6, <3>7, TakenFromStart, Zenon
  <2>5. Items' = Dropped(Items, n)
    BY <1>4, <1>5, <2>1, <2>2, <2>4, Zenon
  <2>6. n <= Len(Items)
    BY <1>3, <1>5
  <2> QED
    BY <1>5, <2>5, <2>6 DEF Abstract!RemoveFromStart, Dropped
<1>7. ASSUME RemovedFromEnd(n)
      PROVE  Abstract!RemoveFromEnd(n)
  <2>1. /\ Capacity' = Capacity /\ head' = head
        /\ elements' \in [0 .. Capacity - 1 -> S]
        /\ tail' = IF n <= tail THEN tail - n ELSE tail - n + Capacity
    BY <1>1, <1>4, <1>7 DEF RemovedFromEnd, TypeOK, Places
  <2>2. Size' = m - n
    BY <1>1, <1>2, <1>3, <1>4, <2>1
  <2>3. ASSUME NEW i \in 0 .. m - n - 1
        PROVE  elements'[PlaceOf(i, Capacity, head)] = elements[PlaceOf(i, Capacity, head)]
    <3> DEFINE p == PlaceOf(i, Capacity, head)
    <3>1. p \in Places /\ ~((tail - n <= p /\ p < tail) \/ tail - n + Capacity <= p)
      BY <1>1, <1>2, <1>3 DEF PlaceOf, Places
    <3> HIDE DEF p
    <3>2. elements'[p] = elements[p]
      BY <1>7, <3>1 DEF RemovedFromEnd
    <3> QED
      BY <3>2 DEF p
  <2> HIDE DEF m
  <2>4. LaidOut(elements', Capacity, head, m - n)
          = Kept(LaidOut(elements, Capacity, head, m), n)
    <3>1. Capacity \in Positive
      BY <1>1 DEF Positive
    <3>2. elements \in Arrays(Capacity)
      BY <1>2 DEF Arrays
    <3>3. elements' \in Arrays(Capacity)
      BY <2>1 DEF Arrays
    <3>4. head \in 0 .. Capacity - 1
      BY <1>2
    <3>5. m \in 0 .. Capacity - 1
      BY <1>3
    <3>6. n \in 1 .. m
      BY <1>3
    <3>7. \A i \in 0 .. m - n - 1 :
            elements'[PlaceOf(i, Capacity, head)] = elements[PlaceOf(i, Capacity, head)]
      BY <2>3
    <3> QED
      BY <3>1, <3>2, <3>3, <3>4, <3>5, <3>6, <3>7, TakenFromEnd, Zenon
  <2>5. Items' = Kept(Items, n)
    BY <1>4, <1>5, <2>1, <2>2, <2>4, Zenon
  <2>6. n <= Len(Items)
    BY <1>3, <1>5
  <2> QED
    BY <1>5, <2>5, <2>6 DEF Abstract!RemoveFromEnd, Kept
<1> QED
  BY <1>6, <1>7

\* The ring implements the deque: each call does to the sequence of get(0),
\* get(1), ... what the deque does, wherever head stands and through every
\* doubling.
THEOREM RingIsDeque == Spec => ImplementsDeque
<1>1. Init => Abstract!Init
  <2> SUFFICES ASSUME Init PROVE Abstract!Init
    OBVIOUS
  <2>1. TypeOK /\ head = 0 /\ tail = 0
    BY TypeInit DEF Init
  <2>2. Size = 0
    BY <2>1, CapacityOfMask, SizeIs
  <2>3. Items = <<>>
    BY <2>2 DEF Items
  <2> QED
    BY <2>3 DEF Abstract!Init
<1>2. TypeOK /\ TypeOK' /\ [Next]_vars => [Abstract!Next]_Items
  <2> SUFFICES ASSUME TypeOK, TypeOK', [Next]_vars
               PROVE  [Abstract!Next]_Items
    OBVIOUS
  <2>1. Len(Items) = Size
    BY ItemsType
  <2>2. ASSUME NEW e \in Elements, AddFirst(e) \/ AddLast(e)
        PROVE  Abstract!Next
    BY <2>2, AddFirstImplements, AddLastImplements, Zenon DEF Abstract!Next
  <2>3. CASE PopFirst \/ PopLast
    BY <2>1, <2>3, Pops, RemovalImplements DEF Abstract!Next
  <2>4. ASSUME NEW n \in 1 .. Size, RemoveFromStart(n) \/ RemoveFromEnd(n)
        PROVE  Abstract!Next
    BY <2>1, <2>4, RemovesFromStart, RemovesFromEnd, RemovalImplements DEF Abstract!Next
  <2>5. CASE UNCHANGED vars
    BY <2>5 DEF vars, Items, Size, ElementAt, Masked
  <2> QED
    BY <2>2, <2>3, <2>4, <2>5 DEF Next
<1> QED
  BY <1>1, <1>2, TypeCorrect, PTL DEF Spec, ImplementsDeque, Abstract!Spec

=============================================================================
