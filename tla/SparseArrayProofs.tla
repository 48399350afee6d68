-------------------------- MODULE SparseArrayProofs --------------------------
(***************************************************************************)
(* That the arrays of SparseArray are sorted, find what they hold and      *)
(* implement the map, for any keys, values and capacities.                 *)
(***************************************************************************)
EXTENDS SparseArray, ProofFacts

\* The fields with arrays of length n.
Arrays(n) ==
    [keys : [0 .. n - 1 -> Int], values : [0 .. n - 1 -> Values \cup {Null, Deleted}],
     garbage : BOOLEAN, size : 0 .. n]

\* The inductive invariant, of the fields a with arrays of length n: ArraysAreSound
\* with the types, and that all keys up to size are those of callers.
Sound(a, n) ==
    /\ n \in Nat
    /\ a \in Arrays(n)
    /\ \A i \in 0 .. a.size - 1 : a.keys[i] \in Keys
    /\ \A i, j \in 0 .. a.size - 1 : i < j => a.keys[i] < a.keys[j]
    /\ \A i \in 0 .. a.size - 1 : a.values[i] = Deleted => a.garbage
    /\ \A i \in 0 .. n - 1 : i >= a.size => a.values[i] \in {Null, Deleted}

\* The mappings that the fields a stand for: Contents is that of self.
Mappings(a) == {<<a.keys[i], a.values[i]>> : i \in Live(a)}

\* b has the mappings of a, but k is mapped to v.
Maps(b, a, k, v) == Mappings(b) = {m \in Mappings(a) : m[1] # k} \cup {<<k, v>>}

(***************************************************************************)
(* Sizes.                                                                  *)
(***************************************************************************)

LEMMA CapacityIs ==
    ASSUME NEW n \in Nat, NEW a \in Arrays(n)
    PROVE  Capacity(a) = n /\ DOMAIN a.keys = 0 .. n - 1 /\ DOMAIN a.values = 0 .. n - 1
<1>1. DOMAIN a.keys = 0 .. n - 1 /\ DOMAIN a.values = 0 .. n - 1
  BY DEF Arrays
<1>2. Cardinality(0 .. n - 1) = n
  BY FS_Interval
<1> QED
  BY <1>1, <1>2 DEF Capacity

\* There are no more keys in the arrays than those they are taken from.
LEMMA NoMoreThan ==
    ASSUME NEW a, NEW n, Sound(a, n), NEW K \in SUBSET Keys,
           \A i \in 0 .. a.size - 1 : a.keys[i] \in K
    PROVE  IsFiniteSet(K) /\ Cardinality(K) \in Nat /\ a.size <= Cardinality(K)
<1> DEFINE S == 0 .. a.size - 1
           f == [i \in S |-> a.keys[i]]
<1>1. a.size \in Nat /\ Cardinality(S) = a.size
  <2>1. a.size \in Nat
    BY DEF Sound, Arrays
  <2> QED
    BY <2>1, FS_Interval
<1>2. IsFiniteSet(K) /\ Cardinality(K) \in Nat
  BY SparseAssumption, FS_Subset, FS_CardinalityType
<1>3. f \in Injection(S, K)
  <2>1. ASSUME NEW i \in S, NEW j \in S, f[i] = f[j]
        PROVE  i = j
    <3>1. ~(i < j) /\ ~(j < i)
      <4>1. a.keys[i] \in Int /\ a.keys[j] \in Int /\ a.keys[i] = a.keys[j]
        BY <2>1, SparseAssumption
      <4> QED
        BY <4>1 DEF Sound
    <3> QED
      BY <1>1, <3>1
  <2>2. f \in [S -> K]
    OBVIOUS
  <2> QED
    BY <2>1, <2>2 DEF Injection, IsInjective
<1> HIDE DEF S, f
<1>4. Cardinality(S) <= Cardinality(K)
  BY <1>2, <1>3, FS_Injection
<1> QED
  BY <1>1, <1>2, <1>4

\* While a key is not in the arrays, they can grow.
LEMMA RoomForOne ==
    ASSUME NEW a, NEW n, Sound(a, n), NEW k \in Keys,
           \A i \in 0 .. a.size - 1 : a.keys[i] # k
    PROVE  a.size + 1 \in 0 .. LongestArray
<1>1. \A i \in 0 .. a.size - 1 : a.keys[i] \in Keys \ {k}
  BY DEF Sound
<1>2. Cardinality(Keys \ {k}) \in Nat /\ a.size <= Cardinality(Keys \ {k})
  BY <1>1, NoMoreThan
<1>3. Cardinality(Keys \ {k}) = Cardinality(Keys) - 1
  BY SparseAssumption, FS_RemoveElement
<1>4. Cardinality(Keys) \in Nat /\ LongestArray \in Int
  BY SparseAssumption, FS_CardinalityType DEF LongestArray
<1>5. a.size \in Nat
  BY DEF Sound, Arrays
<1> QED
  BY <1>2, <1>3, <1>4, <1>5, SparseAssumption

(***************************************************************************)
(* What compaction, growth, insertion and marking leave.                   *)
(***************************************************************************)

LEMMA LiveIs ==
    ASSUME NEW a, NEW n \in Nat, a \in Arrays(n)
    PROVE  /\ \A i \in Live(a) : i \in Nat
           /\ IsFiniteSet(Live(a))
           /\ Cardinality(Live(a)) \in 0 .. a.size
           /\ Cardinality(Live(a)) = a.size => Live(a) = 0 .. a.size - 1
<1>1. a.size \in Nat
  BY DEF Arrays
<1>2. IsFiniteSet(0 .. a.size - 1) /\ Cardinality(0 .. a.size - 1) = a.size
  <2>1. 0 \in Int /\ a.size - 1 \in Int
    BY <1>1
  <2>2. /\ IsFiniteSet(0 .. a.size - 1)
        /\ Cardinality(0 .. a.size - 1) = IF 0 > a.size - 1 THEN 0 ELSE a.size - 1 - 0 + 1
    BY <2>1, FS_Interval
  <2> QED
    BY <1>1, <2>2
<1>3. Live(a) \in SUBSET (0 .. a.size - 1) /\ \A i \in Live(a) : i \in Nat
  BY DEF Live
<1>4. /\ IsFiniteSet(Live(a)) /\ Cardinality(Live(a)) <= Cardinality(0 .. a.size - 1)
      /\ Cardinality(0 .. a.size - 1) = Cardinality(Live(a)) => 0 .. a.size - 1 = Live(a)
  BY <1>2, <1>3, FS_Subset
<1>5. Cardinality(Live(a)) \in Nat
  BY <1>4, FS_CardinalityType
<1> QED
  BY <1>1, <1>2, <1>3, <1>4, <1>5

\* gc() keeps the mappings and their order and leaves no marks among them.
LEMMA GcSound ==
    ASSUME NEW a, NEW n, Sound(a, n)
    PROVE  /\ Sound(Gc(a), n)
           /\ Mappings(Gc(a)) = Mappings(a)
           /\ Gc(a).size <= a.size
           /\ Live(Gc(a)) = 0 .. Gc(a).size - 1
           /\ ~Gc(a).garbage
<1> DEFINE L == Live(a)
           c == Cardinality(L)
           Nth(o) == CHOOSE i \in L : Cardinality({j \in L : j < i}) = o
           From == [o \in 0 .. c - 1 |-> Nth(o)]
           b == Gc(a)
<1>1. n \in Nat /\ a \in Arrays(n) /\ a.size \in 0 .. n
  BY DEF Sound, Arrays
<1>2. /\ \A i \in L : i \in Nat
      /\ IsFiniteSet(L) /\ c \in 0 .. a.size
  BY <1>1, LiveIs
<1>3. /\ \A o \in 0 .. c - 1 : From[o] \in L
      /\ \A o, p \in 0 .. c - 1 : o < p => From[o] < From[p]
      /\ \A i \in L : \E o \in 0 .. c - 1 : From[o] = i
  <2> HIDE DEF L
  <2> QED
    BY <1>2, InOrder
<1>4. DOMAIN a.keys = 0 .. n - 1 /\ DOMAIN a.values = 0 .. n - 1
  BY <1>1, CapacityIs
<1>5. \A i \in L : /\ i \in 0 .. a.size - 1 /\ i \in 0 .. n - 1
                   /\ a.values[i] # Deleted /\ a.keys[i] \in Keys /\ a.keys[i] \in Int
                   /\ a.values[i] \in Values \cup {Null, Deleted}
  BY <1>1 DEF Live, Sound, Arrays
<1>6. /\ b.keys = MovedDown(a.keys, L)
      /\ b.values = Vacated(MovedDown(a.values, L), L)
      /\ b.garbage = FALSE /\ b.size = c
      /\ b = [keys |-> b.keys, values |-> b.values, garbage |-> FALSE, size |-> c]
  BY DEF Gc
<1>7. /\ MovedDown(a.keys, L)
           = [o \in 0 .. n - 1 |-> IF o < c THEN a.keys[Nth(o)] ELSE a.keys[o]]
      /\ MovedDown(a.values, L)
           = [o \in 0 .. n - 1 |-> IF o < c THEN a.values[Nth(o)] ELSE a.values[o]]
  BY <1>4 DEF MovedDown
<1> HIDE DEF Nth
<1>8. /\ b.keys = [o \in 0 .. n - 1 |-> IF o < c THEN a.keys[From[o]] ELSE a.keys[o]]
      /\ MovedDown(a.values, L)
           = [o \in 0 .. n - 1 |-> IF o < c THEN a.values[From[o]] ELSE a.values[o]]
  <2>1. \A o \in 0 .. n - 1 : o < c => From[o] = Nth(o)
    <3> HIDE DEF L, c
    <3> QED
      BY <1>1, <1>2
  <2> HIDE DEF From, L, c, b
  <2> QED
    BY <1>6, <1>7, <2>1
<1>9. b.values = [o \in 0 .. n - 1 |-> IF o < c THEN a.values[From[o]]
                                       ELSE IF o \in L THEN Null ELSE a.values[o]]
  <2> DEFINE w == MovedDown(a.values, L)
  <2>1. b.values = [o \in DOMAIN w |-> IF o \in L /\ o >= c THEN Null ELSE w[o]]
    BY <1>6 DEF Vacated
  <2> HIDE DEF From, L, c, b, w
  <2>2. w = [o \in 0 .. n - 1 |-> IF o < c THEN a.values[From[o]] ELSE a.values[o]]
    BY <1>8 DEF w
  <2>3. \A o \in 0 .. n - 1 : o >= c <=> ~(o < c)
    BY <1>1, <1>2
  <2> QED
    BY <2>1, <2>2, <2>3
<1> HIDE DEF From, L, c, b
<1>10. \A o \in 0 .. c - 1 : /\ From[o] \in L /\ o \in 0 .. n - 1
                             /\ b.keys[o] = a.keys[From[o]] /\ b.values[o] = a.values[From[o]]
  BY <1>1, <1>2, <1>3, <1>8, <1>9
<1>11. \A o \in 0 .. n - 1 : o >= c => b.values[o] \in {Null, Deleted}
  <2> SUFFICES ASSUME NEW o \in 0 .. n - 1, o >= c, o \notin L
               PROVE  a.values[o] \in {Null, Deleted}
    BY <1>2, <1>9
  <2>1. CASE o < a.size
    BY <1>1, <2>1 DEF L, Live
  <2>2. CASE o >= a.size
    BY <2>2 DEF Sound
  <2> QED
    BY <1>1, <2>1, <2>2
<1>12. b \in Arrays(n)
  <2>1. b.keys \in [0 .. n - 1 -> Int]
    <3>1. a.keys \in [0 .. n - 1 -> Int]
      BY <1>1 DEF Arrays
    <3>2. ASSUME NEW o \in 0 .. n - 1
          PROVE  b.keys[o] \in Int
      <4>1. CASE o < c
        <5>1. o \in 0 .. c - 1
          BY <1>1, <1>2, <4>1
        <5> QED
          BY <1>5, <1>10, <5>1
      <4>2. CASE ~(o < c)
        BY <1>8, <3>1, <4>2
      <4> QED
        BY <4>1, <4>2
    <3> QED
      BY <1>8, <3>2
  <2>2. b.values \in [0 .. n - 1 -> Values \cup {Null, Deleted}]
    <3>1. a.values \in [0 .. n - 1 -> Values \cup {Null, Deleted}]
      BY <1>1 DEF Arrays
    <3>2. \A o \in 0 .. n - 1 : b.values[o] \in Values \cup {Null, Deleted}
      BY <1>1, <1>2, <1>5, <1>10, <1>11
    <3> QED
      BY <1>9, <3>2
  <2>3. c \in 0 .. n
    BY <1>1, <1>2
  <2> QED
    BY <1>6, <2>1, <2>2, <2>3 DEF Arrays
<1>13. Sound(b, n)
  <2>1. \A i \in 0 .. c - 1 : b.keys[i] \in Keys /\ b.values[i] # Deleted
    BY <1>5, <1>10
  <2>2. \A i, j \in 0 .. c - 1 : i < j => b.keys[i] < b.keys[j]
    <3> SUFFICES ASSUME NEW i \in 0 .. c - 1, NEW j \in 0 .. c - 1, i < j
                 PROVE  b.keys[i] < b.keys[j]
      OBVIOUS
    <3>1. From[i] < From[j] /\ From[i] \in 0 .. a.size - 1 /\ From[j] \in 0 .. a.size - 1
      BY <1>3, <1>5
    <3>2. a.keys[From[i]] < a.keys[From[j]]
      BY <3>1 DEF Sound
    <3> QED
      BY <1>10, <3>2
  <2> QED
    BY <1>1, <1>6, <1>11, <1>12, <2>1, <2>2 DEF Sound
<1>14. Live(b) = 0 .. c - 1
  BY <1>5, <1>6, <1>10 DEF Live
<1>15. Mappings(b) = Mappings(a)
  <2>1. ASSUME NEW m \in Mappings(b)
        PROVE  m \in Mappings(a)
    <3>1. PICK o \in 0 .. c - 1 : m = <<b.keys[o], b.values[o]>>
      BY <1>14, <2>1 DEF Mappings
    <3>2. m = <<a.keys[From[o]], a.values[From[o]]>> /\ From[o] \in Live(a)
      BY <1>10, <3>1 DEF L
    <3> QED
      BY <3>2 DEF Mappings
  <2>2. ASSUME NEW m \in Mappings(a)
        PROVE  m \in Mappings(b)
    <3>1. PICK i \in Live(a) : m = <<a.keys[i], a.values[i]>>
      BY <2>2 DEF Mappings
    <3>2. PICK o \in 0 .. c - 1 : From[o] = i
      BY <1>3, <3>1 DEF L
    <3>3. m = <<b.keys[o], b.values[o]>> /\ o \in Live(b)
      BY <1>10, <1>14, <3>1, <3>2
    <3> QED
      BY <3>3 DEF Mappings
  <2> QED
    BY <2>1, <2>2
<1> QED
  BY <1>1, <1>2, <1>6, <1>13, <1>14, <1>15 DEF b

\* Growing changes nothing but the length.
LEMMA GrownSound ==
    ASSUME NEW a, NEW n, Sound(a, n), a.size + 1 \in 0 .. LongestArray
    PROVE  \E m : /\ Sound(Grown(a), m) /\ a.size < m
                  /\ Grown(a).size = a.size
                  /\ \A i \in 0 .. a.size - 1 : Grown(a).keys[i] = a.keys[i]
                  /\ Mappings(Grown(a)) = Mappings(a)
<1>1. n \in Nat /\ a \in Arrays(n) /\ a.size \in 0 .. n
  BY DEF Sound, Arrays
<1>2. Capacity(a) = n /\ DOMAIN a.keys = 0 .. n - 1 /\ DOMAIN a.values = 0 .. n - 1
  BY <1>1, CapacityIs
<1>3. CASE a.size < n
  <2>1. Grown(a) = a
    BY <1>2, <1>3 DEF Grown
  <2> QED
    BY <1>3, <2>1
<1>4. CASE ~(a.size < n)
  <2>1. PICK m \in Nat : m = IdealIntArraySize(a.size + 1) /\ a.size + 1 <= m
    BY LengthFits
  <2> DEFINE b == Grown(a)
             keys == [i \in 0 .. m - 1 |-> IF i \in 0 .. n - 1 THEN a.keys[i] ELSE 0]
             values == [i \in 0 .. m - 1 |-> IF i \in 0 .. n - 1 THEN a.values[i] ELSE Null]
  <2>2. b = [keys |-> keys, values |-> values, garbage |-> a.garbage, size |-> a.size]
    <3>1. b = [a EXCEPT !.keys = CopyOf(a.keys, m, 0), !.values = CopyOf(a.values, m, Null)]
      BY <1>2, <1>4, <2>1 DEF Grown
    <3>2. CopyOf(a.keys, m, 0) = keys /\ CopyOf(a.values, m, Null) = values
      BY <1>2 DEF CopyOf
    <3> HIDE DEF keys, values, b
    <3> QED
      BY <1>1, <3>1, <3>2 DEF Arrays
  <2>3. a.size = n /\ n < m
    BY <1>1, <1>4, <2>1
  <2>4. \A i \in 0 .. a.size - 1 : keys[i] = a.keys[i] /\ values[i] = a.values[i]
    BY <1>1, <2>1, <2>3
  <2>5. \A i \in 0 .. m - 1 : i >= a.size => values[i] = Null
    BY <1>1, <2>3
  <2>6. keys \in [0 .. m - 1 -> Int] /\ values \in [0 .. m - 1 -> Values \cup {Null, Deleted}]
    BY <1>1 DEF Arrays
  <2> HIDE DEF keys, values, b
  <2>7. Sound(b, m)
    <3>1. b \in Arrays(m)
      BY <1>1, <2>1, <2>2, <2>3, <2>6 DEF Arrays
    <3>2. \A i, j \in 0 .. a.size - 1 : i < j => keys[i] < keys[j]
      BY <2>4 DEF Sound
    <3> QED
      BY <2>1, <2>2, <2>4, <2>5, <3>1, <3>2 DEF Sound
  <2>8. Live(b) = Live(a)
    BY <2>2, <2>4 DEF Live
  <2>9. \A i \in Live(a) : <<b.keys[i], b.values[i]>> = <<a.keys[i], a.values[i]>>
    BY <2>2, <2>4 DEF Live
  <2>10. Mappings(b) = Mappings(a)
    BY <2>8, <2>9 DEF Mappings
  <2> QED
    BY <2>2, <2>3, <2>4, <2>7, <2>10 DEF b
<1> QED
  BY <1>3, <1>4

\* A mapping goes in between, where its key belongs.
LEMMA InsertSound ==
    ASSUME NEW a, NEW n, Sound(a, n), a.size < n, NEW i \in 0 .. a.size,
           NEW k \in Keys, NEW v \in Values,
           \A j \in 0 .. i - 1 : a.keys[j] < k,
           \A j \in i .. a.size - 1 : k < a.keys[j]
    PROVE  Sound(InsertAt(a, i, k, v), n) /\ Maps(InsertAt(a, i, k, v), a, k, v)
<1> DEFINE b == InsertAt(a, i, k, v)
           s == a.size
           keys == [j \in 0 .. n - 1 |-> IF j = i THEN k
                                         ELSE IF i < j /\ j <= s THEN a.keys[j - 1] ELSE a.keys[j]]
           values == [j \in 0 .. n - 1 |-> IF j = i THEN v
                                           ELSE IF i < j /\ j <= s THEN a.values[j - 1] ELSE a.values[j]]
<1>1. n \in Nat /\ a \in Arrays(n) /\ s \in 0 .. n /\ s < n /\ i \in 0 .. s
  BY DEF Sound, Arrays
<1>2. DOMAIN a.keys = 0 .. n - 1 /\ DOMAIN a.values = 0 .. n - 1
  BY <1>1, CapacityIs
<1>3. b = [keys |-> keys, values |-> values, garbage |-> a.garbage, size |-> s + 1]
  <2>1. Inserted(a.keys, i, s, k) = keys /\ Inserted(a.values, i, s, v) = values
    BY <1>2 DEF Inserted
  <2>2. b = [a EXCEPT !.keys = Inserted(a.keys, i, s, k), !.values = Inserted(a.values, i, s, v),
                      !.size = s + 1]
    BY DEF InsertAt
  <2> HIDE DEF keys, values, b, s
  <2> QED
    BY <1>1, <2>1, <2>2 DEF Arrays
<1>4. /\ a.keys \in [0 .. n - 1 -> Int] /\ a.values \in [0 .. n - 1 -> Values \cup {Null, Deleted}]
      /\ k \in Int /\ v # Deleted /\ a.garbage \in BOOLEAN
  BY <1>1, SparseAssumption DEF Arrays
<1>5. /\ keys \in [0 .. n - 1 -> Int] /\ values \in [0 .. n - 1 -> Values \cup {Null, Deleted}]
      /\ keys[i] = k /\ values[i] = v
  <2>1. \A j \in 0 .. n - 1 : i < j => j - 1 \in 0 .. n - 1
    BY <1>1
  <2> HIDE DEF s
  <2> QED
    BY <1>1, <1>4, <2>1
<1> DEFINE Same(j, l) == keys[j] = a.keys[l] /\ values[j] = a.values[l]
<1>9. \A j \in 0 .. n - 1 : j < i => Same(j, j)
  BY <1>1
<1>10. \A j \in 0 .. n - 1 : i < j /\ j <= s => Same(j, j - 1)
  BY <1>1
<1>11. \A j \in 0 .. n - 1 : s < j => Same(j, j)
  BY <1>1
<1>12. b.keys = keys /\ b.values = values /\ b.garbage = a.garbage /\ b.size = s + 1
  BY <1>3
<1> HIDE DEF keys, values, b, s
<1>6. /\ \A j \in 0 .. s - 1 : a.keys[j] \in Keys
      /\ \A j, l \in 0 .. s - 1 : j < l => a.keys[j] < a.keys[l]
      /\ \A j \in 0 .. s - 1 : a.values[j] = Deleted => a.garbage
      /\ \A j \in 0 .. n - 1 : j >= s => a.values[j] \in {Null, Deleted}
      /\ \A j \in 0 .. i - 1 : a.keys[j] < k
      /\ \A j \in i .. s - 1 : k < a.keys[j]
  BY DEF Sound, s
<1>7. Sound(b, n)
  <2>1. b \in Arrays(n)
    BY <1>1, <1>3, <1>4, <1>5 DEF Arrays
  <2>2. \A j \in 0 .. s : keys[j] \in Keys /\ (values[j] = Deleted => a.garbage)
    <3> SUFFICES ASSUME NEW j \in 0 .. s
                 PROVE  keys[j] \in Keys /\ (values[j] = Deleted => a.garbage)
      OBVIOUS
    <3>1. CASE j < i
      BY <1>1, <1>6, <1>9, <3>1
    <3>2. CASE j = i
      BY <1>4, <1>5, <3>2
    <3>3. CASE i < j
      <4>1. j - 1 \in 0 .. s - 1 /\ Same(j, j - 1)
        BY <1>1, <1>10, <3>3
      <4> QED
        BY <1>6, <4>1
    <3> QED
      BY <1>1, <3>1, <3>2, <3>3
  <2>3. \A j, l \in 0 .. s : j < l => keys[j] < keys[l]
    <3> SUFFICES ASSUME NEW j \in 0 .. s, NEW l \in 0 .. s, j < l
                 PROVE  keys[j] < keys[l]
      OBVIOUS
    <3>1. CASE l < i
      <4>1. Same(j, j) /\ Same(l, l) /\ j \in 0 .. s - 1 /\ l \in 0 .. s - 1
        BY <1>1, <1>9, <3>1
      <4> QED
        BY <1>6, <4>1
    <3>2. CASE l = i
      <4>1. Same(j, j) /\ j \in 0 .. i - 1
        BY <1>1, <1>9, <3>2
      <4> QED
        BY <1>5, <1>6, <3>2, <4>1
    <3>3. CASE l > i /\ j < i
      <4>1. Same(j, j) /\ Same(l, l - 1)
        BY <1>1, <1>9, <1>10, <3>3
      <4>2. j \in 0 .. s - 1 /\ l - 1 \in 0 .. s - 1 /\ j < l - 1
        BY <1>1, <3>3
      <4> QED
        BY <1>6, <4>1, <4>2
    <3>4. CASE l > i /\ j = i
      <4>1. Same(l, l - 1) /\ l - 1 \in i .. s - 1
        BY <1>1, <1>10, <3>4
      <4> QED
        BY <1>5, <1>6, <3>4, <4>1
    <3>5. CASE l > i /\ j > i
      <4>1. Same(j, j - 1) /\ Same(l, l - 1)
        BY <1>1, <1>10, <3>5
      <4>2. j - 1 \in 0 .. s - 1 /\ l - 1 \in 0 .. s - 1 /\ j - 1 < l - 1
        BY <1>1, <3>5
      <4> QED
        BY <1>6, <4>1, <4>2
    <3> QED
      BY <1>1, <3>1, <3>2, <3>3, <3>4, <3>5
  <2>4. \A j \in 0 .. n - 1 : j >= s + 1 => values[j] \in {Null, Deleted}
    BY <1>1, <1>6, <1>11
  <2> QED
    BY <1>1, <1>12, <2>1, <2>2, <2>3, <2>4 DEF Sound
<1>8. Maps(b, a, k, v)
  <2>1. ASSUME NEW m \in Mappings(b)
        PROVE  (m \in Mappings(a) /\ m[1] # k) \/ m = <<k, v>>
    <3>1. PICK j \in 0 .. s : m = <<keys[j], values[j]>> /\ values[j] # Deleted
      BY <1>1, <1>12, <2>1 DEF Mappings, Live
    <3>2. CASE j = i
      BY <1>5, <3>1, <3>2
    <3>3. CASE j # i
      <4>1. PICK l \in 0 .. s - 1 : Same(j, l)
        <5>1. CASE j < i
          BY <1>1, <1>9, <5>1
        <5>2. CASE i < j
          <6>1. j - 1 \in 0 .. s - 1
            BY <1>1, <5>2
          <6> QED
            BY <1>1, <1>10, <5>2, <6>1
        <5> QED
          BY <1>1, <3>3, <5>1, <5>2
      <4>2. a.keys[l] # k
        <5>1. a.keys[l] < k \/ k < a.keys[l]
          BY <1>1, <1>6
        <5>2. a.keys[l] \in Int
          BY <1>1, <1>4
        <5> QED
          BY <1>4, <5>1, <5>2
      <4> QED
        BY <3>1, <4>1, <4>2 DEF Mappings, Live, s
    <3> QED
      BY <3>2, <3>3
  <2>2. ASSUME NEW m \in Mappings(a)
        PROVE  m \in Mappings(b)
    <3>1. PICK j \in 0 .. s - 1 : m = <<a.keys[j], a.values[j]>> /\ a.values[j] # Deleted
      BY <2>2 DEF Mappings, Live, s
    <3>2. PICK l \in 0 .. s : Same(l, j)
      <4>1. CASE j < i
        BY <1>1, <1>9, <4>1
      <4>2. CASE j >= i
        <5>1. j + 1 \in 0 .. s /\ Same(j + 1, j + 1 - 1) /\ j + 1 - 1 = j
          BY <1>1, <1>10, <4>2
        <5> QED
          BY <5>1
      <4> QED
        BY <1>1, <4>1, <4>2
    <3>3. l \in Live(b) /\ m = <<b.keys[l], b.values[l]>>
      BY <1>1, <1>12, <3>1, <3>2 DEF Live
    <3> QED
      BY <3>3 DEF Mappings
  <2>3. <<k, v>> \in Mappings(b)
    <3>1. i \in Live(b) /\ <<k, v>> = <<b.keys[i], b.values[i]>>
      BY <1>1, <1>4, <1>5, <1>12 DEF Live
    <3> QED
      BY <3>1 DEF Mappings
  <2> QED
    BY <2>1, <2>2, <2>3 DEF Maps
<1> QED
  BY <1>7, <1>8 DEF b

\* A mapping takes the place of one of the same key, or of a removed one where
\* its key belongs.
LEMMA StoreSound ==
    ASSUME NEW a, NEW n, Sound(a, n), NEW i \in 0 .. a.size - 1,
           NEW k \in Keys, NEW v \in Values,
           a.keys[i] = k \/ a.values[i] = Deleted,
           \A j \in 0 .. i - 1 : a.keys[j] < k,
           \A j \in i + 1 .. a.size - 1 : k < a.keys[j]
    PROVE  /\ Sound([a EXCEPT !.keys[i] = k, !.values[i] = v], n)
           /\ Maps([a EXCEPT !.keys[i] = k, !.values[i] = v], a, k, v)
<1> DEFINE b == [a EXCEPT !.keys[i] = k, !.values[i] = v]
           s == a.size
           keys == [j \in 0 .. n - 1 |-> IF j = i THEN k ELSE a.keys[j]]
           values == [j \in 0 .. n - 1 |-> IF j = i THEN v ELSE a.values[j]]
<1>1. n \in Nat /\ a \in Arrays(n) /\ s \in 0 .. n /\ i \in 0 .. s - 1
  BY DEF Sound, Arrays
<1>2. /\ a.keys \in [0 .. n - 1 -> Int] /\ a.values \in [0 .. n - 1 -> Values \cup {Null, Deleted}]
      /\ k \in Int /\ v # Deleted /\ a.garbage \in BOOLEAN
  BY <1>1, SparseAssumption DEF Arrays
<1>3. b = [keys |-> keys, values |-> values, garbage |-> a.garbage, size |-> s]
  <2>1. keys = [a.keys EXCEPT ![i] = k] /\ values = [a.values EXCEPT ![i] = v]
    BY <1>2
  <2>2. b = [keys |-> [a.keys EXCEPT ![i] = k], values |-> [a.values EXCEPT ![i] = v],
             garbage |-> a.garbage, size |-> s]
    <3> DEFINE K == [a.keys EXCEPT ![i] = k]
               V == [a.values EXCEPT ![i] = v]
    <3>1. b = [a EXCEPT !.keys = K, !.values = V]
      OBVIOUS
    <3> HIDE DEF K, V, b
    <3>2. b = [keys |-> K, values |-> V, garbage |-> a.garbage, size |-> s]
      BY <1>1, <3>1 DEF Arrays
    <3> QED
      BY <3>2 DEF K, V
  <2> HIDE DEF keys, values, b, s
  <2> QED
    BY <2>1, <2>2
<1>4. /\ keys \in [0 .. n - 1 -> Int] /\ values \in [0 .. n - 1 -> Values \cup {Null, Deleted}]
      /\ keys[i] = k /\ values[i] = v
      /\ \A j \in 0 .. n - 1 : j # i => keys[j] = a.keys[j] /\ values[j] = a.values[j]
  BY <1>1, <1>2
<1> HIDE DEF keys, values, s, b
<1>8. b.keys = keys /\ b.values = values /\ b.garbage = a.garbage /\ b.size = s
  BY <1>3
<1>5. /\ \A j \in 0 .. s - 1 : a.keys[j] \in Keys
      /\ \A j, l \in 0 .. s - 1 : j < l => a.keys[j] < a.keys[l]
      /\ \A j \in 0 .. s - 1 : a.values[j] = Deleted => a.garbage
      /\ \A j \in 0 .. n - 1 : j >= s => a.values[j] \in {Null, Deleted}
      /\ \A j \in 0 .. i - 1 : a.keys[j] < k
      /\ \A j \in i + 1 .. s - 1 : k < a.keys[j]
  BY DEF Sound, s
<1>6. Sound(b, n)
  <2>1. b \in Arrays(n)
    BY <1>1, <1>2, <1>3, <1>4 DEF Arrays
  <2>2. \A j, l \in 0 .. s - 1 : j < l => keys[j] < keys[l]
    <3> SUFFICES ASSUME NEW j \in 0 .. s - 1, NEW l \in 0 .. s - 1, j < l
                 PROVE  keys[j] < keys[l]
      OBVIOUS
    <3>1. CASE j = i
      BY <1>1, <1>4, <1>5, <3>1
    <3>2. CASE l = i
      BY <1>1, <1>4, <1>5, <3>2
    <3>3. CASE j # i /\ l # i
      BY <1>1, <1>4, <1>5, <3>3
    <3> QED
      BY <3>1, <3>2, <3>3
  <2>3. \A j \in 0 .. s - 1 : keys[j] \in Keys /\ (values[j] = Deleted => a.garbage)
    <3>1. \A j \in 0 .. s - 1 : j \in 0 .. n - 1
      BY <1>1
    <3>2. \A j \in 0 .. s - 1 : j # i => keys[j] = a.keys[j] /\ values[j] = a.values[j]
      BY <1>4, <3>1
    <3> QED
      BY <1>2, <1>4, <1>5, <3>2
  <2>4. \A j \in 0 .. n - 1 : j >= s => values[j] \in {Null, Deleted}
    <3>1. \A j \in 0 .. n - 1 : j >= s => j # i
      BY <1>1
    <3> QED
      BY <1>4, <1>5, <3>1
  <2> QED
    BY <1>1, <1>8, <2>1, <2>2, <2>3, <2>4 DEF Sound
<1>7. Maps(b, a, k, v)
  <2>1. ASSUME NEW m \in Mappings(b)
        PROVE  (m \in Mappings(a) /\ m[1] # k) \/ m = <<k, v>>
    <3>1. PICK j \in 0 .. s - 1 : m = <<keys[j], values[j]>> /\ values[j] # Deleted
      BY <1>1, <1>8, <2>1 DEF Mappings, Live
    <3>2. CASE j = i
      BY <1>4, <3>1, <3>2
    <3>3. CASE j # i
      <4>1. keys[j] = a.keys[j] /\ values[j] = a.values[j] /\ a.keys[j] # k
        BY <1>1, <1>2, <1>4, <1>5, <3>3
      <4> QED
        BY <3>1, <4>1 DEF Mappings, Live, s
    <3> QED
      BY <3>2, <3>3
  <2>2. ASSUME NEW m \in Mappings(a), m[1] # k
        PROVE  m \in Mappings(b)
    <3>1. PICK j \in 0 .. s - 1 : m = <<a.keys[j], a.values[j]>> /\ a.values[j] # Deleted
      BY <2>2 DEF Mappings, Live, s
    <3>2. j # i
      BY <2>2, <3>1
    <3>3. j \in Live(b) /\ m = <<b.keys[j], b.values[j]>>
      BY <1>1, <1>4, <1>8, <3>1, <3>2 DEF Live
    <3> QED
      BY <3>3 DEF Mappings
  <2>3. <<k, v>> \in Mappings(b)
    BY <1>1, <1>2, <1>3, <1>4 DEF Mappings, Live
  <2> QED
    BY <2>1, <2>2, <2>3 DEF Maps
<1> QED
  BY <1>6, <1>7 DEF b

\* A new value for a key that is in the arrays.
LEMMA ReplaceSound ==
    ASSUME NEW a, NEW n, Sound(a, n), NEW i \in 0 .. a.size - 1, NEW v \in Values
    PROVE  /\ Sound([a EXCEPT !.values[i] = v], n)
           /\ Maps([a EXCEPT !.values[i] = v], a, a.keys[i], v)
           /\ [a EXCEPT !.values[i] = v].size = a.size
           /\ [a EXCEPT !.values[i] = v].keys = a.keys
<1>1. n \in Nat /\ a \in Arrays(n) /\ a.size \in 0 .. n /\ i \in 0 .. n - 1
  BY DEF Sound, Arrays
<1>2. PICK k \in Keys : k = a.keys[i]
  BY DEF Sound
<1>3. /\ \A j \in 0 .. i - 1 : a.keys[j] < k
      /\ \A j \in i + 1 .. a.size - 1 : k < a.keys[j]
  BY <1>1, <1>2 DEF Sound
<1>4. [a EXCEPT !.values[i] = v] = [a EXCEPT !.keys[i] = k, !.values[i] = v]
  <2>1. a.keys = [a.keys EXCEPT ![i] = k]
    BY <1>1, <1>2 DEF Arrays
  <2> QED
    BY <1>1, <2>1 DEF Arrays
<1> DEFINE b == [a EXCEPT !.keys[i] = k, !.values[i] = v]
<1>6. Sound(b, n) /\ Maps(b, a, k, v)
  BY <1>2, <1>3, StoreSound
<1> HIDE DEF b
<1>7. [a EXCEPT !.values[i] = v].size = a.size /\ [a EXCEPT !.values[i] = v].keys = a.keys
  BY <1>1 DEF Arrays
<1> QED
  BY <1>2, <1>4, <1>6, <1>7 DEF b

\* The fields a when the values at the indices D are marked.
Marked(a, D, g) ==
    [keys |-> a.keys, values |-> [j \in DOMAIN a.values |-> IF j \in D THEN Deleted ELSE a.values[j]],
     garbage |-> g, size |-> a.size]

\* Marking takes out the mappings of the keys at those indices.
LEMMA MarkedSound ==
    ASSUME NEW a, NEW n, Sound(a, n), NEW D, \A j \in D : j \in 0 .. a.size - 1,
           NEW g \in BOOLEAN, a.garbage => g, \A j \in D : a.values[j] # Deleted => g
    PROVE  /\ Sound(Marked(a, D, g), n)
           /\ Mappings(Marked(a, D, g)) = {m \in Mappings(a) : \A j \in D : m[1] # a.keys[j]}
<1> DEFINE b == Marked(a, D, g)
           s == a.size
           values == [j \in 0 .. n - 1 |-> IF j \in D THEN Deleted ELSE a.values[j]]
<1>1. n \in Nat /\ a \in Arrays(n) /\ s \in 0 .. n
  BY DEF Sound, Arrays
<1>2. /\ a.keys \in [0 .. n - 1 -> Int] /\ a.values \in [0 .. n - 1 -> Values \cup {Null, Deleted}]
      /\ \A j \in 0 .. s - 1 : j \in 0 .. n - 1
  BY <1>1 DEF Arrays
<1>3. b = [keys |-> a.keys, values |-> values, garbage |-> g, size |-> s]
  BY <1>2 DEF Marked
<1>4. \A j \in 0 .. n - 1 : values[j] = IF j \in D THEN Deleted ELSE a.values[j]
  OBVIOUS
<1>5. values \in [0 .. n - 1 -> Values \cup {Null, Deleted}]
  BY <1>2
<1> HIDE DEF b, values, s
<1>6. b.keys = a.keys /\ b.values = values /\ b.garbage = g /\ b.size = s
  BY <1>3
<1>7. Sound(b, n)
  <2>1. b \in Arrays(n)
    BY <1>1, <1>2, <1>3, <1>5 DEF Arrays
  <2>2. \A j \in 0 .. s - 1 : values[j] = Deleted => g
    <3>1. \A j \in 0 .. s - 1 : a.values[j] = Deleted => g
      BY DEF Sound, s
    <3> QED
      BY <1>2, <1>4, <3>1
  <2>3. \A j \in 0 .. n - 1 : j >= s => values[j] \in {Null, Deleted}
    <3>1. \A j \in 0 .. n - 1 : j >= s => a.values[j] \in {Null, Deleted}
      BY DEF Sound, s
    <3> QED
      BY <1>4, <3>1
  <2>4. /\ \A j \in 0 .. s - 1 : a.keys[j] \in Keys
        /\ \A j, l \in 0 .. s - 1 : j < l => a.keys[j] < a.keys[l]
    BY DEF Sound, s
  <2> QED
    BY <1>1, <1>6, <2>1, <2>2, <2>3, <2>4 DEF Sound
<1>8. ASSUME NEW m
      PROVE  m \in Mappings(b) <=> m \in Mappings(a) /\ \A j \in D : m[1] # a.keys[j]
  <2>1. ASSUME m \in Mappings(b)
        PROVE  m \in Mappings(a) /\ \A j \in D : m[1] # a.keys[j]
    <3>1. PICK j \in 0 .. s - 1 : m = <<a.keys[j], values[j]>> /\ values[j] # Deleted
      BY <1>6, <2>1 DEF Mappings, Live
    <3>2. j \notin D /\ values[j] = a.values[j]
      BY <1>2, <1>4, <3>1
    <3>3. \A l \in D : l # j /\ a.keys[l] # a.keys[j]
      <4> SUFFICES ASSUME NEW l \in D
                   PROVE  l # j /\ a.keys[l] # a.keys[j]
        OBVIOUS
      <4>1. l \in 0 .. s - 1 /\ l # j
        BY <3>2 DEF s
      <4>2. a.keys[l] \in Int /\ a.keys[j] \in Int
        BY <1>2, <4>1
      <4>3. a.keys[l] < a.keys[j] \/ a.keys[j] < a.keys[l]
        BY <1>1, <4>1 DEF Sound, s
      <4> QED
        BY <4>1, <4>2, <4>3
    <3> QED
      BY <3>1, <3>2, <3>3 DEF Mappings, Live, s
  <2>2. ASSUME m \in Mappings(a), \A j \in D : m[1] # a.keys[j]
        PROVE  m \in Mappings(b)
    <3>1. PICK j \in 0 .. s - 1 : m = <<a.keys[j], a.values[j]>> /\ a.values[j] # Deleted
      BY <2>2 DEF Mappings, Live, s
    <3>2. j \notin D
      BY <2>2, <3>1
    <3>3. j \in Live(b) /\ m = <<b.keys[j], b.values[j]>>
      BY <1>2, <1>4, <1>6, <3>1, <3>2 DEF Live
    <3> QED
      BY <3>3 DEF Mappings
  <2> QED
    BY <2>1, <2>2
<1>9. Mappings(b) = {m \in Mappings(a) : \A j \in D : m[1] # a.keys[j]}
  BY <1>8
<1> QED
  BY <1>7, <1>9 DEF b

\* removeAt marks one index.
LEMMA WithoutAtSound ==
    ASSUME NEW a, NEW n, Sound(a, n), NEW i \in 0 .. a.size - 1
    PROVE  /\ Sound(WithoutAt(a, i), n)
           /\ Mappings(WithoutAt(a, i)) = {m \in Mappings(a) : m[1] # a.keys[i]}
           /\ WithoutAt(a, i).size = a.size
           /\ WithoutAt(a, i).keys = a.keys
<1>1. n \in Nat /\ a \in Arrays(n) /\ i \in 0 .. n - 1
  BY DEF Sound, Arrays
<1>2. \E g \in BOOLEAN : /\ WithoutAt(a, i) = Marked(a, {i}, g)
                         /\ a.garbage => g
                         /\ a.values[i] # Deleted => g
  <2>1. CASE a.values[i] = Deleted
    <3>1. a.garbage \in BOOLEAN /\ a.values \in [0 .. n - 1 -> Values \cup {Null, Deleted}]
      BY <1>1 DEF Arrays
    <3>2. a.values = [j \in DOMAIN a.values |-> IF j \in {i} THEN Deleted ELSE a.values[j]]
      BY <2>1, <3>1
    <3>3. a = Marked(a, {i}, a.garbage)
      BY <1>1, <3>2 DEF Arrays, Marked
    <3> QED
      BY <2>1, <3>1, <3>3 DEF WithoutAt
  <2>2. CASE a.values[i] # Deleted
    <3> DEFINE V == [a.values EXCEPT ![i] = Deleted]
               W == [j \in DOMAIN a.values |-> IF j \in {i} THEN Deleted ELSE a.values[j]]
    <3>1. WithoutAt(a, i) = [a EXCEPT !.values = V, !.garbage = TRUE]
      BY <2>2 DEF WithoutAt
    <3>2. V = W
      BY <1>1 DEF Arrays
    <3>3. Marked(a, {i}, TRUE) = [keys |-> a.keys, values |-> W, garbage |-> TRUE, size |-> a.size]
      BY DEF Marked
    <3> HIDE DEF V, W
    <3>4. WithoutAt(a, i) = Marked(a, {i}, TRUE)
      BY <1>1, <3>1, <3>2, <3>3 DEF Arrays
    <3> QED
      BY <3>4
  <2> QED
    BY <2>1, <2>2
<1>3. PICK g \in BOOLEAN : /\ WithoutAt(a, i) = Marked(a, {i}, g)
                           /\ a.garbage => g
                           /\ a.values[i] # Deleted => g
  BY <1>2
<1>4. /\ Sound(Marked(a, {i}, g), n)
      /\ Mappings(Marked(a, {i}, g)) = {m \in Mappings(a) : \A j \in {i} : m[1] # a.keys[j]}
  <2>1. PICK D : D = {i}
    OBVIOUS
  <2>2. /\ \A j \in D : j \in 0 .. a.size - 1
        /\ \A j \in D : a.values[j] # Deleted => g
    BY <1>3, <2>1
  <2>3. /\ Sound(Marked(a, D, g), n)
        /\ Mappings(Marked(a, D, g)) = {m \in Mappings(a) : \A j \in D : m[1] # a.keys[j]}
    BY <1>3, <2>2, MarkedSound
  <2> QED
    BY <2>1, <2>3
<1>5. Marked(a, {i}, g).size = a.size /\ Marked(a, {i}, g).keys = a.keys
  BY DEF Marked
<1> QED
  BY <1>3, <1>4, <1>5

(***************************************************************************)
(* Searching, put and append.                                              *)
(***************************************************************************)

\* A key is found, or the place between the smaller keys and the greater.
LEMMA KeyLands ==
    ASSUME NEW a, NEW n, Sound(a, n), NEW k \in Keys
    PROVE  LET i == BinarySearch(a.keys, a.size, k)
           IN  \/ i \in 0 .. a.size - 1 /\ a.keys[i] = k
               \/ /\ i \in Int /\ i < 0 /\ Inv(i) \in 0 .. a.size
                  /\ \A j \in 0 .. Inv(i) - 1 : a.keys[j] < k
                  /\ \A j \in Inv(i) .. a.size - 1 : k < a.keys[j]
<1>1. a.size \in Nat /\ k \in Int
  BY SparseAssumption DEF Sound, Arrays
<1>2. \A j \in 0 .. a.size - 1 : a.keys[j] \in Int
  BY SparseAssumption DEF Sound
<1>3. \A j \in 1 .. a.size - 1 : a.keys[j - 1] <= a.keys[j]
  <2> SUFFICES ASSUME NEW j \in 1 .. a.size - 1
               PROVE  a.keys[j - 1] <= a.keys[j]
    OBVIOUS
  <2>1. j - 1 \in 0 .. a.size - 1 /\ j \in 0 .. a.size - 1 /\ j - 1 < j
    BY <1>1
  <2>2. a.keys[j - 1] < a.keys[j]
    BY <2>1 DEF Sound
  <2> QED
    BY <1>2, <2>1, <2>2
<1> QED
  BY <1>1, <1>2, <1>3, SearchLands

LEMMA PutSound ==
    ASSUME NEW a, NEW n, Sound(a, n), NEW k \in Keys, NEW v \in Values
    PROVE  \E m : Sound(WithPut(a, k, v), m) /\ Maps(WithPut(a, k, v), a, k, v)
<1> DEFINE i == BinarySearch(a.keys, a.size, k)
<1>1. \/ i \in 0 .. a.size - 1 /\ a.keys[i] = k
      \/ /\ i \in Int /\ i < 0 /\ Inv(i) \in 0 .. a.size
         /\ \A j \in 0 .. Inv(i) - 1 : a.keys[j] < k
         /\ \A j \in Inv(i) .. a.size - 1 : k < a.keys[j]
  BY KeyLands
<1>2. n \in Nat /\ a \in Arrays(n) /\ a.size \in 0 .. n /\ Capacity(a) = n /\ k \in Int
  BY CapacityIs, SparseAssumption DEF Sound, Arrays
<1>3. \A j \in 0 .. a.size - 1 : a.keys[j] \in Int
  BY SparseAssumption DEF Sound
<1>4. WithPut(a, k, v) =
        IF i >= 0 THEN [a EXCEPT !.values[i] = v]
        ELSE IF Inv(i) < a.size /\ a.values[Inv(i)] = Deleted
          THEN [a EXCEPT !.keys[Inv(i)] = k, !.values[Inv(i)] = v]
        ELSE IF Full(a)
          THEN InsertAt(Grown(Gc(a)), Inv(BinarySearch(Gc(a).keys, Gc(a).size, k)), k, v)
        ELSE InsertAt(Grown(a), Inv(i), k, v)
  BY DEF WithPut
<1> HIDE DEF i
<1>5. CASE i >= 0
  <2>1. i \in 0 .. a.size - 1 /\ a.keys[i] = k
    BY <1>1, <1>5
  <2>2. Sound([a EXCEPT !.values[i] = v], n) /\ Maps([a EXCEPT !.values[i] = v], a, k, v)
    BY <2>1, ReplaceSound
  <2> QED
    BY <1>4, <1>5, <2>2
<1>6. CASE ~(i >= 0)
  <2> DEFINE p == Inv(i)
  <2>1. /\ p \in 0 .. a.size
        /\ \A j \in 0 .. p - 1 : a.keys[j] < k
        /\ \A j \in p .. a.size - 1 : k < a.keys[j]
    BY <1>1, <1>2, <1>6
  <2> HIDE DEF p
  <2>2. CASE p < a.size /\ a.values[p] = Deleted
    <3>1. p \in 0 .. a.size - 1 /\ \A j \in p + 1 .. a.size - 1 : k < a.keys[j]
      BY <1>2, <2>1, <2>2
    <3>2. /\ Sound([a EXCEPT !.keys[p] = k, !.values[p] = v], n)
          /\ Maps([a EXCEPT !.keys[p] = k, !.values[p] = v], a, k, v)
      BY <2>1, <2>2, <3>1, StoreSound
    <3>3. WithPut(a, k, v) = [a EXCEPT !.keys[p] = k, !.values[p] = v]
      BY <1>4, <1>6, <2>2 DEF p
    <3> QED
      BY <3>2, <3>3
  <2>3. \A j \in 0 .. a.size - 1 : a.keys[j] # k
    <3> SUFFICES ASSUME NEW j \in 0 .. a.size - 1
                 PROVE  a.keys[j] # k
      OBVIOUS
    <3>1. a.keys[j] < k \/ k < a.keys[j]
      BY <1>2, <2>1
    <3> QED
      BY <1>2, <1>3, <3>1
  <2>4. a.size + 1 \in 0 .. LongestArray
    BY <2>3, RoomForOne
  <2>5. CASE ~(p < a.size /\ a.values[p] = Deleted) /\ Full(a)
    <3> DEFINE b == Gc(a)
               q == Inv(BinarySearch(b.keys, b.size, k))
    <3>1. Sound(b, n) /\ Mappings(b) = Mappings(a) /\ b.size <= a.size
      BY GcSound
    <3>2. \A m \in Mappings(a) : m[1] # k
      BY <2>3 DEF Mappings, Live
    <3>3. Live(b) = 0 .. b.size - 1
      BY GcSound
    <3>4. WithPut(a, k, v) = InsertAt(Grown(b), q, k, v)
      BY <1>4, <1>6, <2>5 DEF p
    <3>5. /\ \/ BinarySearch(b.keys, b.size, k) \in 0 .. b.size - 1
                /\ b.keys[BinarySearch(b.keys, b.size, k)] = k
             \/ /\ q \in 0 .. b.size
                /\ \A j \in 0 .. q - 1 : b.keys[j] < k
                /\ \A j \in q .. b.size - 1 : k < b.keys[j]
      <4> HIDE DEF b
      <4> QED
        BY <3>1, KeyLands
    <3> HIDE DEF b, q
    <3>6. \A j \in 0 .. b.size - 1 : b.keys[j] # k
      <4> SUFFICES ASSUME NEW j \in 0 .. b.size - 1
                   PROVE  b.keys[j] # k
        OBVIOUS
      <4>1. <<b.keys[j], b.values[j]>> \in Mappings(b)
        BY <3>3 DEF Mappings
      <4>2. <<b.keys[j], b.values[j]>>[1] # k
        BY <3>1, <3>2, <4>1
      <4> QED
        BY <4>2
    <3>7. /\ q \in 0 .. b.size
          /\ \A j \in 0 .. q - 1 : b.keys[j] < k
          /\ \A j \in q .. b.size - 1 : k < b.keys[j]
      BY <3>5, <3>6
    <3>8. b.size \in Nat /\ b.size + 1 \in 0 .. LongestArray
      <4>1. b.size \in Nat
        BY <3>1 DEF Sound, Arrays
      <4>2. LongestArray \in Int
        BY DEF LongestArray
      <4> QED
        BY <1>2, <2>4, <3>1, <4>1, <4>2
    <3>9. PICK m : /\ Sound(Grown(b), m) /\ b.size < m
                   /\ Grown(b).size = b.size
                   /\ \A j \in 0 .. b.size - 1 : Grown(b).keys[j] = b.keys[j]
                   /\ Mappings(Grown(b)) = Mappings(b)
      BY <3>1, <3>8, GrownSound
    <3> DEFINE c == Grown(b)
    <3> HIDE DEF c
    <3>10. /\ \A j \in 0 .. q - 1 : c.keys[j] < k
           /\ \A j \in q .. c.size - 1 : k < c.keys[j]
      BY <3>7, <3>8, <3>9 DEF c
    <3>11. Sound(InsertAt(c, q, k, v), m) /\ Maps(InsertAt(c, q, k, v), c, k, v)
      BY <3>7, <3>9, <3>10, InsertSound DEF c
    <3> QED
      BY <3>1, <3>4, <3>9, <3>11 DEF Maps, c
  <2>6. CASE ~(p < a.size /\ a.values[p] = Deleted) /\ ~Full(a)
    <3>1. WithPut(a, k, v) = InsertAt(Grown(a), p, k, v)
      BY <1>4, <1>6, <2>6 DEF p
    <3>2. PICK m : /\ Sound(Grown(a), m) /\ a.size < m
                   /\ Grown(a).size = a.size
                   /\ \A j \in 0 .. a.size - 1 : Grown(a).keys[j] = a.keys[j]
                   /\ Mappings(Grown(a)) = Mappings(a)
      BY <2>4, GrownSound
    <3> DEFINE c == Grown(a)
    <3> HIDE DEF c
    <3>3. /\ \A j \in 0 .. p - 1 : c.keys[j] < k
          /\ \A j \in p .. c.size - 1 : k < c.keys[j]
      BY <1>2, <2>1, <3>2 DEF c
    <3>4. Sound(InsertAt(c, p, k, v), m) /\ Maps(InsertAt(c, p, k, v), c, k, v)
      BY <2>1, <3>2, <3>3, InsertSound DEF c
    <3> QED
      BY <3>1, <3>2, <3>4 DEF Maps, c
  <2> QED
    BY <2>2, <2>5, <2>6
<1> QED
  BY <1>5, <1>6

LEMMA AppendSound ==
    ASSUME NEW a, NEW n, Sound(a, n), NEW k \in Keys, NEW v \in Values
    PROVE  \E m : Sound(WithAppended(a, k, v), m) /\ Maps(WithAppended(a, k, v), a, k, v)
<1>1. n \in Nat /\ a \in Arrays(n) /\ a.size \in 0 .. n /\ Capacity(a) = n /\ k \in Int
  BY CapacityIs, SparseAssumption DEF Sound, Arrays
<1>2. \A j \in 0 .. a.size - 1 : a.keys[j] \in Int
  BY SparseAssumption DEF Sound
<1>3. CASE a.size # 0 /\ k <= a.keys[a.size - 1]
  <2>1. WithAppended(a, k, v) = WithPut(a, k, v)
    BY <1>3 DEF WithAppended
  <2> QED
    BY <2>1, PutSound
<1>4. CASE ~(a.size # 0 /\ k <= a.keys[a.size - 1])
  <2> DEFINE b == IF Full(a) THEN Gc(a) ELSE a
  <2>1. \A j \in 0 .. a.size - 1 : a.keys[j] < k
    <3> SUFFICES ASSUME NEW j \in 0 .. a.size - 1
                 PROVE  a.keys[j] < k
      OBVIOUS
    <3>1. a.size - 1 \in 0 .. a.size - 1 /\ a.keys[a.size - 1] < k
      BY <1>1, <1>2, <1>4
    <3>2. j = a.size - 1 \/ a.keys[j] < a.keys[a.size - 1]
      BY <1>1, <3>1 DEF Sound
    <3>3. a.keys[j] \in Int /\ a.keys[a.size - 1] \in Int
      BY <1>2, <3>1
    <3> QED
      BY <1>1, <3>1, <3>2, <3>3
  <2>2. WithAppended(a, k, v) = InsertAt(Grown(b), b.size, k, v)
    BY <1>4 DEF WithAppended
  <2>3. Sound(b, n) /\ Mappings(b) = Mappings(a) /\ b.size <= a.size
    BY <1>1, GcSound
  <2>4. \A j \in 0 .. b.size - 1 : b.keys[j] < k
    <3>1. CASE Full(a)
      <4> SUFFICES ASSUME NEW j \in 0 .. b.size - 1
                   PROVE  b.keys[j] < k
        OBVIOUS
      <4>1. Live(b) = 0 .. b.size - 1
        BY <3>1, GcSound
      <4>2. <<b.keys[j], b.values[j]>> \in Mappings(b)
        <5> HIDE DEF b
        <5> QED
          BY <4>1 DEF Mappings
      <4>3. PICK l \in Live(a) : <<b.keys[j], b.values[j]>> = <<a.keys[l], a.values[l]>>
        <5> HIDE DEF b
        <5> QED
          BY <2>3, <4>2 DEF Mappings
      <4>4. b.keys[j] = a.keys[l] /\ l \in 0 .. a.size - 1
        <5> HIDE DEF b
        <5> QED
          BY <4>3 DEF Live
      <4> HIDE DEF b
      <4> QED
        BY <2>1, <4>4
    <3>2. CASE ~Full(a)
      BY <2>1, <3>2
    <3> QED
      BY <3>1, <3>2
  <2>5. a.size + 1 \in 0 .. LongestArray
    <3>1. \A j \in 0 .. a.size - 1 : a.keys[j] # k
      BY <1>1, <1>2, <2>1
    <3> QED
      BY <3>1, RoomForOne
  <2> HIDE DEF b
  <2>6. b.size \in Nat /\ b.size + 1 \in 0 .. LongestArray
    <3>1. b.size \in Nat
      BY <2>3 DEF Sound, Arrays
    <3>2. LongestArray \in Int
      BY DEF LongestArray
    <3> QED
      BY <1>1, <2>3, <2>5, <3>1, <3>2
  <2>7. PICK m : /\ Sound(Grown(b), m) /\ b.size < m
                 /\ Grown(b).size = b.size
                 /\ \A j \in 0 .. b.size - 1 : Grown(b).keys[j] = b.keys[j]
                 /\ Mappings(Grown(b)) = Mappings(b)
    BY <2>3, <2>6, GrownSound
  <2> DEFINE c == Grown(b)
             q == b.size
  <2> HIDE DEF c, q
  <2>8. /\ q \in 0 .. c.size
        /\ \A j \in 0 .. q - 1 : c.keys[j] < k
        /\ \A j \in q .. c.size - 1 : k < c.keys[j]
    BY <2>4, <2>6, <2>7 DEF c, q
  <2>9. Sound(InsertAt(c, q, k, v), m) /\ Maps(InsertAt(c, q, k, v), c, k, v)
    BY <2>7, <2>8, InsertSound DEF c
  <2> QED
    BY <2>2, <2>3, <2>7, <2>9 DEF Maps, c, q
<1> QED
  BY <1>3, <1>4

(***************************************************************************)
(* The invariant.                                                          *)
(***************************************************************************)

\* What the caller was shown is still at its index, marked or not.
ShownInv ==
    /\ shown \in Seq(Keys)
    /\ Len(shown) <= self.size
    /\ \A i \in 1 .. Len(shown) : self.keys[i - 1] = shown[i]

IInv == (\E n : Sound(self, n)) /\ ShownInv

LEMMA InitInv == Init => IInv /\ Contents = {}
<1> SUFFICES ASSUME Init
             PROVE  IInv /\ Contents = {}
  OBVIOUS
<1>1. PICK n : n = IF InitialCapacity = 0 THEN 0 ELSE IdealIntArraySize(InitialCapacity)
  OBVIOUS
<1>2. n \in Nat
  BY <1>1, SparseAssumption, LengthFits
<1>3. /\ self = [keys |-> [i \in 0 .. n - 1 |-> 0], values |-> [i \in 0 .. n - 1 |-> Null],
                 garbage |-> FALSE, size |-> 0]
      /\ shown = <<>>
  BY <1>1 DEF Init
<1>4. Sound(self, n)
  <2>1. self \in Arrays(n)
    BY <1>2, <1>3 DEF Arrays
  <2> QED
    BY <1>2, <1>3, <2>1 DEF Sound
<1>5. ShownInv
  BY <1>3 DEF ShownInv
<1>6. Contents = {}
  BY <1>3 DEF Contents, Live
<1> QED
  BY <1>4, <1>5, <1>6 DEF IInv

\* After a put the caller knows nothing of the indices.
LEMMA NothingShown ==
    ASSUME NEW b, self' = b, shown' = <<>>, NEW n, Sound(b, n)
    PROVE  IInv'
<1>1. self'.size \in Nat
  BY DEF Sound, Arrays
<1>2. ShownInv'
  BY <1>1 DEF ShownInv
<1> QED
  BY <1>2 DEF IInv

\* A call that compacts shows the keys, and may then change values.
LEMMA KeysShown ==
    ASSUME NEW a, NEW n, Sound(a, n), NEW b, Sound(b, n), b.keys = a.keys, b.size = a.size,
           self' = b, Shows(a)
    PROVE  IInv'
<1>1. a.size \in Nat /\ \A i \in 1 .. a.size : a.keys[i - 1] \in Keys
  BY DEF Sound, Arrays
<1>2. shown' = [i \in 1 .. a.size |-> a.keys[i - 1]]
  BY DEF Shows
<1>3. shown' \in Seq(Keys) /\ Len(shown') = a.size
  BY <1>1, <1>2
<1>4. ShownInv'
  BY <1>1, <1>2, <1>3 DEF ShownInv
<1> QED
  BY <1>4 DEF IInv

\* Marking leaves what was shown where it is.
LEMMA StillShown ==
    ASSUME IInv, NEW n, NEW b, Sound(b, n), b.keys = self.keys, b.size = self.size,
           self' = b, UNCHANGED shown
    PROVE  IInv'
<1>1. ShownInv'
  BY DEF ShownInv, IInv
<1> QED
  BY <1>1 DEF IInv

\* Compaction when there is garbage.
LEMMA CompactedSound ==
    ASSUME NEW a, NEW n, Sound(a, n)
    PROVE  /\ Sound(Compacted(a), n) /\ Mappings(Compacted(a)) = Mappings(a)
           /\ Live(Compacted(a)) = 0 .. Compacted(a).size - 1
<1>1. CASE a.garbage
  BY <1>1, GcSound DEF Compacted
<1>2. CASE ~a.garbage
  <2>1. Compacted(a) = a
    BY <1>2 DEF Compacted
  <2>2. Live(a) = 0 .. a.size - 1
    BY <1>2 DEF Sound, Live
  <2> QED
    BY <2>1, <2>2
<1> QED
  BY <1>1, <1>2

LEMMA ContentsAre == Contents = Mappings(self) /\ Contents' = Mappings(self)'
BY DEF Contents, Mappings

(***************************************************************************)
(* One step per action: the invariant is kept, and the step is one of the  *)
(* map's.                                                                  *)
(***************************************************************************)

LEMMA PutStep ==
    ASSUME IInv, NEW k \in Keys, NEW v \in Values, Put(k, v) \/ AppendMapping(k, v)
    PROVE  IInv' /\ Map!Put(k, v)
<1>1. PICK n : Sound(self, n)
  BY DEF IInv
<1>2. PICK b : /\ self' = b /\ shown' = <<>>
               /\ b = WithPut(self, k, v) \/ b = WithAppended(self, k, v)
  BY DEF Put, AppendMapping
<1>3. PICK m : Sound(b, m) /\ Maps(b, self, k, v)
  BY <1>1, <1>2, PutSound, AppendSound
<1>4. IInv'
  BY <1>2, <1>3, NothingShown
<1>5. Contents' = Mappings(b)
  BY <1>2 DEF Contents, Mappings
<1> QED
  BY <1>3, <1>4, <1>5, ContentsAre DEF Map!Put, Maps

LEMMA RemoveStep ==
    ASSUME IInv, NEW k \in Keys, Remove(k)
    PROVE  IInv' /\ Map!Erase
<1>1. PICK n : Sound(self, n)
  BY DEF IInv
<1> DEFINE i == BinarySearch(self.keys, self.size, k)
           b == WithoutAt(self, i)
<1>2. i >= 0 /\ self' = b /\ UNCHANGED shown
  BY DEF Remove
<1>3. i \in 0 .. self.size - 1
  BY <1>1, <1>2, KeyLands
<1> HIDE DEF i
<1>4. /\ Sound(b, n) /\ Mappings(b) = {m \in Mappings(self) : m[1] # self.keys[i]}
      /\ b.size = self.size /\ b.keys = self.keys
  BY <1>1, <1>3, WithoutAtSound
<1> HIDE DEF b
<1>5. IInv'
  BY <1>2, <1>4, StillShown
<1>6. Contents' = Mappings(b)
  BY <1>2 DEF Contents, Mappings
<1> QED
  BY <1>4, <1>5, <1>6, ContentsAre DEF Map!Erase

\* What remove and replace of a mapping do to the compacted arrays a.
LEMMA ChangeStep ==
    ASSUME NEW a, NEW n, Sound(a, n), Mappings(a) = Contents, Shows(a),
           NEW k \in Keys, NEW v \in Values, NEW i, i = BinarySearch(a.keys, a.size, k),
           \/ self' = a
           \/ i >= 0 /\ self' = WithoutAt(a, i)
           \/ i >= 0 /\ self' = [a EXCEPT !.values[i] = v]
    PROVE  IInv' /\ (Map!Put(k, v) \/ Map!Erase)
<1>1. CASE self' = a
  <2>1. IInv'
    BY <1>1, KeysShown
  <2>2. Contents' = Contents
    BY <1>1, ContentsAre
  <2> QED
    BY <2>1, <2>2 DEF Map!Erase
<1>2. i >= 0 => i \in 0 .. a.size - 1 /\ a.keys[i] = k
  BY KeyLands
<1>3. CASE i >= 0 /\ self' = WithoutAt(a, i)
  <2>1. PICK b : b = WithoutAt(a, i)
    OBVIOUS
  <2>2. /\ Sound(b, n) /\ Mappings(b) = {m \in Mappings(a) : m[1] # a.keys[i]}
        /\ b.size = a.size /\ b.keys = a.keys
    BY <1>2, <1>3, <2>1, WithoutAtSound
  <2>3. IInv'
    BY <1>3, <2>1, <2>2, KeysShown
  <2>4. Contents' = Mappings(b)
    BY <1>3, <2>1 DEF Contents, Mappings
  <2> QED
    BY <2>2, <2>3, <2>4 DEF Map!Erase
<1>4. CASE i >= 0 /\ self' = [a EXCEPT !.values[i] = v]
  <2>1. PICK b : b = [a EXCEPT !.values[i] = v]
    OBVIOUS
  <2>2. /\ Sound(b, n) /\ Maps(b, a, k, v)
        /\ b.size = a.size /\ b.keys = a.keys
    BY <1>2, <1>4, <2>1, ReplaceSound
  <2>3. IInv'
    BY <1>4, <2>1, <2>2, KeysShown
  <2>4. Contents' = Mappings(b)
    BY <1>4, <2>1 DEF Contents, Mappings
  <2> QED
    BY <2>2, <2>3, <2>4 DEF Map!Put, Maps
<1> QED
  BY <1>1, <1>3, <1>4

LEMMA MappedStep ==
    ASSUME IInv, NEW k \in Keys, NEW v \in Values,
           \/ RemoveMapped(k, v) \/ Replace(k, v)
           \/ \E old \in Values : ReplaceMapped(k, old, v)
    PROVE  IInv' /\ (Map!Put(k, v) \/ Map!Erase)
<1>1. PICK n : Sound(self, n)
  BY DEF IInv
<1>2. PICK a : a = Compacted(self)
  OBVIOUS
<1>3. Sound(a, n) /\ Mappings(a) = Contents
  BY <1>1, <1>2, CompactedSound, ContentsAre
<1>4. PICK i : i = BinarySearch(a.keys, a.size, k)
  OBVIOUS
<1>5. /\ Shows(a)
      /\ \/ self' = a
         \/ i >= 0 /\ self' = WithoutAt(a, i)
         \/ i >= 0 /\ self' = [a EXCEPT !.values[i] = v]
  BY <1>2, <1>4 DEF RemoveMapped, Replace, ReplaceMapped
<1> QED
  BY <1>3, <1>4, <1>5, ChangeStep

\* removeAt of an index takes out the mapping of the key there.
LEMMA RemoveAtStep ==
    ASSUME IInv, NEW i \in Indices, RemoveAt(i)
    PROVE  IInv' /\ Contents' = {m \in Contents : m[1] # self.keys[i]}
<1>1. PICK n : Sound(self, n)
  BY DEF IInv
<1>2. PICK b : b = WithoutAt(self, i) /\ self' = b /\ UNCHANGED shown
  BY DEF RemoveAt
<1>3. /\ Sound(b, n) /\ Mappings(b) = {m \in Mappings(self) : m[1] # self.keys[i]}
      /\ b.size = self.size /\ b.keys = self.keys
  BY <1>1, <1>2, WithoutAtSound DEF Indices
<1>4. IInv'
  BY <1>2, <1>3, StillShown
<1>5. Contents' = Mappings(b)
  BY <1>2 DEF Contents, Mappings
<1> QED
  BY <1>3, <1>4, <1>5, ContentsAre

LEMMA RemoveAtRangeStep ==
    ASSUME IInv, NEW i \in Indices, NEW c \in 1 .. self.size, RemoveAtRange(i, c)
    PROVE  IInv' /\ Map!Erase
<1>1. PICK n : Sound(self, n)
  BY DEF IInv
<1>2. n \in Nat /\ self \in Arrays(n) /\ self.size \in Nat /\ self.garbage \in BOOLEAN
  BY <1>1 DEF Sound, Arrays
<1> DEFINE D == {j \in i .. c - 1 : self.values[j] # Deleted}
           g == self.garbage \/ D # {}
           W == [j \in DOMAIN self.values |-> IF j \in D THEN Deleted ELSE self.values[j]]
<1>3. /\ self' = [self EXCEPT !.values = W, !.garbage = g]
      /\ i + c <= self.size /\ UNCHANGED shown
  BY DEF RemoveAtRange
<1>4. \A j \in D : j \in 0 .. self.size - 1
  BY <1>2, <1>3 DEF Indices
<1>5. g \in BOOLEAN /\ (self.garbage => g) /\ \A j \in D : self.values[j] # Deleted => g
  OBVIOUS
<1>6. Marked(self, D, g) = [keys |-> self.keys, values |-> W, garbage |-> g, size |-> self.size]
  BY DEF Marked
<1> HIDE DEF W, D, g
<1>7. self' = Marked(self, D, g)
  <2>1. PICK a, b, V, h : a = self /\ b = self' /\ V = W /\ h = g
    OBVIOUS
  <2>2. a \in Arrays(n) /\ h \in BOOLEAN /\ b = [a EXCEPT !.values = V, !.garbage = h]
    BY <1>2, <1>3, <1>5, <2>1
  <2>3. b = [keys |-> a.keys, values |-> V, garbage |-> h, size |-> a.size]
    BY <1>2, <2>2 DEF Arrays
  <2> QED
    BY <1>6, <2>1, <2>3
<1>8. /\ Sound(Marked(self, D, g), n)
      /\ Mappings(Marked(self, D, g)) = {m \in Mappings(self) : \A j \in D : m[1] # self.keys[j]}
  BY <1>1, <1>4, <1>5, MarkedSound
<1>9. Marked(self, D, g).keys = self.keys /\ Marked(self, D, g).size = self.size
  BY <1>6
<1>10. IInv'
  BY <1>3, <1>7, <1>8, <1>9, StillShown
<1>11. Contents' = Mappings(Marked(self, D, g))
  BY <1>7, ContentsAre DEF Mappings, Live
<1> QED
  BY <1>8, <1>10, <1>11, ContentsAre DEF Map!Erase

LEMMA SetValueAtStep ==
    ASSUME IInv, NEW i \in Indices, NEW v \in Values, SetValueAt(i, v)
    PROVE  IInv' /\ \E k \in Keys : Map!Put(k, v)
<1>1. PICK n : Sound(self, n)
  BY DEF IInv
<1>2. PICK a : a = Compacted(self)
  OBVIOUS
<1>3. Sound(a, n) /\ Mappings(a) = Contents
  BY <1>1, <1>2, CompactedSound, ContentsAre
<1>4. PICK b : b = [a EXCEPT !.values[i] = v]
  OBVIOUS
<1>5. i < a.size /\ self' = b /\ Shows(a)
  BY <1>2, <1>4 DEF SetValueAt
<1>6. i \in 0 .. a.size - 1 /\ a.keys[i] \in Keys
  BY <1>1, <1>3, <1>5 DEF Indices, Sound, Arrays
<1>7. /\ Sound(b, n) /\ Maps(b, a, a.keys[i], v)
      /\ b.size = a.size /\ b.keys = a.keys
  BY <1>3, <1>4, <1>6, ReplaceSound
<1>8. IInv'
  BY <1>3, <1>5, <1>7, KeysShown
<1>9. Contents' = Mappings(b)
  BY <1>5 DEF Contents, Mappings
<1> QED
  BY <1>3, <1>6, <1>7, <1>8, <1>9 DEF Map!Put, Maps

LEMMA LookStep ==
    ASSUME IInv, Look
    PROVE  IInv' /\ Map!Erase
<1>1. PICK n : Sound(self, n)
  BY DEF IInv
<1>2. PICK a : a = Compacted(self)
  OBVIOUS
<1>3. Sound(a, n) /\ Mappings(a) = Contents
  BY <1>1, <1>2, CompactedSound, ContentsAre
<1>4. self' = a /\ Shows(a)
  BY <1>2 DEF Look
<1>5. IInv'
  BY <1>3, <1>4, KeysShown
<1>6. Contents' = Contents
  BY <1>3, <1>4, ContentsAre
<1> QED
  BY <1>5, <1>6 DEF Map!Erase

LEMMA ClearStep ==
    ASSUME IInv, Clear
    PROVE  IInv' /\ Map!Erase
<1>1. PICK n : Sound(self, n)
  BY DEF IInv
<1>2. n \in Nat /\ self \in Arrays(n)
  BY <1>1 DEF Sound
<1> DEFINE W == [i \in 0 .. n - 1 |-> IF i < self.size THEN Null ELSE self.values[i]]
<1>3. self' = [self EXCEPT !.values = W, !.size = 0, !.garbage = FALSE] /\ shown' = <<>>
  BY <1>2, CapacityIs DEF Clear
<1>4. W \in [0 .. n - 1 -> Values \cup {Null, Deleted}] /\ \A i \in 0 .. n - 1 : W[i] \in {Null, Deleted}
  <2>1. \A i \in 0 .. n - 1 : i >= self.size => self.values[i] \in {Null, Deleted}
    BY <1>1 DEF Sound
  <2>2. self.size \in Nat
    BY <1>2 DEF Arrays
  <2>3. \A i \in 0 .. n - 1 : W[i] \in {Null, Deleted}
    BY <2>1, <2>2
  <2> HIDE DEF W
  <2>4. \A i \in 0 .. n - 1 : W[i] \in Values \cup {Null, Deleted}
    BY <2>3
  <2> QED
    BY <2>3, <2>4 DEF W
<1> HIDE DEF W
<1> DEFINE b == [keys |-> self.keys, values |-> W, garbage |-> FALSE, size |-> 0]
<1>5. self' = b
  BY <1>2, <1>3 DEF Arrays
<1>6. b \in Arrays(n) /\ b.size = 0 /\ b.garbage = FALSE /\ b.values = W
  BY <1>2, <1>4 DEF Arrays
<1> HIDE DEF b
<1>7. Sound(b, n)
  BY <1>2, <1>4, <1>6 DEF Sound
<1>8. IInv'
  BY <1>3, <1>5, <1>7, NothingShown
<1>9. Contents' = {}
  BY <1>5, <1>6 DEF Contents, Live
<1> QED
  BY <1>8, <1>9 DEF Map!Erase

LEMMA Step ==
    ASSUME IInv, [Next]_vars
    PROVE  IInv' /\ [Map!Next]_Contents
<1>1. CASE UNCHANGED vars
  <2>1. self' = self /\ shown' = shown
    BY <1>1 DEF vars
  <2>2. Contents' = Contents
    BY <2>1 DEF Contents, Live
  <2>3. IInv'
    BY <2>1 DEF IInv, ShownInv
  <2> QED
    BY <2>2, <2>3
<1>2. ASSUME NEW k \in Keys, NEW v \in Values, Put(k, v) \/ PutIfAbsent(k, v) \/ AppendMapping(k, v)
      PROVE  IInv' /\ [Map!Next]_Contents
  BY <1>2, PutStep DEF PutIfAbsent, Map!Next
<1>3. ASSUME NEW k \in Keys, NEW v \in Values,
             \/ RemoveMapped(k, v) \/ Replace(k, v)
             \/ \E old \in Values : ReplaceMapped(k, old, v)
      PROVE  IInv' /\ [Map!Next]_Contents
  BY <1>3, MappedStep DEF Map!Next
<1>4. ASSUME NEW k \in Keys, Remove(k)
      PROVE  IInv' /\ [Map!Next]_Contents
  BY <1>4, RemoveStep DEF Map!Next
<1>5. ASSUME NEW i \in Indices, RemoveAt(i)
      PROVE  IInv' /\ [Map!Next]_Contents
  BY <1>5, RemoveAtStep DEF Map!Next, Map!Erase
<1>6. ASSUME NEW i \in Indices, NEW c \in 1 .. self.size, RemoveAtRange(i, c)
      PROVE  IInv' /\ [Map!Next]_Contents
  BY <1>6, RemoveAtRangeStep DEF Map!Next
<1>7. ASSUME NEW i \in Indices, NEW v \in Values, SetValueAt(i, v)
      PROVE  IInv' /\ [Map!Next]_Contents
  BY <1>7, SetValueAtStep DEF Map!Next
<1>8. CASE Look \/ Clear
  BY <1>8, LookStep, ClearStep DEF Map!Next
<1> QED
  BY <1>1, <1>2, <1>3, <1>4, <1>5, <1>6, <1>7, <1>8 DEF Next

(***************************************************************************)
(* The theorems.                                                           *)
(***************************************************************************)

LEMMA Always == Spec => []IInv
<1>1. Init => IInv
  BY InitInv
<1>2. IInv /\ [Next]_vars => IInv'
  BY Step
<1> QED
  BY <1>1, <1>2, PTL DEF Spec

\* The fields keep their types and the two arrays one length, through growth
\* and compaction.
THEOREM TypeCorrect == Spec => []TypeOK
<1>1. IInv => TypeOK
  <2> SUFFICES ASSUME IInv
               PROVE  TypeOK
    OBVIOUS
  <2>1. PICK n : Sound(self, n)
    BY DEF IInv
  <2>2. n \in Nat /\ self \in Arrays(n)
    BY <2>1 DEF Sound
  <2>3. DOMAIN self.keys = 0 .. n - 1 /\ Cardinality(0 .. n - 1) = n
    BY <2>2, CapacityIs, FS_Interval
  <2>4. /\ self.keys \in [0 .. n - 1 -> Int]
        /\ self.values \in [0 .. n - 1 -> Values \cup {Null, Deleted}]
        /\ self.garbage \in BOOLEAN /\ self.size \in 0 .. n
    BY <2>2 DEF Arrays
  <2>5. shown \in Seq(Keys)
    BY DEF IInv, ShownInv
  <2> QED
    BY <2>3, <2>4, <2>5 DEF TypeOK
<1> QED
  BY <1>1, Always, PTL

\* The keys ascend, a removed mapping is never left to a call that reads at an
\* index, and behind the mappings no value is held: put over a removed place,
\* append, growth and compaction, in any order.
THEOREM ArraysStaySound == Spec => []ArraysAreSound
<1>1. IInv => ArraysAreSound
  <2> SUFFICES ASSUME IInv
               PROVE  ArraysAreSound
    OBVIOUS
  <2>1. PICK n : Sound(self, n)
    BY DEF IInv
  <2>2. n \in Nat /\ self \in Arrays(n) /\ self.size \in 0 .. n /\ self.garbage \in BOOLEAN
    BY <2>1 DEF Sound, Arrays
  <2>3. KeysAscend
    <3> SUFFICES ASSUME NEW i \in 1 .. self.size - 1
                 PROVE  self.keys[i - 1] < self.keys[i]
      BY DEF KeysAscend
    <3>1. i - 1 \in 0 .. self.size - 1 /\ i \in 0 .. self.size - 1 /\ i - 1 < i
      BY <2>2
    <3> QED
      BY <2>1, <3>1 DEF Sound
  <2>4. RemovedIsGarbage
    <3> SUFFICES ASSUME ~self.garbage
                 PROVE  ~(Cardinality(Live(self)) < self.size)
      BY DEF RemovedIsGarbage
    <3>1. Live(self) = 0 .. self.size - 1
      BY <2>1 DEF Sound, Live
    <3>2. Cardinality(0 .. self.size - 1) = self.size
      <4>1. self.size \in Nat
        BY <2>2
      <4> QED
        BY <4>1, FS_Interval
    <3> QED
      BY <2>2, <3>1, <3>2
  <2>5. ReleasesValues
    <3>1. DOMAIN self.values = 0 .. n - 1
      BY <2>2, CapacityIs
    <3> QED
      BY <2>1, <3>1 DEF ReleasesValues, Sound
  <2> QED
    BY <2>3, <2>4, <2>5 DEF ArraysAreSound
<1> QED
  BY <1>1, Always, PTL

\* The binary search finds every key that is mapped, and its value is that of
\* the mapping; of a key that was removed get returns the default, also while
\* the removal is pending.
THEOREM FindsWhatIsMapped == Spec => []FindsExactly
<1>1. IInv => FindsExactly
  <2> SUFFICES ASSUME IInv, NEW k \in Keys
               PROVE  LET mapped == {m \in Contents : m[1] = k}
                      IN  IF mapped = {} THEN Get(self, k) = Null ELSE mapped = {<<k, Get(self, k)>>}
    BY DEF FindsExactly
  <2> DEFINE mapped == {m \in Contents : m[1] = k}
  <2>1. PICK n : Sound(self, n)
    BY DEF IInv
  <2>2. n \in Nat /\ self \in Arrays(n) /\ self.size \in Nat
    BY <2>1 DEF Sound, Arrays
  <2>3. PICK i : i = BinarySearch(self.keys, self.size, k)
    OBVIOUS
  <2>4. \/ i \in 0 .. self.size - 1 /\ self.keys[i] = k
        \/ /\ i \in Int /\ i < 0 /\ Inv(i) \in 0 .. self.size
           /\ \A j \in 0 .. Inv(i) - 1 : self.keys[j] < k
           /\ \A j \in Inv(i) .. self.size - 1 : k < self.keys[j]
    BY <2>1, <2>3, KeyLands
  <2>5. Get(self, k) = IF i < 0 \/ self.values[i] = Deleted THEN Null ELSE self.values[i]
    BY <2>3 DEF Get
  <2>6. \A j \in 0 .. self.size - 1 : self.keys[j] \in Int
    BY <2>1, SparseAssumption DEF Sound
  <2>7. \A m \in mapped : \E j \in 0 .. self.size - 1 :
           /\ self.keys[j] = k /\ self.values[j] # Deleted
           /\ m = <<k, self.values[j]>>
    BY DEF Contents, Live
  <2>8. CASE i \in 0 .. self.size - 1 /\ self.keys[i] = k
    <3>1. \A j \in 0 .. self.size - 1 : self.keys[j] = k => j = i
      <4> SUFFICES ASSUME NEW j \in 0 .. self.size - 1, self.keys[j] = k, j # i
                   PROVE  FALSE
        OBVIOUS
      <4>1. j < i \/ i < j
        BY <2>2, <2>8
      <4>2. self.keys[j] < self.keys[i] \/ self.keys[i] < self.keys[j]
        BY <2>1, <2>8, <4>1 DEF Sound
      <4> QED
        BY <2>6, <2>8, <4>2
    <3>2. CASE self.values[i] = Deleted
      BY <2>5, <2>7, <3>1, <3>2
    <3>3. CASE self.values[i] # Deleted
      <4>1. <<k, self.values[i]>> \in mapped
        BY <2>8, <3>3 DEF Contents, Live
      <4>2. Get(self, k) = self.values[i]
        BY <2>2, <2>5, <2>8, <3>3
      <4> QED
        BY <2>7, <3>1, <4>1, <4>2
    <3> QED
      BY <3>2, <3>3
  <2>9. CASE /\ i \in Int /\ i < 0 /\ Inv(i) \in 0 .. self.size
             /\ \A j \in 0 .. Inv(i) - 1 : self.keys[j] < k
             /\ \A j \in Inv(i) .. self.size - 1 : k < self.keys[j]
    <3>1. ASSUME NEW j \in 0 .. self.size - 1
          PROVE  self.keys[j] # k
      <4>1. k \in Int /\ self.keys[j] \in Int
        BY <2>6, SparseAssumption
      <4>2. j \in 0 .. Inv(i) - 1 \/ j \in Inv(i) .. self.size - 1
        BY <2>2, <2>9
      <4> QED
        BY <2>9, <4>1, <4>2
    <3>2. mapped = {}
      BY <2>7, <3>1
    <3> QED
      BY <2>5, <2>9, <3>2
  <2> QED
    BY <2>4, <2>8, <2>9
<1> QED
  BY <1>1, Always, PTL

\* An index that was shown still means its key, whatever was removed since:
\* removeAt takes out the mapping of the key the caller saw there.
THEOREM RemovesWhatWasShown == Spec => RemovesShown
<1>1. IInv => \A i \in Indices : RemoveAt(i) /\ i < Len(shown)
                 => Contents' = {m \in Contents : m[1] # shown[i + 1]}
  <2> SUFFICES ASSUME IInv, NEW i \in Indices, RemoveAt(i), i < Len(shown)
               PROVE  Contents' = {m \in Contents : m[1] # shown[i + 1]}
    OBVIOUS
  <2>1. Contents' = {m \in Contents : m[1] # self.keys[i]}
    BY RemoveAtStep
  <2>2. self.keys[i] = shown[i + 1]
    <3>1. Len(shown) \in Nat
      BY DEF IInv, ShownInv
    <3>2. i + 1 \in 1 .. Len(shown) /\ (i + 1) - 1 = i
      BY <3>1 DEF Indices
    <3> QED
      BY <3>2 DEF IInv, ShownInv
  <2> QED
    BY <2>1, <2>2
<1> QED
  BY <1>1, Always, PTL DEF RemovesShown

\* The arrays implement the map: every call puts the mapping it names or takes
\* mappings out, and compacting or growing changes none.
THEOREM ArraysAreMap == Spec => ImplementsMap
<1>1. Init => Map!Init
  BY InitInv DEF Map!Init
<1>2. IInv /\ [Next]_vars => [Map!Next]_Contents
  BY Step
<1> QED
  BY <1>1, <1>2, Always, PTL DEF Spec, ImplementsMap, Map!Spec
=============================================================================
