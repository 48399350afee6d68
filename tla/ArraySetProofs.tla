---------------------------- MODULE ArraySetProofs ----------------------------
(***************************************************************************)
(* That the arrays of ArraySet are in order, find what they hold and       *)
(* implement the set, and that an iterator which removes returns each      *)
(* element once, for any elements, hashes and capacities.                  *)
(***************************************************************************)
EXTENDS ArraySet, ProofFacts

\* The inductive invariant of the arrays h and a of length n, with s elements:
\* ArraysAreSound with the types, and that no element is there twice.
Sound(h, a, s, n) ==
    /\ n \in Nat /\ s \in 0 .. n
    /\ h \in [0 .. n - 1 -> Int]
    /\ a \in [0 .. n - 1 -> Elements \cup {Null}]
    /\ \A i \in 0 .. s - 1 : a[i] \in Elements /\ h[i] = HashOf[a[i]]
    /\ \A i, j \in 0 .. s - 1 : i <= j => h[i] <= h[j]
    /\ \A i, j \in 0 .. s - 1 : i # j => a[i] # a[j]
    /\ \A i \in 0 .. n - 1 : i >= s => a[i] = Null

\* The elements from index i on: Contents is Rest(array, 0, size).
Rest(a, i, s) == {a[j] : j \in i .. s - 1}

\* b is f with x in the place i and what was there moved up, or without the
\* element at i, with s elements counted in f.
Takes(b, f, i, s, x) ==
    /\ b[i] = x
    /\ \A j \in 0 .. i - 1 : b[j] = f[j]
    /\ \A j \in i + 1 .. s : b[j] = f[j - 1]

Loses(b, f, i, s) ==
    /\ \A j \in 0 .. i - 1 : b[j] = f[j]
    /\ \A j \in i .. s - 2 : b[j] = f[j + 1]

\* f holds x from index i up to n.
Fills(f, i, n, x) == \A j \in i .. n - 1 : f[j] = x

(***************************************************************************)
(* The operators on arrays.                                                *)
(***************************************************************************)

\* Insertion into an array that has grown.
LEMMA InsertedTakes ==
    ASSUME NEW S, NEW n \in Nat, NEW f \in [0 .. n - 1 -> S], NEW m \in Nat, n <= m,
           NEW filler \in S, NEW s \in 0 .. n, s < m, NEW i \in 0 .. s, NEW x \in S
    PROVE  /\ Inserted(CopyOf(f, m, filler), i, s, x) \in [0 .. m - 1 -> S]
           /\ Takes(Inserted(CopyOf(f, m, filler), i, s, x), f, i, s, x)
           /\ Fills(f, s, n, filler)
                 => Fills(Inserted(CopyOf(f, m, filler), i, s, x), s + 1, m, filler)
<1> DEFINE c == [j \in 0 .. m - 1 |-> IF j \in 0 .. n - 1 THEN f[j] ELSE filler]
           b == [j \in 0 .. m - 1 |->
                   IF j = i THEN x ELSE IF i < j /\ j <= s THEN c[j - 1] ELSE c[j]]
<1>1. CopyOf(f, m, filler) = c
  BY DEF CopyOf
<1>2. Inserted(CopyOf(f, m, filler), i, s, x) = b
  BY <1>1 DEF Inserted
<1>3. /\ \A j \in 0 .. m - 1 : c[j] = IF j < n THEN f[j] ELSE filler
      /\ \A j \in 0 .. m - 1 : c[j] \in S
  OBVIOUS
<1> HIDE DEF c
<1>4. \A j \in 0 .. m - 1 : b[j] = IF j = i THEN x ELSE IF i < j /\ j <= s THEN c[j - 1] ELSE c[j]
  OBVIOUS
<1>5. b \in [0 .. m - 1 -> S]
  BY <1>3
<1> HIDE DEF b
<1>6. b[i] = x /\ \A j \in 0 .. i - 1 : b[j] = f[j]
  BY <1>3, <1>4
<1>7. \A j \in i + 1 .. s : b[j] = f[j - 1]
  BY <1>3, <1>4
<1>8. ASSUME Fills(f, s, n, filler)
      PROVE  Fills(b, s + 1, m, filler)
  <2>1. \A j \in s + 1 .. m - 1 : b[j] = IF j < n THEN f[j] ELSE filler
    BY <1>3, <1>4
  <2> QED
    BY <1>8, <2>1 DEF Fills
<1> QED
  BY <1>2, <1>5, <1>6, <1>7, <1>8 DEF Takes

\* A full array grows by one at least, and none shrinks below its elements.
LEMMA Lengths ==
    ASSUME NEW s \in Nat, NEW n \in Nat, s <= n
    PROVE  /\ GrownFrom(s) \in Nat /\ s < GrownFrom(s)
           /\ ShrunkFrom(s, n) \in Nat /\ s <= ShrunkFrom(s, n)
<1>1. BaseSize \in Nat /\ BaseSize > 0
  BY ArraySetAssumption
<1>2. s \div 2 \in Nat /\ (s >= 2 => s \div 2 >= 1)
  OBVIOUS
<1> QED
  BY <1>1, <1>2 DEF GrownFrom, ShrunkFrom

\* The arrays with an element more, at a place between the smaller hashes and
\* the greater.
LEMMA TakenSound ==
    ASSUME NEW h, NEW a, NEW s, NEW n, Sound(h, a, s, n), NEW m \in Nat, n <= m, s < m,
           NEW e \in Elements, e \notin Rest(a, 0, s), NEW i \in 0 .. s,
           \A j \in 0 .. i - 1 : h[j] <= HashOf[e], \A j \in i .. s - 1 : HashOf[e] <= h[j],
           NEW g \in [0 .. m - 1 -> Int], Takes(g, h, i, s, HashOf[e]),
           NEW b \in [0 .. m - 1 -> Elements \cup {Null}], Takes(b, a, i, s, e),
           Fills(b, s + 1, m, Null)
    PROVE  Sound(g, b, s + 1, m) /\ Rest(b, 0, s + 1) = Rest(a, 0, s) \cup {e}
<1>1. n \in Nat /\ s \in Nat /\ s + 1 \in 0 .. m /\ s + 1 \in Nat
  BY DEF Sound
<1>2. HashOf[e] \in Int
  BY ArraySetAssumption
<1>3. /\ b[i] = e /\ g[i] = HashOf[e]
      /\ \A j \in 0 .. i - 1 : b[j] = a[j] /\ g[j] = h[j]
      /\ \A j \in i + 1 .. s : b[j] = a[j - 1] /\ g[j] = h[j - 1]
  BY DEF Takes
<1> DEFINE old == [j \in 0 .. s |-> IF j < i THEN j ELSE j - 1]
<1>4. ASSUME NEW j \in 0 .. s, j # i
      PROVE  /\ old[j] \in 0 .. s - 1 /\ b[j] = a[old[j]] /\ g[j] = h[old[j]]
             /\ (j < i <=> old[j] < i) /\ (old[j] = IF j < i THEN j ELSE j - 1)
  <2>1. CASE j < i
    <3>1. j \in 0 .. i - 1
      BY <1>1, <2>1
    <3>2. old[j] = j /\ b[j] = a[j] /\ g[j] = h[j]
      BY <1>3, <2>1, <3>1
    <3> QED
      BY <1>1, <2>1, <3>2
  <2>2. CASE i < j
    <3>1. j \in i + 1 .. s
      BY <1>1, <2>2
    <3>2. old[j] = j - 1 /\ b[j] = a[j - 1] /\ g[j] = h[j - 1]
      BY <1>1, <1>3, <2>2, <3>1
    <3> QED
      BY <1>1, <2>2, <3>2
  <2> QED
    BY <1>1, <1>4, <2>1, <2>2
<1> HIDE DEF old
<1>5. ASSUME NEW j \in 0 .. s
      PROVE  b[j] \in Elements /\ g[j] = HashOf[b[j]]
  <2>1. CASE j = i
    BY <1>3, <2>1
  <2>2. CASE j # i
    <3>1. old[j] \in 0 .. s - 1 /\ b[j] = a[old[j]] /\ g[j] = h[old[j]]
      BY <1>4, <2>2
    <3>2. a[old[j]] \in Elements /\ h[old[j]] = HashOf[a[old[j]]]
      BY <3>1 DEF Sound
    <3> QED
      BY <3>1, <3>2
  <2> QED
    BY <2>1, <2>2
<1>6. ASSUME NEW j \in 0 .. s, NEW l \in 0 .. s, j < l
      PROVE  g[j] <= g[l]
  <2>1. CASE j = i
    <3>1. old[l] \in i .. s - 1
      BY <1>1, <1>4, <1>6, <2>1
    <3> QED
      BY <1>3, <1>4, <1>6, <2>1, <3>1
  <2>2. CASE l = i
    <3>1. j \in 0 .. i - 1
      BY <1>1, <1>6, <2>2
    <3> QED
      BY <1>3, <2>2, <3>1
  <2>3. CASE j # i /\ l # i
    <3>1. old[j] <= old[l]
      BY <1>1, <1>4, <1>6, <2>3
    <3>2. h[old[j]] <= h[old[l]]
      BY <1>4, <2>3, <3>1 DEF Sound
    <3> QED
      BY <1>4, <2>3, <3>2
  <2> QED
    BY <2>1, <2>2, <2>3
<1>7. ASSUME NEW j \in 0 .. s, NEW l \in 0 .. s, j < l
      PROVE  b[j] # b[l]
  <2>1. \A k \in 0 .. s - 1 : a[k] # e
    BY DEF Rest
  <2>2. CASE j = i \/ l = i
    <3>1. j # l
      BY <1>7
    <3>2. CASE j = i
      <4>1. old[l] \in 0 .. s - 1 /\ b[l] = a[old[l]]
        BY <1>4, <3>1, <3>2
      <4> QED
        BY <1>3, <2>1, <3>2, <4>1
    <3>3. CASE l = i
      <4>1. old[j] \in 0 .. s - 1 /\ b[j] = a[old[j]]
        BY <1>4, <3>1, <3>3
      <4> QED
        BY <1>3, <2>1, <3>3, <4>1
    <3> QED
      BY <2>2, <3>2, <3>3
  <2>3. CASE j # i /\ l # i
    <3>1. old[j] # old[l]
      BY <1>1, <1>4, <1>7, <2>3
    <3>2. a[old[j]] # a[old[l]]
      BY <1>4, <2>3, <3>1 DEF Sound
    <3> QED
      BY <1>4, <2>3, <3>2
  <2> QED
    BY <2>2, <2>3
<1>8. \A j \in 0 .. m - 1 : j >= s + 1 => b[j] = Null
  BY <1>1 DEF Fills
<1>9. Sound(g, b, s + 1, m)
  <2>1. \A j, l \in 0 .. s : j <= l => g[j] <= g[l]
    <3> SUFFICES ASSUME NEW j \in 0 .. s, NEW l \in 0 .. s, j <= l
                 PROVE  g[j] <= g[l]
      OBVIOUS
    <3>1. g[j] \in Int
      BY <1>1
    <3> QED
      BY <1>1, <1>6, <3>1
  <2>2. \A j, l \in 0 .. s : j # l => b[j] # b[l]
    <3> SUFFICES ASSUME NEW j \in 0 .. s, NEW l \in 0 .. s, j # l
                 PROVE  b[j] # b[l]
      OBVIOUS
    <3>1. j < l \/ l < j
      BY <1>1
    <3> QED
      BY <1>7, <3>1
  <2>3. (s + 1) - 1 = s
    BY <1>1
  <2>4. \A j \in 0 .. s : b[j] \in Elements /\ g[j] = HashOf[b[j]]
    BY <1>5
  <2> QED
    BY <1>1, <1>8, <2>1, <2>2, <2>3, <2>4 DEF Sound
<1>10. Rest(b, 0, s + 1) = Rest(a, 0, s) \cup {e}
  <2>1. Rest(b, 0, s + 1) = {b[j] : j \in 0 .. s}
    BY <1>1 DEF Rest
  <2>2. ASSUME NEW j \in 0 .. s
        PROVE  b[j] \in Rest(a, 0, s) \cup {e}
    BY <1>3, <1>4 DEF Rest
  <2>3. ASSUME NEW j \in 0 .. s - 1
        PROVE  a[j] \in {b[l] : l \in 0 .. s}
    <3>1. CASE j < i
      <4>1. j \in 0 .. i - 1 /\ j \in 0 .. s
        BY <1>1, <3>1
      <4>2. b[j] = a[j]
        BY <1>3, <4>1
      <4> QED
        BY <4>1, <4>2
    <3>2. CASE i <= j
      <4>1. j + 1 \in i + 1 .. s /\ (j + 1) - 1 = j
        BY <1>1, <3>2
      <4>2. b[j + 1] = a[j] /\ j + 1 \in 0 .. s
        BY <1>1, <1>3, <4>1
      <4> QED
        BY <4>2
    <3> QED
      BY <1>1, <3>1, <3>2
  <2>4. e \in {b[l] : l \in 0 .. s}
    BY <1>1, <1>3
  <2> QED
    BY <2>1, <2>2, <2>3, <2>4 DEF Rest
<1> QED
  BY <1>9, <1>10

\* The arrays in the length after a removal, with the element at i taken out.
LEMMA RemovedLoses ==
    ASSUME NEW S, NEW n \in Nat, NEW f \in [0 .. n - 1 -> S], size \in 1 .. n,
           NEW i \in 0 .. size - 1, NEW m \in Nat, size <= m, NEW filler \in S
    PROVE  /\ Removed(f, i, m, filler) \in [0 .. m - 1 -> S]
           /\ Loses(Removed(f, i, m, filler), f, i, size)
           /\ Fills(Removed(f, i, m, filler), size - 1, m, filler)
<1> DEFINE b == [j \in 0 .. m - 1 |-> IF j < i THEN f[j] ELSE IF j < size - 1 THEN f[j + 1] ELSE filler]
<1>1. Removed(f, i, m, filler) = b
  BY DEF Removed
<1>2. \A j \in 0 .. m - 1 : b[j] = IF j < i THEN f[j] ELSE IF j < size - 1 THEN f[j + 1] ELSE filler
  OBVIOUS
<1>3. \A j \in 0 .. m - 1 : (IF j < i THEN f[j] ELSE IF j < size - 1 THEN f[j + 1] ELSE filler) \in S
  OBVIOUS
<1>4. b \in [0 .. m - 1 -> S]
  BY <1>3
<1> HIDE DEF b
<1>5. \A j \in 0 .. i - 1 : b[j] = f[j]
  BY <1>2
<1>6. \A j \in i .. size - 2 : b[j] = f[j + 1]
  BY <1>2
<1>7. \A j \in size - 1 .. m - 1 : b[j] = filler
  BY <1>2
<1> QED
  BY <1>1, <1>4, <1>5, <1>6, <1>7 DEF Loses, Fills

LEMMA LostSound ==
    ASSUME NEW h, NEW a, NEW s, NEW n, Sound(h, a, s, n), NEW m \in Nat, s <= m,
           NEW i \in 0 .. s - 1,
           NEW g \in [0 .. m - 1 -> Int], Loses(g, h, i, s),
           NEW b \in [0 .. m - 1 -> Elements \cup {Null}], Loses(b, a, i, s),
           Fills(b, s - 1, m, Null)
    PROVE  /\ Sound(g, b, s - 1, m)
           /\ Rest(b, 0, s - 1) = Rest(a, 0, s) \ {a[i]}
           /\ Rest(b, i, s - 1) = Rest(a, i + 1, s)
<1>1. n \in Nat /\ s \in Nat /\ s - 1 \in 0 .. m /\ i \in Nat
  BY DEF Sound
<1>2. /\ \A j \in 0 .. i - 1 : b[j] = a[j] /\ g[j] = h[j]
      /\ \A j \in i .. s - 2 : b[j] = a[j + 1] /\ g[j] = h[j + 1]
  BY DEF Loses
<1> DEFINE old == [j \in 0 .. s - 2 |-> IF j < i THEN j ELSE j + 1]
<1>3. ASSUME NEW j \in 0 .. s - 2
      PROVE  /\ old[j] \in 0 .. s - 1 /\ old[j] # i
             /\ old[j] = IF j < i THEN j ELSE j + 1
             /\ b[j] = a[old[j]] /\ g[j] = h[old[j]]
  <2>1. CASE j < i
    <3>1. j \in 0 .. i - 1
      BY <1>1, <2>1
    <3>2. old[j] = j /\ b[j] = a[j] /\ g[j] = h[j]
      BY <1>2, <2>1, <3>1
    <3> QED
      BY <1>1, <2>1, <3>2
  <2>2. CASE i <= j
    <3>1. j \in i .. s - 2
      BY <1>1, <2>2
    <3>2. old[j] = j + 1 /\ b[j] = a[j + 1] /\ g[j] = h[j + 1]
      BY <1>1, <1>2, <2>2, <3>1
    <3> QED
      BY <1>1, <2>2, <3>2
  <2> QED
    BY <1>1, <2>1, <2>2
<1> HIDE DEF old
<1>4. \A j \in 0 .. s - 2 : b[j] \in Elements /\ g[j] = HashOf[b[j]]
  <2> SUFFICES ASSUME NEW j \in 0 .. s - 2
               PROVE  b[j] \in Elements /\ g[j] = HashOf[b[j]]
    OBVIOUS
  <2>1. a[old[j]] \in Elements /\ h[old[j]] = HashOf[a[old[j]]]
    BY <1>3 DEF Sound
  <2> QED
    BY <1>3, <2>1
<1>5. \A j, l \in 0 .. s - 2 : j <= l => g[j] <= g[l]
  <2> SUFFICES ASSUME NEW j \in 0 .. s - 2, NEW l \in 0 .. s - 2, j <= l
               PROVE  g[j] <= g[l]
    OBVIOUS
  <2>1. old[j] <= old[l]
    <3>1. old[j] = IF j < i THEN j ELSE j + 1
      BY <1>3
    <3>2. old[l] = IF l < i THEN l ELSE l + 1
      BY <1>3
    <3> QED
      BY <1>1, <3>1, <3>2
  <2>2. h[old[j]] <= h[old[l]]
    BY <1>3, <2>1 DEF Sound
  <2> QED
    BY <1>3, <2>2
<1>6. \A j, l \in 0 .. s - 2 : j # l => b[j] # b[l]
  <2> SUFFICES ASSUME NEW j \in 0 .. s - 2, NEW l \in 0 .. s - 2, j # l
               PROVE  b[j] # b[l]
    OBVIOUS
  <2>1. old[j] # old[l]
    <3>1. old[j] = IF j < i THEN j ELSE j + 1
      BY <1>3
    <3>2. old[l] = IF l < i THEN l ELSE l + 1
      BY <1>3
    <3> QED
      BY <1>1, <3>1, <3>2
  <2>2. a[old[j]] # a[old[l]]
    BY <1>3, <2>1 DEF Sound
  <2> QED
    BY <1>3, <2>2
<1>7. Sound(g, b, s - 1, m)
  <2>1. (s - 1) - 1 = s - 2 /\ s - 1 \in Nat
    BY <1>1
  <2>2. \A j \in 0 .. m - 1 : j >= s - 1 => b[j] = Null
    BY <1>1 DEF Fills
  <2> QED
    BY <1>1, <1>4, <1>5, <1>6, <2>1, <2>2 DEF Sound
<1>8. ASSUME NEW l \in 0 .. s - 1, l # i
      PROVE  \E j \in 0 .. s - 2 : b[j] = a[l] /\ (l > i => j >= i)
  <2>1. CASE l < i
    <3>1. l \in 0 .. i - 1 /\ l \in 0 .. s - 2
      BY <1>1, <2>1
    <3> QED
      BY <1>1, <1>2, <2>1, <3>1
  <2>2. CASE i < l
    <3>1. l - 1 \in i .. s - 2 /\ l - 1 \in 0 .. s - 2 /\ (l - 1) + 1 = l
      BY <1>1, <2>2
    <3>2. b[l - 1] = a[l] /\ l - 1 >= i
      BY <1>1, <1>2, <3>1
    <3> QED
      BY <3>1, <3>2
  <2> QED
    BY <1>1, <1>8, <2>1, <2>2
<1>9. Rest(b, 0, s - 1) = {b[j] : j \in 0 .. s - 2} /\ Rest(b, i, s - 1) = {b[j] : j \in i .. s - 2}
  BY <1>1 DEF Rest
<1>10. Rest(b, 0, s - 1) = Rest(a, 0, s) \ {a[i]}
  <2>1. ASSUME NEW j \in 0 .. s - 2
        PROVE  b[j] \in Rest(a, 0, s) \ {a[i]}
    <3>1. a[old[j]] # a[i]
      BY <1>3 DEF Sound
    <3> QED
      BY <1>3, <3>1 DEF Rest
  <2>2. ASSUME NEW x \in Rest(a, 0, s) \ {a[i]}
        PROVE  x \in {b[j] : j \in 0 .. s - 2}
    <3>1. PICK l \in 0 .. s - 1 : x = a[l] /\ l # i
      BY DEF Rest
    <3> QED
      BY <1>8, <3>1
  <2> QED
    BY <1>9, <2>1, <2>2
<1>11. Rest(b, i, s - 1) = Rest(a, i + 1, s)
  <2>1. ASSUME NEW j \in i .. s - 2
        PROVE  b[j] \in Rest(a, i + 1, s)
    <3>1. b[j] = a[j + 1] /\ j + 1 \in i + 1 .. s - 1
      BY <1>1, <1>2
    <3> QED
      BY <3>1 DEF Rest
  <2>2. ASSUME NEW x \in Rest(a, i + 1, s)
        PROVE  x \in {b[j] : j \in i .. s - 2}
    <3>1. PICK l \in i + 1 .. s - 1 : x = a[l]
      BY DEF Rest
    <3>2. l - 1 \in i .. s - 2 /\ (l - 1) + 1 = l
      BY <1>1
    <3> QED
      BY <1>2, <3>1, <3>2
  <2> QED
    BY <1>9, <2>1, <2>2
<1> QED
  BY <1>7, <1>10, <1>11

(***************************************************************************)
(* The search.                                                             *)
(***************************************************************************)

\* indexOf finds an element wherever in the run of its hash the binary search
\* has landed, or else the place between the smaller hashes and the greater.
LEMMA IndexLands ==
    ASSUME NEW n, Sound(hashes, array, size, n), NEW e \in Elements
    PROVE  \/ IndexOf(e) \in 0 .. size - 1 /\ array[IndexOf(e)] = e
           \/ /\ IndexOf(e) \in Int /\ IndexOf(e) < 0
              /\ Inv(IndexOf(e)) \in 0 .. size
              /\ e \notin Contents
              /\ \A j \in 0 .. Inv(IndexOf(e)) - 1 : hashes[j] <= HashOf[e]
              /\ \A j \in Inv(IndexOf(e)) .. size - 1 : HashOf[e] <= hashes[j]
<1>1. n \in Nat /\ size \in Nat /\ HashOf[e] \in Int
  BY ArraySetAssumption DEF Sound
<1>2. \A j \in 0 .. size - 1 : hashes[j] \in Int
  BY <1>1 DEF Sound
<1>3. \A j \in 1 .. size - 1 : hashes[j - 1] <= hashes[j]
  <2> SUFFICES ASSUME NEW j \in 1 .. size - 1
               PROVE  hashes[j - 1] <= hashes[j]
    OBVIOUS
  <2>1. j - 1 \in 0 .. size - 1 /\ j \in 0 .. size - 1 /\ j - 1 <= j
    BY <1>1
  <2> QED
    BY <2>1 DEF Sound
<1>4. PICK hash \in Int : hash = HashOf[e]
  BY <1>1
<1>5. PICK p : p = BinarySearch(hashes, size, hash)
  OBVIOUS
<1>6. \/ p \in 0 .. size - 1 /\ hashes[p] = hash
      \/ /\ p \in Int /\ p < 0 /\ Inv(p) \in 0 .. size
         /\ \A j \in 0 .. Inv(p) - 1 : hashes[j] < hash
         /\ \A j \in Inv(p) .. size - 1 : hash < hashes[j]
  BY <1>1, <1>2, <1>3, <1>5, SearchLands
<1>7. \A j \in 0 .. size - 1 : array[j] = e => hashes[j] = hash
  BY <1>4 DEF Sound
<1>8. CASE /\ p \in Int /\ p < 0 /\ Inv(p) \in 0 .. size
           /\ \A j \in 0 .. Inv(p) - 1 : hashes[j] < hash
           /\ \A j \in Inv(p) .. size - 1 : hash < hashes[j]
  <2>1. IndexOf(e) = p
    BY <1>4, <1>5, <1>8 DEF IndexOf
  <2>2. ASSUME NEW j \in 0 .. size - 1
        PROVE  array[j] # e
    <3>1. j \in 0 .. Inv(p) - 1 \/ j \in Inv(p) .. size - 1
      BY <1>1, <1>8
    <3>2. hashes[j] # hash
      BY <1>2, <1>8, <3>1
    <3> QED
      BY <1>7, <3>2
  <2>3. e \notin Contents
    BY <2>2 DEF Contents
  <2>4. \A j \in 0 .. Inv(p) - 1 : hashes[j] <= hash
    <3>1. \A j \in 0 .. Inv(p) - 1 : hashes[j] \in Int
      BY <1>1, <1>2, <1>8
    <3> QED
      BY <1>8, <3>1
  <2>5. \A j \in Inv(p) .. size - 1 : hash <= hashes[j]
    <3>1. \A j \in Inv(p) .. size - 1 : hashes[j] \in Int
      BY <1>1, <1>2, <1>8
    <3> QED
      BY <1>8, <3>1
  <2> QED
    BY <1>4, <1>8, <2>1, <2>3, <2>4, <2>5
<1>9. CASE p \in 0 .. size - 1 /\ hashes[p] = hash
  <2> DEFINE run == RunAt(hash, p)
             found == {j \in run : array[j] = e}
             U == {j \in run : j >= p}
  <2>1. \A j \in 0 .. size - 1 : j \in run <=> hashes[j] = hash
    <3> SUFFICES ASSUME NEW j \in 0 .. size - 1
                 PROVE  j \in run <=> hashes[j] = hash
      OBVIOUS
    <3>1. j \in run <=> \A i \in (p .. j) \cup (j .. p) : hashes[i] = hash
      BY DEF RunAt
    <3>2. j \in (p .. j) \cup (j .. p)
      BY <1>1, <1>9
    <3>3. ASSUME hashes[j] = hash, NEW i \in (p .. j) \cup (j .. p)
          PROVE  hashes[i] = hash
      <4>0. p \in 0 .. size - 1
        BY <1>9
      <4>1. i \in 0 .. size - 1 /\ ((p <= i /\ i <= j) \/ (j <= i /\ i <= p))
        <5>1. i \in p .. j \/ i \in j .. p
          BY <3>3
        <5>2. size - 1 \in Int /\ j \in 0 .. size - 1
          BY <1>1
        <5> QED
          BY <4>0, <5>1, <5>2
      <4>2. hash <= hashes[i] /\ hashes[i] <= hash
        BY <1>9, <3>3, <4>1 DEF Sound
      <4> QED
        BY <1>2, <4>1, <4>2
    <3> QED
      BY <3>1, <3>2, <3>3
  <2>2. run \subseteq 0 .. size - 1
    BY DEF RunAt
  <2> HIDE DEF run
  <2>3. IndexOf(e) = IF found # {} THEN CHOOSE j \in found : TRUE ELSE Inv(p + Cardinality(U))
    <3>1. ~(p < 0)
      BY <1>1, <1>9
    <3> QED
      BY <1>4, <1>5, <3>1 DEF IndexOf, run
  <2>4. CASE found # {}
    <3>1. IndexOf(e) \in found
      BY <2>3, <2>4
    <3> QED
      BY <2>2, <3>1
  <2>5. CASE found = {}
    <3> DEFINE T == {j \in p .. size : j < size => hashes[j] # hash}
    <3>1. size \in T /\ T \in SUBSET Nat
      BY <1>1, <1>9
    <3>2. PICK q \in T : \A d \in T : q <= d
      BY <3>1, LeastNumber
    <3>3. q \in Nat /\ q \in p .. size /\ (q < size => hashes[q] # hash)
      BY <1>1, <1>9, <3>2
    <3>4. \A j \in p .. q - 1 : hashes[j] = hash
      BY <1>1, <1>9, <3>2, <3>3
    <3> HIDE DEF T
    <3>5. ASSUME NEW j \in q .. size - 1
          PROVE  hashes[j] # hash /\ hash <= hashes[j]
      <4>1. /\ p \in 0 .. size - 1 /\ q \in 0 .. size - 1 /\ j \in 0 .. size - 1
            /\ p <= q /\ q <= j
        BY <1>1, <1>9, <3>3
      <4>2. hash <= hashes[q] /\ hashes[q] <= hashes[j]
        BY <1>9, <4>1 DEF Sound
      <4>3. hashes[q] # hash /\ hashes[q] \in Int /\ hashes[j] \in Int
        <5>1. q < size
          BY <1>1, <4>1
        <5> QED
          BY <1>2, <3>3, <4>1, <5>1
      <4> QED
        BY <4>2, <4>3
    <3>6. U = p .. q - 1
      <4>1. ASSUME NEW j \in U
            PROVE  j \in p .. q - 1
        <5>1. j \in 0 .. size - 1 /\ j >= p /\ hashes[j] = hash
          BY <2>1, <2>2
        <5>2. ~(j >= q)
          BY <1>1, <3>3, <3>5, <5>1
        <5> QED
          BY <1>1, <1>9, <3>3, <5>1, <5>2
      <4>2. ASSUME NEW j \in p .. q - 1
            PROVE  j \in U
        <5>1. j \in 0 .. size - 1 /\ j >= p
          BY <1>1, <1>9, <3>3
        <5> QED
          BY <2>1, <3>4, <5>1
      <4> QED
        BY <4>1, <4>2
    <3> HIDE DEF U
    <3>7. Cardinality(U) = q - p
      <4>1. p \in Int /\ q \in Int /\ q - 1 \in Int /\ p <= q
        BY <1>9, <3>3
      <4>2. Cardinality(p .. q - 1) = IF p > q - 1 THEN 0 ELSE (q - 1) - p + 1
        BY <4>1, FS_Interval
      <4> QED
        BY <3>6, <4>1, <4>2
    <3>8. IndexOf(e) = Inv(q)
      <4>1. p + Cardinality(U) = q
        BY <1>9, <3>3, <3>7
      <4> QED
        BY <2>3, <2>5, <4>1
    <3>9. Inv(q) \in Int /\ Inv(q) < 0 /\ Inv(Inv(q)) = q
      BY <3>3 DEF Inv
    <3>10. e \notin Contents
      <4>1. \A j \in 0 .. size - 1 : array[j] # e
        BY <1>7, <2>1, <2>5
      <4> QED
        BY <4>1 DEF Contents
    <3>11. ASSUME NEW j \in 0 .. q - 1
           PROVE  hashes[j] <= hash
      <4>1. CASE j <= p
        <5>1. j \in 0 .. size - 1
          BY <1>1, <1>9, <4>1
        <5> QED
          BY <1>9, <4>1, <5>1 DEF Sound
      <4>2. CASE p <= j
        <5>1. j \in p .. q - 1
          BY <1>9, <3>3, <4>2
        <5> QED
          BY <3>4, <5>1
      <4> QED
        BY <1>9, <4>1, <4>2
    <3>12. q \in 0 .. size
      BY <1>1, <1>9, <3>3
    <3> QED
      BY <1>4, <3>5, <3>8, <3>9, <3>10, <3>11, <3>12
  <2> QED
    BY <2>4, <2>5
<1> QED
  BY <1>6, <1>8, <1>9

(***************************************************************************)
(* The invariant.                                                          *)
(***************************************************************************)

\* What an iterator in use has returned and has still to return is what the set
\* held when it was made; what it may remove is what it returned last.
IteratorInv ==
    /\ it \in [on : BOOLEAN, size : Nat, index : Nat, canRemove : BOOLEAN]
    /\ visited \in Seq(Elements) /\ toVisit \subseteq Elements
    /\ it.on =>
          /\ it.size = size /\ it.index <= size
          /\ it.canRemove => /\ 0 < it.index /\ 0 < Len(visited)
                             /\ visited[Len(visited)] = array[it.index - 1]
          /\ toVisit = {visited[i] : i \in DOMAIN visited} \cup Rest(array, it.index, size)
          /\ Len(visited) + size - it.index = Cardinality(toVisit)

IInv == (\E n : Sound(hashes, array, size, n)) /\ IteratorInv

LEMMA CapacityIs ==
    ASSUME NEW n, Sound(hashes, array, size, n)
    PROVE  Capacity = n /\ DOMAIN array = 0 .. n - 1
<1>1. n \in Nat /\ DOMAIN hashes = 0 .. n - 1 /\ DOMAIN array = 0 .. n - 1
  BY DEF Sound
<1>2. Cardinality(0 .. n - 1) = n
  BY <1>1, FS_Interval
<1> QED
  BY <1>1, <1>2 DEF Capacity

LEMMA ContentsAre == Contents = Rest(array, 0, size) /\ Contents' = Rest(array', 0, size')
BY DEF Contents, Rest

\* A change that is not the iterator's leaves none in use.
LEMMA IterationEnds == EndIteration => IteratorInv'
BY DEF EndIteration, NoIterator, IteratorInv

\* clear().
LEMMA ClearSound ==
    ASSUME Clear
    PROVE  Sound(hashes', array', size', 0) /\ Rest(array', 0, size') = {}
<1>1. \A S : <<>> \in [0 .. 0 - 1 -> S]
  OBVIOUS
<1> QED
  BY <1>1 DEF Clear, Sound, Rest

\* removeAt, of whichever caller.
LEMMA RemoveIndexSound ==
    ASSUME NEW n, Sound(hashes, array, size, n), NEW i \in 0 .. size - 1, RemoveIndex(i)
    PROVE  /\ \E m : Sound(hashes', array', size', m)
           /\ size' = size - 1
           /\ Rest(array', 0, size') = Rest(array, 0, size) \ {array[i]}
           /\ Rest(array', i, size') = Rest(array, i + 1, size)
<1>1. n \in Nat /\ size \in Nat /\ size \in 1 .. n /\ Capacity = n
  <2>1. n \in Nat /\ size \in 0 .. n
    BY DEF Sound
  <2>2. Capacity = n
    BY CapacityIs
  <2> QED
    BY <2>1, <2>2
<1>2. CASE size <= 1
  <2>1. size = 1 /\ i = 0
    BY <1>1, <1>2
  <2>2. Clear
    BY <1>2 DEF RemoveIndex
  <2>3. Sound(hashes', array', size', 0) /\ Rest(array', 0, size') = {}
    BY <2>2, ClearSound
  <2>4. size' = 0
    BY <2>2 DEF Clear
  <2>5. Rest(array, 0, 1) = {array[0]} /\ Rest(array, 1, 1) = {} /\ Rest(array', 0, 0) = {}
    BY DEF Rest
  <2> QED
    BY <2>1, <2>3, <2>4, <2>5
<1>3. CASE ~(size <= 1)
  <2>1. PICK m \in Nat : m = ShrunkFrom(size, n) /\ size <= m
    BY <1>1, Lengths
  <2>2. /\ hashes' = Removed(hashes, i, m, 0)
        /\ array' = Removed(array, i, m, Null)
        /\ size' = size - 1
    BY <1>1, <1>3, <2>1 DEF RemoveIndex
  <2>3. PICK g, b : g = hashes' /\ b = array'
    OBVIOUS
  <2>4. g \in [0 .. m - 1 -> Int] /\ Loses(g, hashes, i, size)
    <3>1. hashes \in [0 .. n - 1 -> Int] /\ 0 \in Int
      BY DEF Sound
    <3> QED
      BY <1>1, <2>1, <2>2, <2>3, <3>1, RemovedLoses
  <2>5. PICK S : S = Elements \cup {Null}
    OBVIOUS
  <2>6. /\ b \in [0 .. m - 1 -> S] /\ Loses(b, array, i, size)
        /\ Fills(b, size - 1, m, Null)
    <3>1. array \in [0 .. n - 1 -> S] /\ Null \in S
      BY <2>5 DEF Sound
    <3> QED
      BY <1>1, <2>1, <2>2, <2>3, <3>1, RemovedLoses
  <2>7. /\ Sound(g, b, size - 1, m)
        /\ Rest(b, 0, size - 1) = Rest(array, 0, size) \ {array[i]}
        /\ Rest(b, i, size - 1) = Rest(array, i + 1, size)
    BY <2>1, <2>4, <2>5, <2>6, LostSound
  <2> QED
    BY <2>2, <2>3, <2>7
<1> QED
  BY <1>2, <1>3

LEMMA InitInv == Init => IInv /\ Contents = {}
<1> SUFFICES ASSUME Init
             PROVE  IInv /\ Contents = {}
  OBVIOUS
<1>1. PICK n \in Nat : n = InitialCapacity
  BY ArraySetAssumption
<1>2. Sound(hashes, array, size, n)
  BY <1>1 DEF Init, Sound
<1>3. IteratorInv
  BY DEF Init, NoIterator, IteratorInv
<1>4. Contents = {}
  BY DEF Init, Contents
<1> QED
  BY <1>2, <1>3, <1>4 DEF IInv

(***************************************************************************)
(* One step per action: the invariant is kept, and the step is one of the  *)
(* set's.                                                                  *)
(***************************************************************************)

LEMMA AddStep ==
    ASSUME IInv, NEW e \in Elements, Add(e)
    PROVE  IInv' /\ Set!Add(e)
<1>1. PICK n : Sound(hashes, array, size, n)
  BY DEF IInv
<1>2. n \in Nat /\ size \in 0 .. n /\ size \in Nat /\ Capacity = n
  <2>1. n \in Nat /\ size \in 0 .. n
    BY <1>1 DEF Sound
  <2>2. Capacity = n
    BY <1>1, CapacityIs
  <2> QED
    BY <2>1, <2>2
<1>3. PICK m : m = IF size >= Capacity THEN GrownFrom(size) ELSE Capacity
  OBVIOUS
<1>4. m \in Nat /\ n <= m /\ size < m
  <2>1. GrownFrom(size) \in Nat /\ size < GrownFrom(size)
    BY <1>2, Lengths
  <2> QED
    BY <1>2, <1>3, <2>1
<1>5. PICK q : q = Inv(IndexOf(e))
  OBVIOUS
<1>6. /\ q \in 0 .. size /\ e \notin Contents
      /\ \A j \in 0 .. q - 1 : hashes[j] <= HashOf[e]
      /\ \A j \in q .. size - 1 : HashOf[e] <= hashes[j]
  <2>1. IndexOf(e) < 0
    BY DEF Add
  <2>2. ~(IndexOf(e) \in 0 .. size - 1)
    BY <1>2, <2>1
  <2> QED
    BY <1>1, <1>5, <2>2, IndexLands
<1>7. PICK g, b : g = hashes' /\ b = array'
  OBVIOUS
<1>8. /\ g = Inserted(CopyOf(hashes, m, 0), q, size, HashOf[e])
      /\ b = Inserted(CopyOf(array, m, Null), q, size, e)
      /\ size' = size + 1 /\ EndIteration
  BY <1>3, <1>5, <1>7 DEF Add
<1>9. g \in [0 .. m - 1 -> Int] /\ Takes(g, hashes, q, size, HashOf[e])
  <2>1. hashes \in [0 .. n - 1 -> Int] /\ 0 \in Int
    BY <1>1 DEF Sound
  <2>2. PICK hash \in Int : hash = HashOf[e]
    BY ArraySetAssumption
  <2> QED
    BY <1>2, <1>4, <1>6, <1>8, <2>1, <2>2, InsertedTakes
<1>10. PICK S : S = Elements \cup {Null}
  OBVIOUS
<1>11. /\ b \in [0 .. m - 1 -> S] /\ Takes(b, array, q, size, e)
       /\ Fills(b, size + 1, m, Null)
  <2>1. array \in [0 .. n - 1 -> S] /\ Null \in S /\ e \in S
    BY <1>1, <1>10 DEF Sound
  <2>2. Fills(array, size, n, Null)
    BY <1>1, <1>2 DEF Sound, Fills
  <2> QED
    BY <1>2, <1>4, <1>6, <1>8, <2>1, <2>2, InsertedTakes
<1>12. e \notin Rest(array, 0, size)
  BY <1>6, ContentsAre
<1>13. Sound(g, b, size + 1, m) /\ Rest(b, 0, size + 1) = Rest(array, 0, size) \cup {e}
  BY <1>1, <1>4, <1>6, <1>9, <1>10, <1>11, <1>12, TakenSound
<1>14. IInv'
  BY <1>7, <1>8, <1>13, IterationEnds DEF IInv
<1> QED
  BY <1>6, <1>7, <1>8, <1>13, <1>14, ContentsAre DEF Set!Add

LEMMA EnsureCapacityStep ==
    ASSUME IInv, NEW m \in Capacities, EnsureCapacity(m)
    PROVE  IInv' /\ UNCHANGED Contents
<1>1. PICK n : Sound(hashes, array, size, n)
  BY DEF IInv
<1>2. n \in Nat /\ size \in 0 .. n
  BY <1>1 DEF Sound
<1>3. m \in Nat /\ n < m
  <2>1. Capacity = n
    BY <1>1, CapacityIs
  <2> QED
    BY <2>1, ArraySetAssumption DEF EnsureCapacity
<1>4. /\ hashes \in [0 .. n - 1 -> Int] /\ array \in [0 .. n - 1 -> Elements \cup {Null}]
      /\ DOMAIN hashes = 0 .. n - 1 /\ DOMAIN array = 0 .. n - 1
  BY <1>1 DEF Sound
<1>5. /\ hashes' = [j \in 0 .. m - 1 |-> IF j \in 0 .. n - 1 THEN hashes[j] ELSE 0]
      /\ array' = [j \in 0 .. m - 1 |-> IF j \in 0 .. n - 1 THEN array[j] ELSE Null]
      /\ size' = size /\ EndIteration
  BY <1>4 DEF EnsureCapacity, CopyOf
<1>6. PICK g, b : g = hashes' /\ b = array'
  OBVIOUS
<1>7. g \in [0 .. m - 1 -> Int] /\ b \in [0 .. m - 1 -> Elements \cup {Null}]
  BY <1>4, <1>5, <1>6
<1>8. \A j \in 0 .. n - 1 : g[j] = hashes[j] /\ b[j] = array[j]
  BY <1>2, <1>3, <1>5, <1>6
<1>9. \A j \in 0 .. m - 1 : j >= n => b[j] = Null
  BY <1>2, <1>5, <1>6
<1>10. \A j \in 0 .. size - 1 : g[j] = hashes[j] /\ b[j] = array[j]
  BY <1>2, <1>8
<1>11. Sound(g, b, size, m)
  <2>1. size \in 0 .. m
    BY <1>2, <1>3
  <2>2. \A j \in 0 .. size - 1 : b[j] \in Elements /\ g[j] = HashOf[b[j]]
    BY <1>1, <1>10 DEF Sound
  <2>3. \A j, l \in 0 .. size - 1 : j <= l => g[j] <= g[l]
    BY <1>1, <1>10 DEF Sound
  <2>4. \A j, l \in 0 .. size - 1 : j # l => b[j] # b[l]
    BY <1>1, <1>10 DEF Sound
  <2>5. \A j \in 0 .. m - 1 : j >= size => b[j] = Null
    <3> SUFFICES ASSUME NEW j \in 0 .. m - 1, j >= size
                 PROVE  b[j] = Null
      OBVIOUS
    <3>1. CASE j < n
      <4>1. j \in 0 .. n - 1
        BY <1>2, <3>1
      <4>2. array[j] = Null
        BY <1>1, <4>1 DEF Sound
      <4> QED
        BY <1>8, <4>1, <4>2
    <3>2. CASE j >= n
      BY <1>9, <3>2
    <3> QED
      BY <1>2, <3>1, <3>2
  <2> QED
    BY <1>3, <1>7, <2>1, <2>2, <2>3, <2>4, <2>5 DEF Sound
<1>12. IInv'
  BY <1>5, <1>6, <1>11, IterationEnds DEF IInv
<1>13. Rest(b, 0, size) = Rest(array, 0, size)
  BY <1>10 DEF Rest
<1> QED
  BY <1>5, <1>6, <1>12, <1>13, ContentsAre

LEMMA AddAllStep ==
    ASSUME IInv, NEW s \in Others, AddAllToEmpty(s)
    PROVE  IInv' /\ Set!Copy
<1>1. PICK n : Sound(hashes, array, size, n)
  BY DEF IInv
<1>2. /\ Len(s) \in Nat
      /\ \A i \in 1 .. Len(s) : s[i] \in Elements
      /\ \A i, j \in 1 .. Len(s) : i < j => HashOf[s[i]] <= HashOf[s[j]] /\ s[i] # s[j]
  BY ArraySetAssumption DEF IsContents
<1>3. PICK m : m = IF Capacity < Len(s) THEN Len(s) ELSE Capacity
  OBVIOUS
<1>4. m \in Nat /\ Len(s) <= m
  <2>1. Capacity \in Nat
    BY <1>1, CapacityIs DEF Sound
  <2> QED
    BY <1>2, <1>3, <2>1
<1>5. /\ hashes' = [i \in 0 .. m - 1 |-> IF i < Len(s) THEN HashOf[s[i + 1]] ELSE 0]
      /\ array' = [i \in 0 .. m - 1 |-> IF i < Len(s) THEN s[i + 1] ELSE Null]
      /\ size' = Len(s) /\ size = 0 /\ EndIteration
  BY <1>3 DEF AddAllToEmpty
<1>6. PICK g, b, k : g = hashes' /\ b = array' /\ k = Len(s)
  OBVIOUS
<1>7. \A j \in 0 .. k - 1 : /\ j + 1 \in 1 .. Len(s) /\ j \in 0 .. m - 1
                            /\ s[j + 1] \in Elements /\ HashOf[s[j + 1]] \in Int
  BY <1>2, <1>4, <1>6, ArraySetAssumption
<1>8. \A j \in 0 .. k - 1 : b[j] = s[j + 1] /\ g[j] = HashOf[s[j + 1]]
  BY <1>2, <1>5, <1>6, <1>7
<1>9. \A j \in 0 .. m - 1 : j >= k => b[j] = Null
  BY <1>2, <1>5, <1>6
<1>10. g \in [0 .. m - 1 -> Int] /\ b \in [0 .. m - 1 -> Elements \cup {Null}]
  <2>1. \A j \in 0 .. m - 1 : j < k => j \in 0 .. k - 1
    BY <1>2, <1>6
  <2>2. \A j \in 0 .. m - 1 : (IF j < Len(s) THEN HashOf[s[j + 1]] ELSE 0) \in Int
    BY <1>6, <1>7, <2>1
  <2>3. \A j \in 0 .. m - 1 : (IF j < Len(s) THEN s[j + 1] ELSE Null) \in Elements \cup {Null}
    BY <1>6, <1>7, <2>1
  <2> QED
    BY <1>5, <1>6, <2>2, <2>3
<1>11. ASSUME NEW j \in 0 .. k - 1, NEW l \in 0 .. k - 1, j < l
       PROVE  g[j] <= g[l] /\ b[j] # b[l]
  <2>1. j + 1 < l + 1
    BY <1>11
  <2>2. HashOf[s[j + 1]] <= HashOf[s[l + 1]] /\ s[j + 1] # s[l + 1]
    BY <1>2, <1>7, <2>1
  <2> QED
    BY <1>8, <2>2
<1>12. Sound(g, b, k, m)
  <2>1. k \in 0 .. m
    BY <1>2, <1>4, <1>6
  <2>2. \A j \in 0 .. k - 1 : b[j] \in Elements /\ g[j] = HashOf[b[j]]
    BY <1>7, <1>8
  <2>3. \A j, l \in 0 .. k - 1 : j <= l => g[j] <= g[l]
    <3> SUFFICES ASSUME NEW j \in 0 .. k - 1, NEW l \in 0 .. k - 1, j <= l
                 PROVE  g[j] <= g[l]
      OBVIOUS
    <3>1. g[j] \in Int
      BY <1>7, <1>8
    <3> QED
      BY <1>11, <3>1
  <2>4. \A j, l \in 0 .. k - 1 : j # l => b[j] # b[l]
    <3> SUFFICES ASSUME NEW j \in 0 .. k - 1, NEW l \in 0 .. k - 1, j # l
                 PROVE  b[j] # b[l]
      OBVIOUS
    <3>1. j < l \/ l < j
      OBVIOUS
    <3> QED
      BY <1>11, <3>1
  <2> QED
    BY <1>4, <1>9, <1>10, <2>1, <2>2, <2>3, <2>4 DEF Sound
<1>13. IInv'
  BY <1>5, <1>6, <1>12, IterationEnds DEF IInv
<1>14. Contents = {}
  BY <1>5 DEF Contents
<1>15. Contents' \subseteq Elements
  <2>1. Rest(b, 0, k) \subseteq Elements
    BY <1>12 DEF Sound, Rest
  <2> QED
    BY <1>5, <1>6, <2>1, ContentsAre
<1> QED
  BY <1>13, <1>14, <1>15 DEF Set!Copy

LEMMA RemoveAtStep ==
    ASSUME IInv, NEW i \in 0 .. size - 1, RemoveIndex(i), EndIteration
    PROVE  IInv' /\ Set!Remove(array[i])
<1>1. PICK n : Sound(hashes, array, size, n)
  BY DEF IInv
<1>2. /\ \E m : Sound(hashes', array', size', m)
      /\ Rest(array', 0, size') = Rest(array, 0, size) \ {array[i]}
  BY <1>1, RemoveIndexSound
<1>3. IInv'
  BY <1>2, IterationEnds DEF IInv
<1>4. array[i] \in Contents
  BY DEF Contents
<1> QED
  BY <1>2, <1>3, <1>4, ContentsAre DEF Set!Remove

LEMMA ClearAllStep ==
    ASSUME IInv, ClearAll
    PROVE  IInv' /\ Set!Clear
<1>1. Sound(hashes', array', size', 0) /\ Rest(array', 0, size') = {}
  BY ClearSound DEF ClearAll
<1>2. IInv'
  BY <1>1, IterationEnds DEF IInv, ClearAll
<1> QED
  BY <1>1, <1>2, ContentsAre DEF Set!Clear

\* There are as many elements as size says.
LEMMA SizeIsRight ==
    ASSUME NEW n, Sound(hashes, array, size, n)
    PROVE  Cardinality(Contents) = size
<1> DEFINE S == 0 .. size - 1
           f == [i \in S |-> array[i]]
<1>1. size \in Nat
  BY DEF Sound
<1>2. IsFiniteSet(S) /\ Cardinality(S) = size
  BY <1>1, FS_Interval
<1>3. ExistsBijection(S, Contents)
  <2>1. f \in [S -> Contents]
    BY DEF Contents
  <2>2. \A i, j \in S : f[i] = f[j] => i = j
    BY DEF Sound
  <2>3. \A x \in Contents : \E i \in S : f[i] = x
    BY DEF Contents
  <2>4. f \in Bijection(S, Contents)
    BY <2>1, <2>2, <2>3 DEF Bijection, Injection, IsInjective, Surjection
  <2> QED
    BY <2>4 DEF ExistsBijection
<1> HIDE DEF S
<1> QED
  BY <1>2, <1>3, FS_Bijection

LEMMA RemoveStep ==
    ASSUME IInv, NEW e \in Elements, Remove(e)
    PROVE  IInv' /\ Set!Remove(e)
<1>1. PICK n : Sound(hashes, array, size, n)
  BY DEF IInv
<1>2. PICK i : i = IndexOf(e)
  OBVIOUS
<1>3. i >= 0 /\ RemoveIndex(i) /\ EndIteration
  BY <1>2 DEF Remove
<1>4. i \in 0 .. size - 1 /\ array[i] = e
  <2>1. ~(i \in Int /\ i < 0)
    BY <1>3
  <2> QED
    BY <1>1, <1>2, <2>1, IndexLands
<1> QED
  BY <1>3, <1>4, RemoveAtStep

\* The first element from index i on, and the others.
LEMMA RestFrom ==
    ASSUME NEW a, NEW s \in Nat, NEW i \in Nat, i < s
    PROVE  Rest(a, i, s) = {a[i]} \cup Rest(a, i + 1, s)
<1>1. \A j : j \in i .. s - 1 <=> j = i \/ j \in i + 1 .. s - 1
  OBVIOUS
<1> QED
  BY <1>1 DEF Rest

LEMMA IterateStep ==
    ASSUME IInv, Iterate
    PROVE  IInv' /\ UNCHANGED Contents
<1>1. PICK n : Sound(hashes, array, size, n)
  BY DEF IInv
<1>2. hashes' = hashes /\ array' = array /\ size' = size
  BY DEF Iterate, fields
<1>3. /\ it' = [on |-> TRUE, size |-> size, index |-> 0, canRemove |-> FALSE]
      /\ visited' = <<>> /\ toVisit' = Contents
  BY DEF Iterate
<1>4. size \in Nat
  BY <1>1 DEF Sound
<1>5. Contents \subseteq Elements
  BY <1>1 DEF Sound, Contents
<1>6. Cardinality(Contents) = size
  BY <1>1, SizeIsRight
<1>7. IteratorInv'
  BY <1>2, <1>3, <1>4, <1>5, <1>6, ContentsAre DEF IteratorInv
<1>8. (\E m : Sound(hashes, array, size, m))'
  BY <1>1, <1>2
<1> QED
  BY <1>2, <1>7, <1>8, ContentsAre DEF IInv

LEMMA IteratorNextStep ==
    ASSUME IInv, IteratorNext
    PROVE  IInv' /\ UNCHANGED Contents
<1>1. PICK n : Sound(hashes, array, size, n)
  BY DEF IInv
<1>2. hashes' = hashes /\ array' = array /\ size' = size
  BY DEF IteratorNext, fields
<1>3. PICK i, x, v : i = it.index /\ x = array[it.index] /\ v = visited
  OBVIOUS
<1>4. /\ it' = [it EXCEPT !.index = @ + 1, !.canRemove = TRUE]
      /\ visited' = Append(v, x) /\ toVisit' = toVisit
      /\ it.on /\ it.index < it.size
  BY <1>3 DEF IteratorNext, HasNext
<1>5. /\ it \in [on : BOOLEAN, size : Nat, index : Nat, canRemove : BOOLEAN]
      /\ v \in Seq(Elements) /\ toVisit \subseteq Elements
  BY <1>3 DEF IInv, IteratorInv
<1>6. /\ it.size = size
      /\ toVisit = {v[j] : j \in DOMAIN v} \cup Rest(array, i, size)
      /\ Len(v) + size - i = Cardinality(toVisit)
  BY <1>3, <1>4 DEF IInv, IteratorInv
<1>7. i \in Nat /\ size \in Nat /\ i < size
  BY <1>3, <1>4, <1>5, <1>6
<1>8. x \in Elements
  BY <1>1, <1>3, <1>7 DEF Sound
<1>9. /\ it'.on /\ it'.size = size /\ it'.index = i + 1
      /\ it' \in [on : BOOLEAN, size : Nat, index : Nat, canRemove : BOOLEAN]
  <2>1. PICK o, p : o = it /\ p = it'
    OBVIOUS
  <2>2. p = [o EXCEPT !.index = i + 1, !.canRemove = TRUE] /\ i + 1 \in Nat
    BY <1>3, <1>4, <1>7, <2>1
  <2>3. o \in [on : BOOLEAN, size : Nat, index : Nat, canRemove : BOOLEAN] /\ o.on /\ o.size = size
    BY <1>4, <1>5, <1>6, <2>1
  <2>4. /\ p.on /\ p.size = size /\ p.index = i + 1
        /\ p \in [on : BOOLEAN, size : Nat, index : Nat, canRemove : BOOLEAN]
    BY <2>2, <2>3
  <2> QED
    BY <2>1, <2>4
<1>10. /\ visited' \in Seq(Elements) /\ Len(visited') = Len(v) + 1 /\ Len(v) \in Nat
       /\ visited'[Len(v) + 1] = x
       /\ \A j \in 1 .. Len(v) : visited'[j] = v[j]
       /\ DOMAIN v = 1 .. Len(v) /\ DOMAIN visited' = 1 .. Len(v) + 1
  BY <1>4, <1>5, <1>8
<1>11. {visited'[j] : j \in DOMAIN visited'} = {v[j] : j \in DOMAIN v} \cup {x}
  <2>1. \A j : j \in 1 .. Len(v) + 1 <=> j \in 1 .. Len(v) \/ j = Len(v) + 1
    BY <1>10
  <2> QED
    BY <1>10, <2>1
<1>12. toVisit' = {visited'[j] : j \in DOMAIN visited'} \cup Rest(array', it'.index, size')
  <2>1. Rest(array, i, size) = {x} \cup Rest(array, i + 1, size)
    BY <1>3, <1>7, RestFrom
  <2> QED
    BY <1>2, <1>4, <1>6, <1>9, <1>11, <2>1
<1>13. Len(visited') + size' - it'.index = Cardinality(toVisit')
  <2>1. Len(visited') = Len(v) + 1 /\ Len(v) \in Nat
    BY <1>10
  <2>2. size' = size /\ it'.index = i + 1 /\ toVisit' = toVisit
    BY <1>2, <1>4, <1>9
  <2>3. Len(v) + 1 + size - (i + 1) = Len(v) + size - i
    BY <1>7, <2>1
  <2> QED
    BY <1>6, <2>1, <2>2, <2>3
<1>14. 0 < it'.index /\ 0 < Len(visited') /\ visited'[Len(visited')] = array'[it'.index - 1]
  <2>1. (i + 1) - 1 = i
    BY <1>7
  <2> QED
    BY <1>2, <1>3, <1>7, <1>9, <1>10, <2>1
<1>15. it'.index <= size' /\ it'.size = size'
  BY <1>2, <1>7, <1>9
<1>16. toVisit' \subseteq Elements
  BY <1>4, <1>5
<1>17. IteratorInv'
  BY <1>9, <1>10, <1>12, <1>13, <1>14, <1>15, <1>16 DEF IteratorInv
<1>18. (\E m : Sound(hashes, array, size, m))'
  BY <1>1, <1>2
<1> QED
  BY <1>2, <1>17, <1>18, ContentsAre DEF IInv

LEMMA IteratorRemoveStep ==
    ASSUME IInv, IteratorRemove
    PROVE  /\ IInv'
           /\ Contents' = Contents \ {visited[Len(visited)]}
           /\ visited[Len(visited)] \in Elements
           /\ Set!Remove(visited[Len(visited)])
<1>1. PICK n : Sound(hashes, array, size, n)
  BY DEF IInv
<1>2. PICK i, x : i = it.index - 1 /\ x = visited[Len(visited)]
  OBVIOUS
<1>3. /\ RemoveIndex(i) /\ it.on /\ it.canRemove
      /\ it' = [it EXCEPT !.index = @ - 1, !.size = @ - 1, !.canRemove = FALSE]
      /\ visited' = visited /\ toVisit' = toVisit
  BY <1>2 DEF IteratorRemove
<1>4. /\ it \in [on : BOOLEAN, size : Nat, index : Nat, canRemove : BOOLEAN]
      /\ visited \in Seq(Elements) /\ toVisit \subseteq Elements
  BY DEF IInv, IteratorInv
<1>5. /\ it.size = size /\ it.index <= size
      /\ 0 < it.index /\ 0 < Len(visited) /\ x = array[i]
      /\ toVisit = {visited[j] : j \in DOMAIN visited} \cup Rest(array, it.index, size)
      /\ Len(visited) + size - it.index = Cardinality(toVisit)
  BY <1>2, <1>3 DEF IInv, IteratorInv
<1>6. i \in 0 .. size - 1 /\ it.index = i + 1 /\ size \in Nat /\ size - 1 \in Nat
  BY <1>2, <1>4, <1>5
<1>7. /\ \E m : Sound(hashes', array', size', m)
      /\ size' = size - 1
      /\ Rest(array', 0, size') = Rest(array, 0, size) \ {x}
      /\ Rest(array', i, size') = Rest(array, i + 1, size)
  BY <1>1, <1>3, <1>5, <1>6, RemoveIndexSound
<1>8. /\ it'.index = i /\ it'.size = size' /\ it'.canRemove = FALSE
      /\ it' \in [on : BOOLEAN, size : Nat, index : Nat, canRemove : BOOLEAN]
  <2>1. PICK o, p : o = it /\ p = it'
    OBVIOUS
  <2>2. /\ p = [o EXCEPT !.index = o.index - 1, !.size = o.size - 1, !.canRemove = FALSE]
        /\ o.index - 1 = i /\ o.size - 1 = size - 1
    BY <1>2, <1>3, <1>5, <2>1
  <2>3. o \in [on : BOOLEAN, size : Nat, index : Nat, canRemove : BOOLEAN]
    BY <1>4, <2>1
  <2>4. /\ p.index = i /\ p.size = size - 1 /\ p.canRemove = FALSE
        /\ p \in [on : BOOLEAN, size : Nat, index : Nat, canRemove : BOOLEAN]
    <3>1. PICK k \in Nat, l \in Nat : k = o.index - 1 /\ l = o.size - 1 /\ k = i /\ l = size - 1
      BY <1>6, <2>2
    <3>2. p = [o EXCEPT !.index = k, !.size = l, !.canRemove = FALSE]
      BY <2>2, <3>1
    <3>3. /\ p.index = k /\ p.size = l /\ p.canRemove = FALSE
          /\ p \in [on : BOOLEAN, size : Nat, index : Nat, canRemove : BOOLEAN]
      BY <2>3, <3>2
    <3> QED
      BY <3>1, <3>3
  <2> QED
    BY <1>7, <2>1, <2>4
<1>9. toVisit' = {visited'[j] : j \in DOMAIN visited'} \cup Rest(array', it'.index, size')
  BY <1>3, <1>5, <1>6, <1>7, <1>8
<1>10. Len(visited') + size' - it'.index = Cardinality(toVisit')
  BY <1>3, <1>4, <1>5, <1>6, <1>7, <1>8
<1>11. it'.index <= size'
  BY <1>6, <1>7, <1>8
<1>12. IteratorInv'
  BY <1>3, <1>4, <1>8, <1>9, <1>10, <1>11 DEF IteratorInv
<1>13. x \in Contents /\ x \in Elements
  BY <1>1, <1>5, <1>6 DEF Sound, Contents
<1>14. Contents' = Contents \ {x}
  BY <1>7, ContentsAre
<1> QED
  BY <1>2, <1>7, <1>12, <1>13, <1>14 DEF IInv, Set!Remove

LEMMA Step ==
    ASSUME IInv, [Next]_vars
    PROVE  IInv' /\ [Set!Next]_Contents
<1>1. CASE UNCHANGED vars
  <2>1. /\ hashes' = hashes /\ array' = array /\ size' = size
        /\ it' = it /\ visited' = visited /\ toVisit' = toVisit
    BY <1>1 DEF vars, fields, iteration
  <2>2. Contents' = Contents
    BY <2>1 DEF Contents
  <2>3. IInv'
    BY <2>1 DEF IInv, IteratorInv
  <2> QED
    BY <2>2, <2>3
<1>2. ASSUME NEW e \in Elements, Add(e) \/ Remove(e)
      PROVE  IInv' /\ [Set!Next]_Contents
  BY <1>2, AddStep, RemoveStep DEF Set!Next
<1>3. ASSUME NEW i \in 0 .. size - 1, RemoveAt(i)
      PROVE  IInv' /\ [Set!Next]_Contents
  <2>1. IInv' /\ Set!Remove(array[i])
    BY <1>3, RemoveAtStep DEF RemoveAt
  <2>2. array[i] \in Elements
    BY DEF IInv, Sound
  <2> QED
    BY <2>1, <2>2 DEF Set!Next
<1>4. ASSUME NEW n \in Capacities, EnsureCapacity(n)
      PROVE  IInv' /\ [Set!Next]_Contents
  BY <1>4, EnsureCapacityStep
<1>5. ASSUME NEW s \in Others, AddAllToEmpty(s)
      PROVE  IInv' /\ [Set!Next]_Contents
  BY <1>5, AddAllStep DEF Set!Next
<1>6. CASE ClearAll
  BY <1>6, ClearAllStep DEF Set!Next
<1>7. CASE Iterate \/ IteratorNext
  BY <1>7, IterateStep, IteratorNextStep
<1>8. CASE IteratorRemove
  <2>1. PICK x : x = visited[Len(visited)]
    OBVIOUS
  <2>2. IInv' /\ x \in Elements /\ Set!Remove(x)
    BY <1>8, <2>1, IteratorRemoveStep
  <2> QED
    BY <2>2 DEF Set!Next
<1> QED
  BY <1>1, <1>2, <1>3, <1>4, <1>5, <1>6, <1>7, <1>8 DEF Next, Call

(***************************************************************************)
(* The theorems.                                                           *)
(***************************************************************************)

LEMMA Always == Spec => []IInv
<1>1. Init => IInv
  BY InitInv
<1>2. IInv /\ [Next]_vars => IInv'
  BY Step
<1> QED
  BY <1>1, <1>2, PTL DEF Spec

\* The fields keep their types and the two arrays one length, through growth
\* and shrinking.
THEOREM TypeCorrect == Spec => []TypeOK
<1>1. IInv => TypeOK
  <2> SUFFICES ASSUME IInv
               PROVE  TypeOK
    OBVIOUS
  <2>1. PICK n : Sound(hashes, array, size, n)
    BY DEF IInv
  <2>2. /\ n \in Nat /\ size \in 0 .. n
        /\ hashes \in [0 .. n - 1 -> Int] /\ array \in [0 .. n - 1 -> Elements \cup {Null}]
    BY <2>1 DEF Sound
  <2>3. DOMAIN array = 0 .. n - 1 /\ Cardinality(0 .. n - 1) = n
    BY <2>2, FS_Interval
  <2>4. /\ it \in [on : BOOLEAN, size : Nat, index : Nat, canRemove : BOOLEAN]
        /\ visited \in Seq(Elements) /\ toVisit \subseteq Elements
    BY DEF IInv, IteratorInv
  <2> QED
    BY <2>2, <2>3, <2>4 DEF TypeOK
<1> QED
  BY <1>1, Always, PTL

\* The hashes ascend and are those of the elements, and behind the elements no
\* reference is held: insertion into a run, removal, growth and shrinking, in
\* any order, by the set or by its iterator.
THEOREM ArraysStaySound == Spec => []ArraysAreSound
<1>1. IInv => ArraysAreSound
  <2> SUFFICES ASSUME IInv
               PROVE  ArraysAreSound
    OBVIOUS
  <2>1. PICK n : Sound(hashes, array, size, n)
    BY DEF IInv
  <2>2. n \in Nat /\ size \in Nat /\ DOMAIN array = 0 .. n - 1
    BY <2>1 DEF Sound
  <2>3. \A i \in 0 .. size - 1 : hashes[i] = HashOf[array[i]]
    BY <2>1 DEF Sound
  <2>4. \A i \in 1 .. size - 1 : hashes[i - 1] <= hashes[i]
    <3> SUFFICES ASSUME NEW i \in 1 .. size - 1
                 PROVE  hashes[i - 1] <= hashes[i]
      OBVIOUS
    <3>1. i - 1 \in 0 .. size - 1 /\ i \in 0 .. size - 1 /\ i - 1 <= i
      BY <2>2
    <3> QED
      BY <2>1, <3>1 DEF Sound
  <2>5. ReleasesElements
    BY <2>1, <2>2 DEF Sound, ReleasesElements
  <2> QED
    BY <2>3, <2>4, <2>5 DEF ArraysAreSound, HashesAscend
<1> QED
  BY <1>1, Always, PTL

\* indexOf finds every element that is in the set, among others of the same
\* hash too, and no other, and none is there twice.
THEOREM FindsWhatIsThere == Spec => []FindsExactly
<1>1. IInv => FindsExactly
  <2> SUFFICES ASSUME IInv
               PROVE  FindsExactly
    OBVIOUS
  <2>1. PICK n : Sound(hashes, array, size, n)
    BY DEF IInv
  <2>2. Cardinality(Contents) = size
    BY <2>1, SizeIsRight
  <2>3. ASSUME NEW e \in Elements
        PROVE  IF e \in Contents THEN IndexOf(e) >= 0 /\ array[IndexOf(e)] = e
                                 ELSE IndexOf(e) < 0
    <3>1. CASE IndexOf(e) \in 0 .. size - 1 /\ array[IndexOf(e)] = e
      <4>1. e \in Contents
        BY <3>1 DEF Contents
      <4>2. IndexOf(e) >= 0
        BY <2>1, <3>1 DEF Sound
      <4> QED
        BY <3>1, <4>1, <4>2
    <3>2. CASE e \notin Contents /\ IndexOf(e) < 0
      BY <3>2
    <3> QED
      BY <2>1, <3>1, <3>2, IndexLands
  <2> QED
    BY <2>2, <2>3 DEF FindsExactly
<1> QED
  BY <1>1, Always, PTL

\* An iterator returns each element of the set once, whichever of those it has
\* returned it removes on the way.
THEOREM EachIsReturnedOnce == Spec => []IteratesEachOnce
<1>1. IInv => IteratesEachOnce
  <2> SUFFICES ASSUME IInv, it.on
               PROVE  /\ toVisit = {visited[i] : i \in DOMAIN visited} \cup {array[i] : i \in it.index .. it.size - 1}
                      /\ Len(visited) + it.size - it.index = Cardinality(toVisit)
    BY DEF IteratesEachOnce
  <2>1. /\ it.size = size
        /\ toVisit = {visited[i] : i \in DOMAIN visited} \cup Rest(array, it.index, size)
        /\ Len(visited) + size - it.index = Cardinality(toVisit)
    BY DEF IInv, IteratorInv
  <2> QED
    BY <2>1 DEF Rest
<1> QED
  BY <1>1, Always, PTL

\* What an iterator removes is the element it returned last.
THEOREM IteratorRemovesReturned == Spec => RemovesReturned
<1>1. IInv => (IteratorRemove => Contents' = Contents \ {visited[Len(visited)]})
  BY IteratorRemoveStep
<1> QED
  BY <1>1, Always, PTL DEF RemovesReturned

\* The arrays implement the set: every call adds or removes the element it
\* names, and growing, shrinking and iterating change none.
THEOREM ArraysAreSet == Spec => ImplementsSet
<1>1. Init => Set!Init
  BY InitInv DEF Set!Init
<1>2. IInv /\ [Next]_vars => [Set!Next]_Contents
  BY Step
<1> QED
  BY <1>1, <1>2, Always, PTL DEF Spec, ImplementsSet, Set!Spec
=============================================================================
