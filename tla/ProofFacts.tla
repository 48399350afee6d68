----------------------------- MODULE ProofFacts -----------------------------
(* Facts about numbers, sequences, sets and searches that several proofs need. *)
EXTENDS ContainerHelpers, Sequences, FiniteSetTheorems, SequenceTheorems, TLAPS

\* Every set of natural numbers has a least element: what proofs by induction
\* on an index use, as the least counterexample.
LEMMA LeastNumber ==
    ASSUME NEW T \in SUBSET Nat, T # {}
    PROVE  \E m \in T : \A d \in T : m <= d
<1> DEFINE Downs == {0 .. m : m \in T}
           R == StrictSubsetOrdering(Nat)
<1>1. Downs \subseteq FiniteSubsetsOf(Nat) /\ Downs # {}
  <2>1. \A m \in Nat : IsFiniteSet(0 .. m) /\ 0 .. m \in SUBSET Nat
    BY FS_Interval
  <2> QED
    BY <2>1 DEF FiniteSubsetsOf
<1>2. IsWellFoundedOn(R, FiniteSubsetsOf(Nat))
  BY FS_StrictSubsetOrderingWellFounded
<1> HIDE DEF R
<1>3. PICK D \in Downs : \A E \in Downs : ~(<<E, D>> \in R)
  <2> HIDE DEF Downs
  <2> QED
    BY <1>1, <1>2, WFMin
<1>4. PICK m \in T : D = 0 .. m
  OBVIOUS
<1>5. ASSUME NEW d \in T
      PROVE  m <= d
  <2> SUFFICES ASSUME d < m
               PROVE  FALSE
    OBVIOUS
  <2>1. 0 .. d \in SUBSET Nat /\ 0 .. m \in SUBSET Nat
    OBVIOUS
  <2>2. (0 .. d) \subseteq (0 .. m) /\ (0 .. d) # (0 .. m)
    <3>1. m \in 0 .. m /\ m \notin 0 .. d
      OBVIOUS
    <3> QED
      BY <3>1
  <2>3. <<0 .. d, 0 .. m>> \in R
    BY <2>1, <2>2 DEF R, StrictSubsetOrdering
  <2> QED
    BY <1>3, <1>4, <2>3
<1> QED
  BY <1>5

\* Taking out the i-th element of a sequence, as SequencesExt's RemoveAt does.
LEMMA SequenceWithout ==
    ASSUME NEW S, NEW s \in Seq(S), NEW i \in 1 .. Len(s),
           NEW r, r = SubSeq(s, 1, i - 1) \o SubSeq(s, i + 1, Len(s))
    PROVE  /\ r \in Seq(S) /\ Len(r) = Len(s) - 1
           /\ r = [j \in 1 .. Len(s) - 1 |-> IF j < i THEN s[j] ELSE s[j + 1]]
<1> DEFINE a == SubSeq(s, 1, i - 1)
           b == SubSeq(s, i + 1, Len(s))
           n == Len(s)
<1>1. n \in Nat /\ i \in 1 .. n /\ i \in Nat
  OBVIOUS
<1>2. /\ a \in Seq(S) /\ Len(a) = i - 1
      /\ \A j \in 1 .. i - 1 : a[j] = s[j]
  OBVIOUS
<1>3. /\ b \in Seq(S) /\ Len(b) = n - i
      /\ \A j \in 1 .. n - i : b[j] = s[j + i]
  OBVIOUS
<1> HIDE DEF a, b, n
<1>4. /\ a \o b \in Seq(S) /\ Len(a \o b) = n - 1
      /\ \A j \in 1 .. n - 1 : (a \o b)[j] = IF j < i THEN a[j] ELSE b[j - (i - 1)]
  <2>1. /\ a \o b \in Seq(S) /\ Len(a \o b) = Len(a) + Len(b)
        /\ \A j \in 1 .. Len(a) + Len(b) :
             (a \o b)[j] = IF j <= Len(a) THEN a[j] ELSE b[j - Len(a)]
    BY <1>2, <1>3, ConcatProperties
  <2> QED
    BY <1>1, <1>2, <1>3, <2>1
<1>5. \A j \in 1 .. n - 1 : (a \o b)[j] = IF j < i THEN s[j] ELSE s[j + 1]
  BY <1>1, <1>2, <1>3, <1>4
<1>6. r = a \o b
  BY DEF a, b
<1>7. r \in [1 .. n - 1 -> S]
  BY <1>4, <1>6, LenProperties
<1>8. r = [j \in 1 .. n - 1 |-> IF j < i THEN s[j] ELSE s[j + 1]]
  BY <1>5, <1>6, <1>7
<1> QED
  BY <1>4, <1>6, <1>8 DEF n

\* A set of n units of one owner has n elements.
LEMMA UnitsOfSize ==
    ASSUME NEW k, NEW n \in Nat
    PROVE  IsFiniteSet({k} \X (1 .. n)) /\ Cardinality({k} \X (1 .. n)) = n
<1>1. IsFiniteSet({k}) /\ Cardinality({k}) = 1
  BY FS_Singleton
<1>2. IsFiniteSet(1 .. n) /\ Cardinality(1 .. n) = n
  BY FS_Interval
<1>3. /\ IsFiniteSet({k} \X (1 .. n))
      /\ Cardinality({k} \X (1 .. n)) = Cardinality({k}) * Cardinality(1 .. n)
  BY <1>1, <1>2, FS_Product
<1> QED
  BY <1>1, <1>2, <1>3

\* Replacing a part of a finite set by one that is new to the rest of it.
LEMMA SetReplaced ==
    ASSUME NEW S, IsFiniteSet(S), NEW Old, IsFiniteSet(Old), S \cap Old = Old,
           NEW New, IsFiniteSet(New), (S \ Old) \cap New = {}
    PROVE  /\ IsFiniteSet((S \ Old) \cup New)
           /\ Cardinality((S \ Old) \cup New)
                = Cardinality(S) - Cardinality(Old) + Cardinality(New)
           /\ Cardinality(S) \in Nat /\ Cardinality((S \ Old) \cup New) \in Nat
<1> DEFINE Rest == S \ Old
<1>1. IsFiniteSet(Rest) /\ Cardinality(Rest) = Cardinality(S) - Cardinality(Old)
  <2>1. /\ IsFiniteSet(S \ Old)
        /\ Cardinality(S \ Old) = Cardinality(S) - Cardinality(S \cap Old)
    BY FS_Difference
  <2> QED
    BY <2>1
<1>2. Rest \cap New = {}
  OBVIOUS
<1> HIDE DEF Rest
<1>3. Cardinality(Rest) \in Nat /\ Cardinality(S) \in Nat /\ Cardinality(New) \in Nat
  BY <1>1, FS_CardinalityType
<1>4. /\ IsFiniteSet(Rest \cup New)
      /\ Cardinality(Rest \cup New)
           = Cardinality(Rest) + Cardinality(New) - Cardinality(Rest \cap New)
  BY <1>1, FS_Union
<1>5. Cardinality(Rest \cap New) = 0
  BY <1>2, FS_EmptySet
<1>6. Cardinality(Rest \cup New) = Cardinality(S) - Cardinality(Old) + Cardinality(New)
  BY <1>1, <1>3, <1>4, <1>5
<1>7. Cardinality(Rest \cup New) \in Nat
  BY <1>4, FS_CardinalityType
<1> QED
  BY <1>3, <1>4, <1>6, <1>7 DEF Rest

\* In an array whose neighbours ascend, all do.
LEMMA NeighboursAscend ==
    ASSUME NEW n \in Nat, NEW f, \A i \in 0 .. n - 1 : f[i] \in Int,
           \A i \in 1 .. n - 1 : f[i - 1] <= f[i]
    PROVE  \A i, j \in 0 .. n - 1 : i <= j => f[i] <= f[j]
<1> SUFFICES ASSUME NEW i \in 0 .. n - 1
             PROVE  \A j \in 0 .. n - 1 : i <= j => f[i] <= f[j]
  OBVIOUS
<1> DEFINE T == {j \in 0 .. n - 1 : i <= j /\ ~(f[i] <= f[j])}
<1> SUFFICES ASSUME T # {}
             PROVE  FALSE
  OBVIOUS
<1>1. T \in SUBSET Nat
  OBVIOUS
<1>2. PICK j \in T : \A d \in T : j <= d
  <2> HIDE DEF T
  <2> QED
    BY <1>1, LeastNumber
<1>3. i < j /\ j - 1 \in 0 .. n - 1 /\ j - 1 \notin T
  BY <1>2
<1>4. f[i] <= f[j - 1]
  BY <1>3
<1> QED
  BY <1>2, <1>3, <1>4

\* A value that n steps from start lead to: the function that records the steps
\* exists, which is what a definition of it by recursion relies on.
LEMMA StepsExist ==
    ASSUME NEW S, NEW start \in S, NEW F \in [S -> S], NEW n \in Nat
    PROVE  \E f : f = [m \in 0 .. n |-> IF m = 0 THEN start ELSE F[f[m - 1]]]
<1> DEFINE Records(f, m) == f \in [0 .. m -> S] /\ \A l \in 0 .. m : f[l] = IF l = 0 THEN start ELSE F[f[l - 1]]
           T == {m \in Nat : ~\E f : Records(f, m)}
<1>1. T = {}
  <2> SUFFICES ASSUME T # {}
               PROVE  FALSE
    OBVIOUS
  <2>1. T \in SUBSET Nat
    OBVIOUS
  <2>2. PICK m \in T : \A d \in T : m <= d
    <3> HIDE DEF T
    <3> QED
      BY <2>1, LeastNumber
  <2>3. m # 0
    <3>1. Records([l \in 0 .. 0 |-> start], 0)
      OBVIOUS
    <3> QED
      BY <2>2, <3>1
  <2>4. PICK f : Records(f, m - 1)
    <3>1. m \in Nat
      BY <2>1, <2>2
    <3>2. m - 1 \in Nat /\ m - 1 \notin T
      <4> HIDE DEF T
      <4> QED
        BY <2>2, <2>3, <3>1
    <3> QED
      BY <3>2
  <2> DEFINE g == [l \in 0 .. m |-> IF l = m THEN F[f[m - 1]] ELSE f[l]]
  <2>5. g \in [0 .. m -> S]
    BY <2>3, <2>4
  <2>6. ASSUME NEW l \in 0 .. m
        PROVE  g[l] = IF l = 0 THEN start ELSE F[g[l - 1]]
    <3>1. CASE l = m
      BY <2>3, <3>1
    <3>2. CASE l # m
      BY <2>3, <2>4, <3>2
    <3> QED
      BY <3>1, <3>2
  <2>7. Records(g, m)
    BY <2>5, <2>6
  <2> QED
    BY <2>2, <2>7
<1>2. PICK f : Records(f, n)
  BY <1>1
<1> QED
  BY <1>2

\* What BinarySearch finds in an array that ascends: an index of the value, or
\* the place between the smaller and the greater elements.
LEMMA SearchLands ==
    ASSUME NEW n \in Nat, NEW f, \A i \in 0 .. n - 1 : f[i] \in Int,
           \A i \in 1 .. n - 1 : f[i - 1] <= f[i], NEW v \in Int
    PROVE  \/ /\ BinarySearch(f, n, v) \in 0 .. n - 1
              /\ f[BinarySearch(f, n, v)] = v
           \/ /\ BinarySearch(f, n, v) \in Int /\ BinarySearch(f, n, v) < 0
              /\ Inv(BinarySearch(f, n, v)) \in 0 .. n
              /\ \A i \in 0 .. Inv(BinarySearch(f, n, v)) - 1 : f[i] < v
              /\ \A i \in Inv(BinarySearch(f, n, v)) .. n - 1 : v < f[i]
<1> DEFINE S == [lo : Int, hi : Int]
           whole == [lo |-> 0, hi |-> n - 1]
           F == [p \in S |-> Halved(f, v, p)]
           Narrows(p) == p = [turns \in 0 .. n |-> IF turns = 0 THEN whole
                                                   ELSE Halved(f, v, p[turns - 1])]
           part == CHOOSE p : Narrows(p)
           \* What a turn keeps: the elements outside the part are not v.
           Around(p) == /\ p \in S /\ p.lo \in 0 .. n /\ p.hi \in -1 .. n - 1
                        /\ \A i \in 0 .. p.lo - 1 : f[i] < v
                        /\ \A i \in p.hi + 1 .. n - 1 : v < f[i]
                        /\ p.lo <= p.hi + 1
           Over(p) == p.lo > p.hi \/ f[Middle(p)] = v
<1>1. \A i, j \in 0 .. n - 1 : i <= j => f[i] <= f[j]
  BY NeighboursAscend
<1>2. \A p \in S : Middle(p) \in Int /\ Halved(f, v, p) \in S
  BY DEF Middle, Halved
<1>3. Narrows(part)
  <2>1. F \in [S -> S] /\ whole \in S
    BY <1>2
  <2>2. PICK p : p = [m \in 0 .. n |-> IF m = 0 THEN whole ELSE F[p[m - 1]]]
    <3> HIDE DEF S, whole, F
    <3> QED
      BY <2>1, StepsExist
  <2>3. \A m \in 0 .. n : p[m] \in S
    <3> DEFINE T == {m \in 0 .. n : p[m] \notin S}
    <3> SUFFICES ASSUME T # {}
                 PROVE  FALSE
      OBVIOUS
    <3>1. T \in SUBSET Nat
      OBVIOUS
    <3>2. PICK m \in T : \A d \in T : m <= d
      <4> HIDE DEF T
      <4> QED
        BY <3>1, LeastNumber
    <3> HIDE DEF S, whole, F
    <3>3. m # 0
      BY <2>1, <2>2, <3>2
    <3>4. m - 1 \in 0 .. n /\ p[m - 1] \in S
      BY <3>2, <3>3
    <3> QED
      BY <2>1, <2>2, <3>2, <3>3, <3>4
  <2>4. Narrows(p)
    <3>1. ASSUME NEW m \in 0 .. n, m # 0
          PROVE  F[p[m - 1]] = Halved(f, v, p[m - 1])
      <4>1. m - 1 \in 0 .. n
        BY <3>1
      <4> HIDE DEF S
      <4> QED
        BY <2>3, <4>1
    <3> HIDE DEF F, whole
    <3> QED
      BY <2>2, <3>1
  <2> QED
    BY <2>4
<1>4. Around(whole)
  OBVIOUS
<1>5. ASSUME NEW p, Around(p)
      PROVE  /\ Around(Halved(f, v, p))
             /\ Over(p) => Halved(f, v, p) = p
             /\ ~Over(p) => Halved(f, v, p).hi - Halved(f, v, p).lo < p.hi - p.lo
             /\ p.lo <= p.hi => Middle(p) \in p.lo .. p.hi /\ Middle(p) \in 0 .. n - 1
  <2>1. p.lo <= p.hi => /\ Middle(p) \in p.lo .. p.hi /\ Middle(p) \in 0 .. n - 1
                        /\ f[Middle(p)] \in Int
    BY <1>5 DEF Middle
  <2>2. CASE Over(p)
    BY <1>5, <2>1, <2>2 DEF Halved
  <2>3. CASE ~Over(p) /\ f[Middle(p)] < v
    <3> DEFINE c == Middle(p)
    <3>1. c \in 0 .. n - 1 /\ c \in p.lo .. p.hi
      BY <1>5, <2>1, <2>3
    <3>2. Halved(f, v, p) = [p EXCEPT !.lo = c + 1]
      BY <2>3 DEF Halved
    <3>3. Halved(f, v, p) = [lo |-> c + 1, hi |-> p.hi]
      BY <1>5, <3>2
    <3>4. \A i \in 0 .. c : f[i] < v
      BY <1>1, <2>3, <3>1
    <3> HIDE DEF c
    <3> QED
      BY <1>5, <2>1, <2>3, <3>1, <3>3, <3>4
  <2>4. CASE ~Over(p) /\ ~(f[Middle(p)] < v)
    <3> DEFINE c == Middle(p)
    <3>1. c \in 0 .. n - 1 /\ c \in p.lo .. p.hi
      BY <1>5, <2>1, <2>4
    <3>2. Halved(f, v, p) = [p EXCEPT !.hi = c - 1]
      BY <2>4 DEF Halved
    <3>3. Halved(f, v, p) = [lo |-> p.lo, hi |-> c - 1]
      BY <1>5, <3>2
    <3>4. v < f[c]
      BY <2>4, <3>1
    <3>5. \A i \in c .. n - 1 : v < f[i]
      BY <1>1, <3>1, <3>4
    <3> HIDE DEF c
    <3> QED
      BY <1>5, <2>1, <2>4, <3>1, <3>3, <3>5
  <2> QED
    BY <2>2, <2>3, <2>4
<1> DEFINE Smaller(m) == Around(part[m]) /\ (Over(part[m]) \/ part[m].hi - part[m].lo < n - m)
           T == {m \in 0 .. n : ~Smaller(m)}
<1>6. T = {}
  <2> SUFFICES ASSUME T # {}
               PROVE  FALSE
    OBVIOUS
  <2>1. T \in SUBSET Nat
    OBVIOUS
  <2>2. PICK m \in T : \A d \in T : m <= d
    <3> HIDE DEF T
    <3> QED
      BY <2>1, LeastNumber
  <2>3. m \in 0 .. n /\ ~Smaller(m)
    OBVIOUS
  <2>4. part[m] = IF m = 0 THEN whole ELSE Halved(f, v, part[m - 1])
    <3> HIDE DEF part, whole
    <3> QED
      BY <1>3, <2>3
  <2> HIDE DEF part
  <2>5. m # 0
    BY <1>4, <2>3, <2>4
  <2>6. m - 1 \in 0 .. n /\ Smaller(m - 1)
    <3> HIDE DEF Smaller
    <3> QED
      BY <2>2, <2>5
  <2> DEFINE p == part[m - 1]
             q == part[m]
  <2>7. /\ Around(q)
        /\ Over(p) => q = p
        /\ ~Over(p) => q.hi - q.lo < p.hi - p.lo
    <3> HIDE DEF Around, Over
    <3> QED
      BY <1>5, <2>4, <2>5, <2>6
  <2>8. CASE Over(p)
    <3> HIDE DEF Around, Over, p, q
    <3> QED
      BY <2>3, <2>7, <2>8 DEF q
  <2>9. CASE ~Over(p)
    <3>1. p.hi - p.lo < n - (m - 1) /\ p.hi - p.lo \in Int /\ q.hi - q.lo \in Int
      BY <2>6, <2>7, <2>9
    <3>2. q.hi - q.lo < n - m
      <4> HIDE DEF p, q
      <4> QED
        BY <2>3, <2>7, <2>9, <3>1
    <3> QED
      BY <2>3, <2>7, <3>2
  <2> QED
    BY <2>8, <2>9
<1> DEFINE last == part[n]
<1>7. Around(last) /\ Over(last)
  <2>1. Smaller(n)
    BY <1>6
  <2>2. Around(last)
    BY <2>1
  <2>3. last.hi - last.lo < 0 => last.lo > last.hi
    BY <2>2
  <2> QED
    BY <2>1, <2>3
<1>8. BinarySearch(f, n, v) = Landed(last)
  BY DEF BinarySearch, Narrowed
<1> HIDE DEF last
<1>9. CASE last.lo > last.hi
  <2>1. last.lo = last.hi + 1
    BY <1>7, <1>9
  <2>2. BinarySearch(f, n, v) = -last.lo - 1 /\ Inv(BinarySearch(f, n, v)) = last.lo
    BY <1>7, <1>8, <1>9 DEF Landed, Inv
  <2> QED
    BY <1>7, <2>1, <2>2
<1>10. CASE ~(last.lo > last.hi)
  BY <1>5, <1>7, <1>8, <1>10 DEF Landed
<1> QED
  BY <1>9, <1>10

\* The length chosen for an array is long enough.
LEMMA LengthFits ==
    ASSUME NEW need \in 0 .. LongestArray
    PROVE  IdealIntArraySize(need) \in Nat /\ need <= IdealIntArraySize(need)
<1> DEFINE Fitting == {n \in {2 ^ i - 3 : i \in 2 .. 29} : need <= n}
<1>1. \A i \in 2 .. 29 : 2 ^ i - 3 \in Int
  OBVIOUS
<1>2. Fitting \in SUBSET Nat
  BY <1>1
<1>3. LongestArray \in Fitting
  <2>1. 2 ^ 29 - 3 \in {2 ^ i - 3 : i \in 2 .. 29}
    OBVIOUS
  <2> QED
    BY <2>1 DEF LongestArray
<1>4. IdealIntArraySize(need) = CHOOSE n \in Fitting : \A m \in Fitting : n <= m
  BY DEF IdealIntArraySize
<1>5. \E n \in Fitting : \A m \in Fitting : n <= m
  <2> HIDE DEF Fitting
  <2> QED
    BY <1>2, <1>3, LeastNumber
<1>6. IdealIntArraySize(need) \in Fitting
  <2> HIDE DEF Fitting
  <2> QED
    BY <1>4, <1>5
<1> QED
  BY <1>2, <1>6

\* Of the elements of a finite set of numbers a greater one has more smaller
\* ones in the set, and every number of them up to the size is that of one.
LEMMA SmallerOnes ==
    ASSUME NEW L, \A i \in L : i \in Nat, IsFiniteSet(L)
    PROVE  /\ Cardinality(L) \in Nat
           /\ \A i \in L : Cardinality({j \in L : j < i}) \in 0 .. Cardinality(L) - 1
           /\ \A i, k \in L : i < k => Cardinality({j \in L : j < i}) < Cardinality({j \in L : j < k})
           /\ \A o \in 0 .. Cardinality(L) - 1 : \E i \in L : Cardinality({j \in L : j < i}) = o
<1> DEFINE Below(i) == {j \in L : j < i}
           n == Cardinality(L)
<1>1. n \in Nat /\ \A i \in L : i \in Nat
  BY FS_CardinalityType
<1>2. ASSUME NEW i \in L
      PROVE  IsFiniteSet(Below(i)) /\ Cardinality(Below(i)) \in 0 .. n - 1
  <2>1. Below(i) \in SUBSET L /\ Below(i) # L
    OBVIOUS
  <2> HIDE DEF Below
  <2>2. /\ IsFiniteSet(Below(i)) /\ Cardinality(Below(i)) <= n
        /\ Cardinality(Below(i)) # n
    BY <2>1, FS_Subset
  <2>3. Cardinality(Below(i)) \in Nat
    BY <2>2, FS_CardinalityType
  <2> QED
    BY <1>1, <2>2, <2>3
<1>3. ASSUME NEW i \in L, NEW k \in L, i < k
      PROVE  Cardinality(Below(i)) < Cardinality(Below(k))
  <2>1. Below(i) \in SUBSET Below(k) /\ Below(i) # Below(k)
    <3>1. i \in Below(k) /\ i \notin Below(i)
      BY <1>3
    <3>2. Below(i) \in SUBSET Below(k)
      BY <1>1, <1>3
    <3> HIDE DEF Below
    <3> QED
      BY <3>1, <3>2
  <2> HIDE DEF Below
  <2>2. Cardinality(Below(i)) <= Cardinality(Below(k)) /\ Cardinality(Below(i)) # Cardinality(Below(k))
    BY <1>2, <2>1, FS_Subset
  <2> QED
    BY <1>2, <2>2
<1>4. \A o \in 0 .. n - 1 : \E i \in L : Cardinality(Below(i)) = o
  <2> DEFINE T == {o \in 0 .. n - 1 : ~\E i \in L : Cardinality(Below(i)) = o}
  <2> SUFFICES ASSUME T # {}
               PROVE  FALSE
    OBVIOUS
  <2>1. T \in SUBSET Nat
    OBVIOUS
  <2>2. PICK o \in T : \A d \in T : o <= d
    <3> HIDE DEF T
    <3> QED
      BY <2>1, LeastNumber
  <2>3. o \in 0 .. n - 1 /\ ~\E i \in L : Cardinality(Below(i)) = o
    OBVIOUS
  <2>4. CASE o = 0
    <3>1. L # {}
      BY <1>1, <2>3, FS_EmptySet
    <3>2. PICK i \in L : \A d \in L : i <= d
      BY <3>1, LeastNumber
    <3>3. Below(i) = {}
      BY <1>1, <3>2
    <3>4. Cardinality(Below(i)) = 0
      BY <3>3, FS_EmptySet
    <3> QED
      BY <2>3, <2>4, <3>4
  <2>5. CASE o # 0
    <3>1. o - 1 \in 0 .. n - 1 /\ o - 1 \notin T
      <4> HIDE DEF T
      <4> QED
        BY <1>1, <2>2, <2>3, <2>5
    <3>2. PICK i \in L : Cardinality(Below(i)) = o - 1
      BY <3>1
    <3> DEFINE Above == {j \in L : i < j}
               Upto == Below(i) \cup {i}
    <3>3. IsFiniteSet(Upto) /\ Cardinality(Upto) = o
      <4>1. i \notin Below(i)
        OBVIOUS
      <4> HIDE DEF Below
      <4>2. IsFiniteSet(Below(i) \cup {i}) /\ Cardinality(Below(i) \cup {i}) = Cardinality(Below(i)) + 1
        BY <1>2, <4>1, FS_AddElement
      <4> QED
        BY <2>3, <3>2, <4>2
    <3>4. Above # {}
      <4> SUFFICES ASSUME Above = {}
                   PROVE  FALSE
        OBVIOUS
      <4>1. L = Upto
        BY <1>1
      <4> HIDE DEF Upto
      <4> QED
        BY <1>1, <2>3, <3>3, <4>1
    <3>5. PICK k \in Above : \A d \in Above : k <= d
      <4>1. Above \in SUBSET Nat
        OBVIOUS
      <4> HIDE DEF Above
      <4> QED
        BY <3>4, <4>1, LeastNumber
    <3>6. k \in L /\ Below(k) = Upto
      BY <1>1, <3>5
    <3> HIDE DEF Below, Upto
    <3> QED
      BY <2>3, <3>3, <3>6
  <2> QED
    BY <2>4, <2>5
<1> QED
  BY <1>1, <1>2, <1>3, <1>4

\* They can be taken in order: first the one with no smaller one.
LEMMA InOrder ==
    ASSUME NEW L, \A i \in L : i \in Nat, IsFiniteSet(L), NEW From,
           From = [o \in 0 .. Cardinality(L) - 1 |->
                     CHOOSE i \in L : Cardinality({j \in L : j < i}) = o]
    PROVE  /\ \A o \in 0 .. Cardinality(L) - 1 : From[o] \in L
           /\ \A o, p \in 0 .. Cardinality(L) - 1 : o < p => From[o] < From[p]
           /\ \A i \in L : \E o \in 0 .. Cardinality(L) - 1 : From[o] = i
<1> DEFINE below == [i \in L |-> Cardinality({j \in L : j < i})]
           n == Cardinality(L)
<1> \A i \in L : i \in Nat
  OBVIOUS
<1>1. /\ n \in Nat
      /\ \A i \in L : below[i] \in 0 .. n - 1
      /\ \A i, k \in L : i < k => below[i] < below[k]
      /\ \A o \in 0 .. n - 1 : \E i \in L : below[i] = o
  <2>1. /\ n \in Nat
        /\ \A i \in L : Cardinality({j \in L : j < i}) \in 0 .. n - 1
        /\ \A i, k \in L : i < k => Cardinality({j \in L : j < i}) < Cardinality({j \in L : j < k})
        /\ \A o \in 0 .. n - 1 : \E i \in L : Cardinality({j \in L : j < i}) = o
    BY SmallerOnes
  <2> QED
    BY <2>1
<1>2. ASSUME NEW o \in 0 .. n - 1
      PROVE  From[o] = CHOOSE i \in L : below[i] = o
  OBVIOUS
<1> HIDE DEF below
<1>3. ASSUME NEW o \in 0 .. n - 1
      PROVE  From[o] \in L /\ below[From[o]] = o
  BY <1>1, <1>2
<1>4. ASSUME NEW g, \A o \in 0 .. n - 1 : g[o] \in L /\ below[g[o]] = o,
             NEW o \in 0 .. n - 1, NEW p \in 0 .. n - 1, o < p
      PROVE  g[o] < g[p]
  <2>1. g[o] \in Nat /\ g[p] \in Nat /\ g[o] # g[p]
    BY <1>1, <1>4
  <2>2. ~(g[p] < g[o])
    BY <1>1, <1>4
  <2> QED
    BY <2>1, <2>2
<1>5. \A i, k \in L : below[i] = below[k] => i = k
  <2> SUFFICES ASSUME NEW i \in L, NEW k \in L, below[i] = below[k]
               PROVE  i = k
    OBVIOUS
  <2>1. ~(i < k) /\ ~(k < i) /\ i \in Nat /\ k \in Nat
    BY <1>1
  <2> QED
    BY <2>1
<1> HIDE DEF n
<1>6. \A o \in 0 .. n - 1 : From[o] \in L /\ below[From[o]] = o
  BY <1>3
<1>7. \A o, p \in 0 .. n - 1 : o < p => From[o] < From[p]
  BY <1>4, <1>6
<1>8. ASSUME NEW i \in L
      PROVE  \E o \in 0 .. n - 1 : From[o] = i
  <2>1. below[i] \in 0 .. n - 1
    BY <1>1
  <2>2. From[below[i]] \in L /\ below[From[below[i]]] = below[i]
    BY <1>6, <2>1
  <2>3. From[below[i]] = i
    BY <1>5, <2>2
  <2> QED
    BY <2>1, <2>3
<1> QED
  BY <1>6, <1>7, <1>8 DEF n

\* f records the n steps, or the n turns, of F from start.
StepsOf(f, n, start, F) ==
    /\ f = [m \in 0 .. n |-> f[m]]
    /\ \A m \in 0 .. n : f[m] = IF m = 0 THEN start ELSE F[f[m - 1]]

TurnsOf(f, n, start, F) ==
    /\ f = [m \in 0 .. n |-> f[m]]
    /\ \A m \in 0 .. n : f[m] = IF m = 0 THEN start ELSE F[<<m, f[m - 1]>>]

\* What StepsExist says, as one fact for the provers.
LEMMA StepsRecorded ==
    ASSUME NEW S, NEW start \in S, NEW F \in [S -> S], NEW n \in Nat
    PROVE  \E f : StepsOf(f, n, start, F)
<1>1. \E f : /\ f = [m \in 0 .. n |-> f[m]]
             /\ \A m \in 0 .. n : f[m] = IF m = 0 THEN start ELSE F[f[m - 1]]
  BY StepsExist
<1> QED
  BY <1>1 DEF StepsOf

\* A value for each of n turns that lead to it from start, each in its own way:
\* the function that records them exists.
LEMMA TurnsExist ==
    ASSUME NEW S, NEW start \in S, NEW n \in Nat, NEW F \in [(1 .. n) \X S -> S]
    PROVE  \E f : TurnsOf(f, n, start, F)
<1> DEFINE P == (0 .. n) \X S
           G == [p \in P |-> IF p[1] < n THEN <<p[1] + 1, F[<<p[1] + 1, p[2]>>]>> ELSE p]
           first == <<0, start>>
<1>1. G \in [P -> P] /\ first \in P
  <2>1. ASSUME NEW p \in P
        PROVE  G[p] \in P
    <3>1. p[1] \in 0 .. n /\ p[2] \in S /\ p = <<p[1], p[2]>>
      OBVIOUS
    <3>2. CASE p[1] < n
      <4>1. <<p[1] + 1, p[2]>> \in (1 .. n) \X S
        BY <3>1, <3>2
      <4>2. F[<<p[1] + 1, p[2]>>] \in S
        BY <4>1
      <4>3. G[p] = <<p[1] + 1, F[<<p[1] + 1, p[2]>>]>>
        BY <3>2
      <4> QED
        BY <3>1, <3>2, <4>2, <4>3
    <3>3. CASE ~(p[1] < n)
      BY <3>3
    <3> QED
      BY <3>2, <3>3
  <2>2. first \in P
    OBVIOUS
  <2> QED
    BY <2>1, <2>2
<1>2. PICK g : \A m \in 0 .. n : g[m] = IF m = 0 THEN first ELSE G[g[m - 1]]
  <2>1. n \in Nat /\ G \in [P -> P] /\ first \in P
    BY <1>1
  <2> HIDE DEF G, P, first
  <2>2. \E g : StepsOf(g, n, first, G)
    BY <2>1, StepsRecorded
  <2> QED
    BY <2>2 DEF StepsOf
<1> DEFINE Right(m) == g[m] \in P /\ g[m][1] = m
           T == {m \in 0 .. n : ~Right(m)}
<1>3. T = {}
  <2> SUFFICES ASSUME T # {}
               PROVE  FALSE
    OBVIOUS
  <2>1. T \subseteq Nat
    OBVIOUS
  <2>2. PICK m \in T : \A d \in T : m <= d
    <3> HIDE DEF T
    <3> QED
      BY <2>1, LeastNumber
  <2>3. m \in 0 .. n /\ ~Right(m)
    OBVIOUS
  <2>4. m # 0
    <3> SUFFICES ASSUME m = 0
                 PROVE  FALSE
      OBVIOUS
    <3>1. g[0] = first
      <4> HIDE DEF G, first, P
      <4> QED
        BY <1>2
    <3>2. Right(0)
      BY <1>1, <3>1
    <3> QED
      BY <2>3, <3>2
  <2>5. m - 1 \in 0 .. n /\ Right(m - 1)
    <3> HIDE DEF Right
    <3>1. m - 1 \in 0 .. n /\ m - 1 \notin T
      <4> HIDE DEF T
      <4> QED
        BY <2>2, <2>3, <2>4
    <3> QED
      BY <3>1
  <2>6. g[m] = G[g[m - 1]]
    <3> HIDE DEF G, first
    <3> QED
      BY <1>2, <2>3, <2>4
  <2>7. g[m - 1] \in P /\ g[m - 1][1] < n /\ g[m - 1][1] = m - 1
    BY <2>3, <2>4, <2>5
  <2>8. g[m][1] = m
    <3>1. G[g[m - 1]] = <<g[m - 1][1] + 1, F[<<g[m - 1][1] + 1, g[m - 1][2]>>]>>
      BY <2>7
    <3> QED
      BY <2>3, <2>6, <2>7, <3>1
  <2>9. g[m] \in P
    <3> HIDE DEF G, P
    <3> QED
      BY <1>1, <2>6, <2>7
  <2> QED
    BY <2>3, <2>8, <2>9
<1> DEFINE f == [m \in 0 .. n |-> g[m][2]]
<1>4. ASSUME NEW m \in 0 .. n
      PROVE  f[m] = IF m = 0 THEN start ELSE F[<<m, f[m - 1]>>]
  <2>1. CASE m = 0
    <3>1. g[0] = first
      <4> HIDE DEF G, first, P
      <4> QED
        BY <1>2
    <3>2. g[0][2] = start
      BY <3>1
    <3> HIDE DEF G, P, first
    <3> QED
      BY <2>1, <3>2
  <2>2. CASE m # 0
    <3>1. m - 1 \in 0 .. n
      BY <2>2
    <3>2. Right(m - 1)
      BY <1>3, <3>1
    <3>3. g[m] = G[g[m - 1]]
      <4> HIDE DEF G, first
      <4> QED
        BY <1>2, <2>2
    <3>4. g[m] = <<m, F[<<m, g[m - 1][2]>>]>>
      BY <2>2, <3>2, <3>3
    <3> HIDE DEF G
    <3> QED
      BY <2>2, <3>1, <3>4
  <2> QED
    BY <2>1, <2>2
<1>5. f = [m \in 0 .. n |-> f[m]]
  OBVIOUS
<1> HIDE DEF f
<1>6. TurnsOf(f, n, start, F)
  BY <1>4, <1>5 DEF TurnsOf
<1> QED
  BY <1>6

(***************************************************************************)
(* Powers of two, remainders and triangular numbers: the order in which a  *)
(* hash table is probed.                                                   *)
(***************************************************************************)

PowersOf2 == {2 ^ i : i \in 0 .. 30}

\* A power of two is 1 or twice another.
LEMMA PowersHalve ==
    ASSUME NEW q \in PowersOf2
    PROVE  /\ q \in Nat /\ q > 0 /\ q <= 2 ^ 30
           /\ q # 1 => \E p \in PowersOf2 : q = 2 * p
           /\ q # 2 ^ 30 => 2 * q \in PowersOf2
<1> DEFINE P == [i \in 0 .. 30 |-> 2 ^ i]
<1>1. \A i \in 0 .. 30 : P[i] = 2 ^ i
  OBVIOUS
<1>2. /\ P[0] = 1 /\ P[1] = 2 /\ P[2] = 4
      /\ P[3] = 8 /\ P[4] = 16 /\ P[5] = 32 /\ P[6] = 64 /\ P[7] = 128
      /\ P[8] = 256 /\ P[9] = 512 /\ P[10] = 1024 /\ P[11] = 2048
      /\ P[12] = 4096 /\ P[13] = 8192 /\ P[14] = 16384 /\ P[15] = 32768
      /\ P[16] = 65536 /\ P[17] = 131072 /\ P[18] = 262144
      /\ P[19] = 524288 /\ P[20] = 1048576 /\ P[21] = 2097152
      /\ P[22] = 4194304 /\ P[23] = 8388608 /\ P[24] = 16777216
      /\ P[25] = 33554432 /\ P[26] = 67108864 /\ P[27] = 134217728
      /\ P[28] = 268435456 /\ P[29] = 536870912 /\ P[30] = 1073741824
  BY <1>1
<1> HIDE DEF P
<1>3. \A i \in 0 .. 29 : P[i + 1] = 2 * P[i]
  BY <1>2
<1>4. \A i \in 0 .. 30 : P[i] \in Nat /\ P[i] > 0 /\ P[i] <= P[30]
  BY <1>2
<1>5. PICK i \in 0 .. 30 : q = P[i]
  BY <1>1 DEF PowersOf2
<1>6. q # 1 => \E p \in PowersOf2 : q = 2 * p
  <2> SUFFICES ASSUME i # 0
               PROVE  \E p \in PowersOf2 : q = 2 * p
    BY <1>2, <1>5
  <2>1. i - 1 \in 0 .. 29
    OBVIOUS
  <2>2. P[i] = 2 * P[i - 1] /\ P[i - 1] \in PowersOf2
    BY <1>1, <1>3, <2>1 DEF PowersOf2
  <2> QED
    BY <1>5, <2>2
<1>7. q # 2 ^ 30 => 2 * q \in PowersOf2
  <2> SUFFICES ASSUME i # 30
               PROVE  2 * q \in PowersOf2
    BY <1>1, <1>5
  <2>1. i \in 0 .. 29 /\ i + 1 \in 0 .. 30
    OBVIOUS
  <2> QED
    BY <1>1, <1>3, <1>5, <2>1 DEF PowersOf2
<1> QED
  BY <1>1, <1>4, <1>5, <1>6, <1>7

Divides(q, b) == \E k \in Int : b = q * k

\* A power of two that divides the product of an odd number and another one
\* divides the other.
LEMMA OddFactor ==
    ASSUME NEW a \in Int, a % 2 = 1, NEW q \in PowersOf2, NEW b \in Int,
           Divides(q, a * b)
    PROVE  Divides(q, b)
<1> DEFINE Fails(p) == \E x, y \in Int : a * x = p * y /\ ~\E l \in Int : x = p * l
           T == {p \in PowersOf2 : Fails(p)}
<1> SUFFICES ASSUME T # {}
             PROVE  FALSE
  <2>1. Fails(q) => T # {}
    OBVIOUS
  <2> HIDE DEF T
  <2> QED
    BY <2>1 DEF Divides
<1> USE DEF Divides
<1>0. PICK u \in Int : a = 2 * u + 1
  <2>1. a \div 2 \in Int /\ a = 2 * (a \div 2) + 1
    OBVIOUS
  <2> QED
    BY <2>1
<1>1. T \in SUBSET Nat
  BY PowersHalve
<1>2. PICK p \in T : \A d \in T : p <= d
  <2> HIDE DEF T
  <2> QED
    BY <1>1, LeastNumber
<1>3. PICK x \in Int, y \in Int : a * x = p * y /\ ~\E l \in Int : x = p * l
  OBVIOUS
<1>4. p # 1
  <2>1. x = 1 * x
    OBVIOUS
  <2> QED
    BY <1>3, <2>1
<1>5. PICK r \in PowersOf2 : p = 2 * r
  <2>1. p \in PowersOf2
    OBVIOUS
  <2> QED
    BY <1>4, <2>1, PowersHalve
<1>6. r \in Nat /\ r > 0 /\ p \in Nat
  BY <1>1, <1>5, PowersHalve
<1> DEFINE z == r * y - u * x
<1>7. z \in Int /\ u * x \in Int /\ r * y \in Int
  BY <1>6
<1>8. x = 2 * z
  <2>1. a * x = 2 * (u * x) + x
    <3>1. (2 * u + 1) * x = 2 * (u * x) + x
      OBVIOUS
    <3> QED
      BY <1>0, <3>1
  <2>2. p * y = 2 * (r * y)
    BY <1>5, <1>6
  <2> HIDE DEF T
  <2> QED
    BY <1>3, <1>7, <2>1, <2>2
<1>9. a * z = r * y
  <2>1. a * x = 2 * (a * z)
    <3> HIDE DEF z
    <3> QED
      BY <1>7, <1>8
  <2>2. p * y = 2 * (r * y)
    BY <1>5, <1>6
  <2>3. a * z \in Int
    <3> HIDE DEF z
    <3> QED
      BY <1>7
  <2> HIDE DEF z
  <2> QED
    BY <1>3, <1>7, <2>1, <2>2, <2>3
<1>10. r \notin T
  <2> HIDE DEF T
  <2> QED
    BY <1>2, <1>5, <1>6
<1>11. PICK l \in Int : z = r * l
  <2> HIDE DEF z
  <2> QED
    BY <1>5, <1>7, <1>9, <1>10
<1>12. x = p * l
  <2>1. 2 * (r * l) = (2 * r) * l
    BY <1>6
  <2> HIDE DEF z
  <2> QED
    BY <1>5, <1>8, <1>11, <2>1
<1> QED
  BY <1>3, <1>12

\* Division with remainder.
LEMMA DivMod ==
    ASSUME NEW x \in Int, NEW m \in Nat, m > 0
    PROVE  x \div m \in Int /\ x % m \in 0 .. m - 1 /\ x = m * (x \div m) + (x % m)
OBVIOUS

\* There is only one way to divide with remainder.
LEMMA DivModUnique ==
    ASSUME NEW m \in Nat, m > 0, NEW a \in Int, NEW r \in 0 .. m - 1,
           NEW x \in Int, x = m * a + r
    PROVE  x \div m = a /\ x % m = r
<1> DEFINE b == x \div m
           s == x % m
<1>1. b \in Int /\ s \in 0 .. m - 1 /\ x = m * b + s
  BY DivMod
<1> HIDE DEF b, s
<1>2. m * (a - b) = s - r
  <2>1. m * (a - b) = m * a - m * b /\ m * a \in Int /\ m * b \in Int
    BY <1>1
  <2> QED
    BY <1>1, <2>1
<1>3. ~(a - b >= 1)
  <2> SUFFICES ASSUME a - b >= 1
               PROVE  m * (a - b) >= m
    BY <1>1, <1>2
  <2> QED
    BY <1>1
<1>4. ~(a - b <= -1)
  <2> SUFFICES ASSUME a - b <= -1
               PROVE  m * (a - b) <= -m
    BY <1>1, <1>2
  <2> QED
    BY <1>1
<1>5. a = b
  BY <1>1, <1>3, <1>4
<1>6. s = r
  BY <1>1, <1>2, <1>5
<1> QED
  BY <1>5, <1>6 DEF b, s

\* Numbers of the same remainder differ by a multiple.
LEMMA SameRemainder ==
    ASSUME NEW m \in Nat, m > 0, NEW x \in Int, NEW y \in Int, x % m = y % m
    PROVE  \E k \in Int : x - y = m * k
<1>1. PICK a \in Int, b \in Int, r \in Int : x = m * a + r /\ y = m * b + r
  <2>1. /\ x \div m \in Int /\ x % m \in Int /\ x = m * (x \div m) + (x % m)
        /\ y \div m \in Int /\ y = m * (y \div m) + (x % m)
    BY DivMod
  <2> QED
    BY <2>1
<1>2. m * (a - b) = m * a - m * b /\ m * a \in Int /\ m * b \in Int
  OBVIOUS
<1>3. x - y = m * (a - b) /\ a - b \in Int
  BY <1>1, <1>2
<1> QED
  BY <1>3

\* The half of n * (n + 1).
LEMMA TriangularHalf ==
    ASSUME NEW n \in Nat
    PROVE  /\ (n * (n + 1)) \div 2 \in Nat
           /\ n * (n + 1) = 2 * ((n * (n + 1)) \div 2)
<1>1. n * (n + 1) \in Nat
  OBVIOUS
<1>2. \A w \in Nat, z \in Nat : w = 2 * z => w \div 2 = z
  OBVIOUS
<1>3. \E z \in Nat : n * (n + 1) = 2 * z
  <2>1. CASE n % 2 = 0
    <3>1. PICK m \in Nat : n = 2 * m
      BY <2>1
    <3>2. n * (n + 1) = 2 * (m * (n + 1)) /\ m * (n + 1) \in Nat
      BY <3>1
    <3> QED
      BY <3>2
  <2>2. CASE n % 2 = 1
    <3>1. PICK m \in Nat : n + 1 = 2 * m
      <4>1. n = 2 * (n \div 2) + 1 /\ n \div 2 \in Nat
        BY <2>2
      <4>2. n + 1 = 2 * (n \div 2 + 1) /\ n \div 2 + 1 \in Nat
        BY <4>1
      <4> QED
        BY <4>2
    <3>2. n * (n + 1) = 2 * (n * m) /\ n * m \in Nat
      BY <3>1
    <3> QED
      BY <3>2
  <2> QED
    BY <2>1, <2>2
<1> QED
  BY <1>1, <1>2, <1>3

\* Two triangular numbers among the first q differ modulo q.
LEMMA TriangularDiffer ==
    ASSUME NEW q \in PowersOf2, 2 * q \in PowersOf2,
           NEW n \in 0 .. q - 1, NEW m \in 0 .. q - 1, n < m,
           NEW s \in Int, NEW t \in Int, n * (n + 1) = 2 * s, m * (m + 1) = 2 * t,
           s % q = t % q
    PROVE  FALSE
<1>1. q \in Nat /\ q > 0
  BY PowersHalve
<1>2. PICK k \in Int : t - s = q * k
  BY <1>1, SameRemainder
<1>3. PICK x \in 1 .. q - 1, y \in 1 .. 2 * q - 1 : x = m - n /\ y = m + n + 1
  BY <1>1
<1>4. x * y = (2 * q) * k
  <2>1. x * y = m * (m + 1) - n * (n + 1)
    <3>1. \A a, b \in Int : (b - a) * (b + a + 1) = b * (b + 1) - a * (a + 1)
      OBVIOUS
    <3> QED
      BY <1>1, <1>3, <3>1
  <2>2. (2 * q) * k = 2 * (q * k) /\ q * k \in Int
    BY <1>1
  <2> QED
    BY <1>2, <2>1, <2>2
<1>5. \A l \in Int : l > 0 => (2 * q) * l >= 2 * q
  BY <1>1
<1>6. \A l \in Int, z \in 1 .. 2 * q - 1 : z # (2 * q) * l
  <2> SUFFICES ASSUME NEW l \in Int, NEW z \in 1 .. 2 * q - 1, z = (2 * q) * l
               PROVE  FALSE
    OBVIOUS
  <2>1. l > 0
    BY <1>1
  <2> QED
    BY <1>1, <1>5, <2>1
<1>9. PICK w \in PowersOf2 : w = 2 * q /\ x \in Int /\ y \in Int
  BY <1>1, <1>3
<1>7. CASE x % 2 = 1
  <2>1. Divides(w, x * y)
    BY <1>4, <1>9 DEF Divides
  <2>2. Divides(w, y)
    BY <1>7, <1>9, <2>1, OddFactor
  <2> QED
    BY <1>3, <1>6, <1>9, <2>2 DEF Divides
<1>8. CASE x % 2 = 0
  <2>1. y % 2 = 1
    BY <1>3, <1>8
  <2>2. Divides(w, y * x)
    BY <1>4, <1>9 DEF Divides
  <2>3. Divides(w, x)
    BY <1>9, <2>1, <2>2, OddFactor
  <2> QED
    BY <1>1, <1>3, <1>6, <1>9, <2>3 DEF Divides
<1> QED
  BY <1>3, <1>7, <1>8

\* The first q triangular numbers leave every remainder modulo q.
LEMMA Triangular ==
    ASSUME NEW q \in PowersOf2, q # 2 ^ 30, NEW r \in 0 .. q - 1
    PROVE  \E n \in 0 .. q - 1 : ((n * (n + 1)) \div 2) % q = r
<1> DEFINE T(n) == (n * (n + 1)) \div 2
           R == 0 .. q - 1
           f == [n \in R |-> T(n) % q]
<1>1. q \in Nat /\ q > 0 /\ 2 * q \in PowersOf2
  BY PowersHalve
<1>2. \A n \in Nat : T(n) \in Nat /\ n * (n + 1) = 2 * T(n)
  BY TriangularHalf
<1> HIDE DEF T
<1>3. ASSUME NEW n \in R, NEW m \in R, n < m, T(n) % q = T(m) % q
      PROVE  FALSE
  <2>1. /\ T(n) \in Int /\ n * (n + 1) = 2 * T(n)
        /\ T(m) \in Int /\ m * (m + 1) = 2 * T(m)
    BY <1>1, <1>2
  <2> QED
    BY <1>1, <1>3, <2>1, TriangularDiffer
<1>4. f \in [R -> R]
  BY <1>1, <1>2, DivMod
<1>5. f \in Injection(R, R)
  <2>1. ASSUME NEW n \in R, NEW m \in R, f[n] = f[m]
        PROVE  n = m
    <3>1. T(n) % q = T(m) % q
      BY <2>1
    <3>2. ~(n < m) /\ ~(m < n)
      BY <1>3, <3>1
    <3> QED
      BY <1>1, <3>2
  <2> HIDE DEF f
  <2> QED
    BY <1>4, <2>1 DEF Injection, IsInjective
<1>6. f \in Surjection(R, R)
  <2>1. IsFiniteSet(R)
    BY <1>1, FS_Interval
  <2> HIDE DEF f, R
  <2> QED
    BY <1>5, <2>1, FS_Injection
<1>7. PICK n \in R : f[n] = r
  <2> HIDE DEF f
  <2> QED
    BY <1>6 DEF Surjection
<1> QED
  BY <1>7 DEF T

\* A remainder may be taken early in a sum.
LEMMA RemainderOfSum ==
    ASSUME NEW m \in Nat, m > 0, NEW x \in Int, NEW y \in Int
    PROVE  ((x % m) + y) % m = (x + y) % m
<1>1. PICK a \in Int : x = m * a + (x % m) /\ x % m \in Int
  <2>1. x \div m \in Int /\ x = m * (x \div m) + (x % m) /\ x % m \in Int
    BY DivMod
  <2> QED
    BY <2>1
<1> DEFINE z == (x % m) + y
<1>2. z \in Int
  BY <1>1
<1>3. PICK b \in Int, r \in 0 .. m - 1 : z = m * b + r /\ z % m = r
  <2> HIDE DEF z
  <2>1. z \div m \in Int /\ z = m * (z \div m) + (z % m) /\ z % m \in 0 .. m - 1
    BY <1>2, DivMod
  <2> QED
    BY <2>1
<1>4. x + y = m * (a + b) + r
  <2>1. m * (a + b) = m * a + m * b /\ m * a \in Int /\ m * b \in Int
    OBVIOUS
  <2> QED
    BY <1>1, <1>3, <2>1
<1>5. (x + y) % m = r
  BY <1>4, DivModUnique
<1> QED
  BY <1>3, <1>5

\* A ring of m places in q groups of g.
IsRing(g, q, m) == g \in Nat /\ g > 0 /\ q \in Nat /\ q > 0 /\ m = g * q

InRing(g, m, h, t, s) == \E j \in 0 .. g - 1 : (((h + g * t) % m) + j) % m = s

\* A group of g out of m = g * q places in a ring, that begins g * t places
\* after h, has the places whose distance to h lies in the (t % q)-th group.
LEMMA GroupOfRing ==
    ASSUME NEW g, NEW q, NEW m, IsRing(g, q, m),
           NEW h \in Int, NEW t \in Nat, NEW s \in 0 .. m - 1
    PROVE  InRing(g, m, h, t, s) <=> ((s - h) % m) \div g = t % q
<1> USE DEF IsRing
<1>1. m \in Nat /\ m > 0 /\ g * t \in Int
  <2>1. \A a, b \in Nat : a > 0 /\ b > 0 => a * b > 0
    OBVIOUS
  <2> QED
    BY <2>1
<1>2. PICK b \in Int, r \in 0 .. q - 1 : t = q * b + r /\ t % q = r
  <2>1. t \div q \in Int /\ t = q * (t \div q) + (t % q) /\ t % q \in 0 .. q - 1
    BY DivMod
  <2> QED
    BY <2>1
<1>3. g * t = m * b + g * r /\ m * b \in Int /\ g * r \in Nat /\ g * r + g <= m
  <2>1. g * (q * b + r) = (g * q) * b + g * r
    OBVIOUS
  <2>2. g * (r + 1) <= g * q /\ g * (r + 1) = g * r + g
    <3>1. \A x, y \in Nat : x <= y => g * x <= g * y
      OBVIOUS
    <3> QED
      BY <3>1
  <2>3. m * b \in Int /\ g * r \in Nat
    OBVIOUS
  <2> QED
    BY <1>2, <2>1, <2>2, <2>3
<1>4. ASSUME NEW j \in 0 .. g - 1
      PROVE  (((h + g * t) % m) + j) % m = (h + g * t + j) % m
  <2>1. h + g * t \in Int /\ j \in Int
    BY <1>1
  <2> QED
    BY <1>1, <2>1, RemainderOfSum
<1>5. ASSUME NEW j \in 0 .. g - 1, (h + g * t + j) % m = s
      PROVE  ((s - h) % m) \div g = t % q
  <2>1. h + g * t + j \in Int
    BY <1>1
  <2>2. PICK a \in Int : h + g * t + j = m * a + s
    <3> DEFINE x == h + g * t + j
    <3> HIDE DEF x
    <3>1. x \div m \in Int /\ x = m * (x \div m) + (x % m)
      BY <1>1, <2>1, DivMod DEF x
    <3> QED
      BY <1>5, <3>1 DEF x
  <2>3. s - h = m * (b - a) + (g * r + j)
    <3>1. m * (b - a) = m * b - m * a /\ m * a \in Int
      OBVIOUS
    <3> QED
      BY <1>3, <2>2, <3>1
  <2>4. g * r + j \in 0 .. m - 1
    BY <1>3
  <2>5. (s - h) % m = g * r + j
    <3>1. s - h \in Int /\ b - a \in Int
      OBVIOUS
    <3> QED
      BY <1>1, <2>3, <2>4, <3>1, DivModUnique
  <2>6. (g * r + j) \div g = r
    <3>1. g * r + j \in Int /\ r \in Int
      BY <1>3
    <3> QED
      BY <3>1, DivModUnique
  <2> QED
    BY <1>2, <2>5, <2>6
<1>6. ASSUME ((s - h) % m) \div g = t % q
      PROVE  \E j \in 0 .. g - 1 : (h + g * t + j) % m = s
  <2>1. PICK a \in Int, w \in 0 .. m - 1 : s - h = m * a + w /\ (s - h) % m = w
    <3> DEFINE x == s - h
    <3>1. x \in Int
      OBVIOUS
    <3>2. x \div m \in Int /\ x = m * (x \div m) + (x % m) /\ x % m \in 0 .. m - 1
      <4> HIDE DEF x
      <4> QED
        BY <1>1, <3>1, DivMod
    <3> QED
      BY <3>2
  <2>2. PICK j \in 0 .. g - 1 : w = g * r + j
    <3>1. w \div g = r /\ w \in Int
      BY <1>2, <1>6, <2>1
    <3>2. w = g * (w \div g) + (w % g) /\ w % g \in 0 .. g - 1
      BY <3>1, DivMod
    <3> QED
      BY <3>1, <3>2
  <2>3. h + g * t + j = m * (b - a) + s
    <3>1. m * (b - a) = m * b - m * a /\ m * a \in Int
      OBVIOUS
    <3> QED
      BY <1>3, <2>1, <2>2, <3>1
  <2>4. (h + g * t + j) % m = s
    <3> DEFINE x == h + g * t + j
               d == b - a
    <3>1. x \in Int /\ d \in Int /\ x = m * d + s
      BY <1>1, <2>3
    <3>2. x % m = s
      <4> HIDE DEF x, d
      <4> QED
        BY <1>1, <3>1, DivModUnique
    <3> QED
      BY <3>2
  <2> QED
    BY <2>4
<1> QED
  BY <1>4, <1>5, <1>6 DEF InRing
=============================================================================
