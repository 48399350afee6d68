------------------------- MODULE ScatterTableProofs -------------------------
(***************************************************************************)
(* Proofs about ScatterTable: every table, of any capacity and with any    *)
(* hash codes, is sound, is searched to an end, finds what it holds and is *)
(* the set it promises to be.                                              *)
(*                                                                         *)
(* The invariant says where the probe of an element comes to: to its slot  *)
(* before it meets a group with an Empty byte, and in the loop of          *)
(* dropDeletes, for a settled element, before a group with a Deleted one.  *)
(* That a probe comes to every slot is arithmetic: the triangular numbers  *)
(* take every remainder of a power of two.                                 *)
(***************************************************************************)
EXTENDS ScatterTable, ProofFacts

\* The capacities that tables have.
IsCapacity(c) ==
    /\ c \in Capacities
    /\ c = 0 \/ c >= GroupWidth - 1
    /\ GroupWidth = 4 => c <= 15

\* A table that is not empty is a number of groups, a power of two.
LEMMA CapacityFacts ==
    ASSUME NEW c, IsCapacity(c)
    PROVE  /\ c \in Nat /\ c <= 2 ^ 30 - 1
           /\ c > 0 => \E q \in PowersOf2 : /\ c + 1 = GroupWidth * q /\ q # 2 ^ 30
                                            /\ (c + 1) \div GroupWidth = q
                                            /\ Probes(c) = 0 .. q - 1
<1>1. c = 0 \/ c + 1 \in PowersOf2
  <2>1. CASE c # 0
    <3>1. PICK i \in 1 .. 30 : c = 2 ^ i - 1
      BY <2>1 DEF IsCapacity, Capacities
    <3>2. 2 ^ i \in Int
      OBVIOUS
    <3>3. c + 1 = 2 ^ i
      BY <3>1, <3>2
    <3>4. i \in 0 .. 30
      OBVIOUS
    <3> QED
      BY <3>3, <3>4, Zenon DEF PowersOf2
  <2> QED
    BY <2>1
<1>2. c \in Nat
  <2>1. \A i \in 1 .. 30 : 2 ^ i - 1 \in Int
    OBVIOUS
  <2>2. c \in Int
    BY <2>1 DEF IsCapacity, Capacities
  <2> QED
    BY <1>1, <2>2, PowersHalve
<1>3. c <= 2 ^ 30 - 1
  <2>1. c = 0 \/ c + 1 <= 2 ^ 30
    BY <1>1, PowersHalve
  <2> QED
    BY <1>2, <2>1
<1>4. ASSUME c > 0
      PROVE  \E q \in PowersOf2 : c + 1 = GroupWidth * q /\ q # 2 ^ 30
  <2>1. PICK p \in PowersOf2 : p = c + 1
    BY <1>1, <1>4
  <2>2. p >= GroupWidth /\ GroupWidth \in {4, 8} /\ p \in Nat /\ p <= 2 ^ 30
    BY <1>2, <1>4, <2>1, PowersHalve, ScatterAssumption DEF IsCapacity
  <2>3. PICK r \in PowersOf2 : p = 2 * r /\ r \in Nat
    <3>1. p # 1
      BY <2>2
    <3> QED
      BY <3>1, PowersHalve
  <2>4. PICK s \in PowersOf2 : r = 2 * s /\ s \in Nat
    <3>1. r # 1
      BY <2>2, <2>3
    <3> QED
      BY <3>1, PowersHalve
  <2>5. CASE GroupWidth = 4
    BY <2>1, <2>2, <2>3, <2>4, <2>5
  <2>6. CASE GroupWidth = 8
    <3>1. s # 1
      BY <2>2, <2>3, <2>4, <2>6
    <3>2. PICK u \in PowersOf2 : s = 2 * u /\ u \in Nat
      BY <3>1, PowersHalve
    <3> QED
      BY <2>1, <2>2, <2>3, <2>4, <2>6, <3>2
  <2> QED
    BY <2>2, <2>5, <2>6
<1>5. ASSUME c > 0
      PROVE  \E q \in PowersOf2 : /\ c + 1 = GroupWidth * q /\ q # 2 ^ 30
                                  /\ (c + 1) \div GroupWidth = q
                                  /\ Probes(c) = 0 .. q - 1
  <2>1. PICK q \in PowersOf2 : c + 1 = GroupWidth * q /\ q # 2 ^ 30
    BY <1>4, <1>5
  <2>2. q \in Nat /\ q >= 1 /\ GroupWidth \in {4, 8}
    BY PowersHalve, ScatterAssumption
  <2>3. (c + 1) \div GroupWidth = q
    <3>1. \A x \in Nat : (4 * x) \div 4 = x /\ (8 * x) \div 8 = x
      OBVIOUS
    <3> QED
      BY <2>1, <2>2, <3>1
  <2>4. Max({1, q}) = q
    BY <2>2 DEF Max
  <2>5. Probes(c) = 0 .. q - 1
    BY <2>3, <2>4 DEF Probes
  <2> QED
    BY <2>1, <2>3, <2>5
<1> QED
  BY <1>2, <1>3, <1>5

(***************************************************************************)
(* Which slots a probe looks at.                                           *)
(***************************************************************************)

\* The n-th group probed for the hash h contains the slot s, or its copy.
Visits(c, h, n, s) ==
    \E j \in 0 .. GroupWidth - 1 : SlotAt(c, ProbeOffset(c, h, n), j) = s

\* Which group of the probe for h the slot s lies in.
GroupOf(c, h, s) == ((s - h) % (c + 1)) \div GroupWidth

\* A probe looks at the groups of slots in the order of the triangular numbers.
LEMMA VisitsOfGroup ==
    ASSUME NEW c, IsCapacity(c), c > 0, NEW h \in Nat, NEW n \in Nat, NEW s \in 0 .. c
    PROVE  Visits(c, h, n, s)
             <=> GroupOf(c, h, s) = ((n * (n + 1)) \div 2) % ((c + 1) \div GroupWidth)
<1>1. PICK q \in PowersOf2 : c + 1 = GroupWidth * q /\ (c + 1) \div GroupWidth = q
  BY CapacityFacts
<1>2. /\ GroupWidth \in Nat /\ GroupWidth > 0 /\ q \in Nat /\ q > 0 /\ c + 1 \in Nat
      /\ s \in 0 .. (c + 1) - 1 /\ h \in Int
  BY PowersHalve, ScatterAssumption, CapacityFacts
<1>3. (n * (n + 1)) \div 2 \in Nat
  BY TriangularHalf
<1> DEFINE t == (n * (n + 1)) \div 2
           m == c + 1
<1>4. InRing(GroupWidth, m, h, t, s) <=> ((s - h) % m) \div GroupWidth = t % q
  <2>1. t \in Nat /\ IsRing(GroupWidth, q, m) /\ s \in 0 .. m - 1
    BY <1>1, <1>2, <1>3 DEF IsRing
  <2> HIDE DEF t, m
  <2> QED
    BY <1>2, <2>1, GroupOfRing
<1> QED
  BY <1>1, <1>4 DEF InRing, Visits, GroupOf, SlotAt, ProbeOffset

\* Slots of one group are looked at together, and every slot is looked at.
LEMMA EverySlotIsVisited ==
    ASSUME NEW c, IsCapacity(c), c > 0, NEW h \in Nat, NEW s \in 0 .. c
    PROVE  \E n \in Probes(c) : Visits(c, h, n, s)
<1>1. PICK q \in PowersOf2 : /\ c + 1 = GroupWidth * q /\ q # 2 ^ 30
                             /\ (c + 1) \div GroupWidth = q
                             /\ Probes(c) = 0 .. q - 1
  BY CapacityFacts
<1>2. q \in Nat /\ q > 0 /\ c \in Nat /\ c + 1 \in Nat /\ c + 1 > 0
  BY PowersHalve, CapacityFacts
<1>3. GroupOf(c, h, s) \in 0 .. q - 1
  <2> DEFINE w == (s - h) % (c + 1)
  <2>1. w \in 0 .. c
    <3>1. s - h \in Int
      BY <1>2
    <3> QED
      BY <1>2, <3>1, DivMod
  <2>2. w \div GroupWidth \in 0 .. q - 1
    <3> HIDE DEF w
    <3>1. CASE GroupWidth = 4
      <4>1. w \in Nat /\ w < 4 * q
        BY <1>1, <1>2, <2>1, <3>1
      <4> QED
        BY <1>2, <3>1, <4>1
    <3>2. CASE GroupWidth = 8
      <4>1. w \in Nat /\ w < 8 * q
        BY <1>1, <1>2, <2>1, <3>2
      <4> QED
        BY <1>2, <3>2, <4>1
    <3> QED
      BY <3>1, <3>2, ScatterAssumption
  <2> QED
    BY <2>2 DEF GroupOf
<1>4. PICK n \in 0 .. q - 1 : ((n * (n + 1)) \div 2) % q = GroupOf(c, h, s)
  <2> DEFINE r == GroupOf(c, h, s)
  <2> HIDE DEF r
  <2>1. r \in 0 .. q - 1
    BY <1>3 DEF r
  <2>2. \E n \in 0 .. q - 1 : ((n * (n + 1)) \div 2) % q = r
    BY <1>1, <2>1, Triangular
  <2> QED
    BY <2>2 DEF r
<1>5. Visits(c, h, n, s)
  <2>1. n \in Nat
    BY <1>2
  <2> QED
    BY <1>1, <1>4, <2>1, VisitsOfGroup
<1> QED
  BY <1>1, <1>5

\* The slots of one group are looked at in the same turns of a probe.
LEMMA GroupIsVisitedTogether ==
    ASSUME NEW c, IsCapacity(c), c > 0, NEW h \in Nat, NEW n \in Nat,
           NEW s \in 0 .. c, NEW t \in 0 .. c, GroupOf(c, h, s) = GroupOf(c, h, t),
           Visits(c, h, n, s)
    PROVE  Visits(c, h, n, t)
BY VisitsOfGroup

Bytes == {Empty, Deleted, Full, Sentinel}

\* No two bytes are the same.
LEMMA BytesDiffer ==
    /\ Empty # Deleted /\ Empty # Full /\ Empty # Sentinel
    /\ Deleted # Full /\ Deleted # Sentinel /\ Full # Sentinel
BY DEF Empty, Deleted, Full, Sentinel

\* The metadata of a table of capacity c: the sentinel, and behind it copies,
\* of which that of a Deleted slot may be stale.
IsMetadata(m, c) ==
    /\ m \in [0 .. c + GroupWidth - 1 -> Bytes]
    /\ m[c] = Sentinel
    /\ \A i \in 0 .. c - 1 : m[i] # Sentinel
    /\ \A i \in 0 .. GroupWidth - 2 :
         m[c + 1 + i] = m[i] \/ (m[i] = Deleted /\ m[c + 1 + i] = Full)

ExactCopies(m, c) == \A i \in 0 .. GroupWidth - 2 : m[c + 1 + i] = m[i]

\* The probe for the hash h comes to the slot s before a group that has one of
\* the bytes of stops.
Reached(m, c, h, s, stops) ==
    \E n \in Probes(c) :
       /\ Visits(c, h, n, s)
       /\ \A k \in 0 .. n - 1 : \A t \in 0 .. c - 1 : Visits(c, h, k, t) => m[t] \notin stops

\* What the proofs need to know of a capacity and of the turns of a probe.
LEMMA SizeFacts ==
    ASSUME NEW c, IsCapacity(c)
    PROVE  /\ GroupWidth \in {4, 8} /\ c \in Nat
           /\ c > 0 => c >= GroupWidth - 1
           /\ Probes(c) \subseteq Nat
           /\ \A n \in Probes(c) : 0 .. n \subseteq Probes(c)
<1>1. GroupWidth \in {4, 8} /\ c \in Nat
  BY CapacityFacts, ScatterAssumption
<1>2. CASE c = 0
  <2>1. (c + 1) \div GroupWidth = 0
    BY <1>1, <1>2
  <2>2. Max({1, 0}) = 1
    BY DEF Max
  <2>3. Probes(c) = 0 .. 0
    BY <2>1, <2>2 DEF Probes
  <2> QED
    BY <1>1, <1>2, <2>3
<1>3. CASE c > 0
  <2>1. PICK q \in PowersOf2 : Probes(c) = 0 .. q - 1
    BY <1>3, CapacityFacts
  <2>2. q \in Nat
    BY PowersHalve
  <2> QED
    BY <1>1, <1>3, <2>1, <2>2 DEF IsCapacity
<1> QED
  BY <1>1, <1>2, <1>3

\* The Min of the community modules is the least number of a set.
LEMMA MinIs ==
    ASSUME NEW S, S \subseteq Nat, S # {}
    PROVE  Min(S) \in S /\ \A x \in S : Min(S) <= x
<1>1. \E m \in S : \A d \in S : m <= d
  BY LeastNumber
<1> QED
  BY <1>1 DEF Min

\* A probe reads at an offset within the metadata.
LEMMA OffsetIs ==
    ASSUME NEW c, IsCapacity(c), NEW h \in Nat, NEW n \in Nat
    PROVE  ProbeOffset(c, h, n) \in 0 .. c
<1>1. c \in Nat /\ c + 1 > 0 /\ GroupWidth \in Nat
  BY SizeFacts
<1>2. (n * (n + 1)) \div 2 \in Nat
  BY TriangularHalf
<1> DEFINE x == h + GroupWidth * ((n * (n + 1)) \div 2)
<1>3. x \in Int
  BY <1>1, <1>2
<1>4. x % (c + 1) \in 0 .. c
  <2> HIDE DEF x
  <2> QED
    BY <1>1, <1>3, DivMod
<1> QED
  BY <1>4 DEF ProbeOffset

\* A byte of a group is that of its slot, or a stale copy of a Deleted one.
LEMMA ByteOfSlot ==
    ASSUME NEW c, IsCapacity(c), c > 0, NEW m, IsMetadata(m, c),
           NEW offset \in 0 .. c, NEW j \in 0 .. GroupWidth - 1
    PROVE  /\ SlotAt(c, offset, j) \in 0 .. c
           /\ \/ m[offset + j] = m[SlotAt(c, offset, j)]
              \/ m[SlotAt(c, offset, j)] = Deleted /\ m[offset + j] = Full
           /\ ExactCopies(m, c) => m[offset + j] = m[SlotAt(c, offset, j)]
<1>1. GroupWidth \in {4, 8} /\ c \in Nat /\ c >= GroupWidth - 1
  BY SizeFacts
<1>2. CASE offset + j <= c
  <2>1. SlotAt(c, offset, j) = offset + j
    <3>1. offset + j = (c + 1) * 0 + (offset + j) /\ offset + j \in 0 .. (c + 1) - 1
      BY <1>1, <1>2
    <3>2. (offset + j) % (c + 1) = offset + j
      BY <1>1, <1>2
    <3> QED
      BY <3>2 DEF SlotAt
  <2> QED
    BY <1>1, <1>2, <2>1
<1>3. CASE offset + j > c
  <2> DEFINE i == offset + j - c - 1
  <2>1. i \in 0 .. GroupWidth - 2 /\ i \in 0 .. c /\ offset + j = c + 1 + i
    BY <1>1, <1>3
  <2>2. SlotAt(c, offset, j) = i
    <3>1. (offset + j) % (c + 1) = i
      BY <1>1, <2>1
    <3> QED
      BY <3>1 DEF SlotAt
  <2> HIDE DEF i
  <2> QED
    BY <2>1, <2>2 DEF IsMetadata, ExactCopies
<1> QED
  BY <1>1, <1>2, <1>3

\* Where findFirstAvailableSlot ends.
LEMMA FirstAvailable ==
    ASSUME NEW c, IsCapacity(c), c > 0, NEW m, IsMetadata(m, c), NEW h \in Nat,
           NEW i \in 0 .. c - 1, m[i] = Empty, NEW s, s = FindFirstAvailableSlot(m, c, h)
    PROVE  /\ s \in 0 .. c - 1
           /\ m[s] \in {Empty, Deleted}
           /\ Reached(m, c, h, s, {Empty})
           /\ ExactCopies(m, c) => Reached(m, c, h, s, {Empty, Deleted})
<1> DEFINE Offset(n) == ProbeOffset(c, h, n)
           Available(n) == InGroup(m, Offset(n), {Empty, Deleted})
           N == {k \in Probes(c) : Available(k) # {}}
           n == Min(N)
           j == Min(Available(n))
<1>1. /\ GroupWidth \in {4, 8} /\ c \in Nat /\ Probes(c) \subseteq Nat
      /\ \A p \in Probes(c) : 0 .. p \subseteq Probes(c)
  BY SizeFacts
<1>2. \A k \in Probes(c) : Offset(k) \in 0 .. c
  BY <1>1, OffsetIs
<1>3. ASSUME NEW k \in Probes(c), NEW t \in 0 .. c - 1, Visits(c, h, k, t),
             m[t] = Empty \/ (m[t] = Deleted /\ ExactCopies(m, c))
      PROVE  k \in N
  <2>1. PICK l \in 0 .. GroupWidth - 1 : SlotAt(c, Offset(k), l) = t
    BY <1>3 DEF Visits
  <2>2. m[Offset(k) + l] = m[t]
    BY <1>2, <1>3, <2>1, ByteOfSlot, BytesDiffer
  <2>3. l \in Available(k)
    BY <1>3, <2>2 DEF InGroup
  <2> QED
    BY <2>3
<1>4. N # {}
  <2>1. i \in 0 .. c
    BY <1>1
  <2>2. PICK k \in Probes(c) : Visits(c, h, k, i)
    BY <2>1, EverySlotIsVisited
  <2>3. k \in N
    BY <1>3, <2>2
  <2> QED
    BY <2>3
<1>5. n \in N /\ \A k \in N : n <= k
  <2>1. N \subseteq Nat
    BY <1>1
  <2> HIDE DEF N
  <2> QED
    BY <1>4, <2>1, MinIs
<1>6. j \in Available(n)
  <2>1. Available(n) \subseteq Nat /\ Available(n) # {}
    <3>1. Available(n) # {}
      BY <1>5
    <3>2. Available(n) \subseteq 0 .. GroupWidth - 1
      BY DEF InGroup
    <3>3. 0 .. GroupWidth - 1 \subseteq Nat
      BY <1>1
    <3> HIDE DEF n, Available
    <3> QED
      BY <3>1, <3>2, <3>3
  <2> HIDE DEF n, Available
  <2> QED
    BY <2>1, MinIs
<1>7. s = SlotAt(c, Offset(n), j)
  BY DEF FindFirstAvailableSlot
<1>8. n \in Probes(c) /\ n \in Nat
  BY <1>1, <1>5
<1> HIDE DEF n, j
<1>9. j \in 0 .. GroupWidth - 1 /\ m[Offset(n) + j] \in {Empty, Deleted}
  BY <1>6 DEF InGroup
<1>10. s \in 0 .. c /\ m[s] \in {Empty, Deleted}
  BY <1>2, <1>7, <1>8, <1>9, ByteOfSlot, BytesDiffer
<1>11. s \in 0 .. c - 1
  <2>1. s # c
    BY <1>10, BytesDiffer DEF IsMetadata
  <2> QED
    BY <1>1, <1>10, <2>1
<1>12. Visits(c, h, n, s)
  BY <1>7, <1>9 DEF Visits
<1>13. ASSUME NEW k \in 0 .. n - 1, NEW t \in 0 .. c - 1, Visits(c, h, k, t)
       PROVE  m[t] # Empty /\ (ExactCopies(m, c) => m[t] # Deleted)
  <2>1. k \in 0 .. n /\ k < n /\ k \in Nat
    BY <1>8
  <2>2. k \in Probes(c)
    BY <1>1, <1>8, <2>1
  <2>3. k \notin N
    <3> HIDE DEF N
    <3> QED
      BY <1>5, <1>8, <2>1
  <2> QED
    BY <1>3, <1>13, <2>2, <2>3
<1>14. Reached(m, c, h, s, {Empty})
  BY <1>8, <1>12, <1>13 DEF Reached
<1>15. ExactCopies(m, c) => Reached(m, c, h, s, {Empty, Deleted})
  BY <1>8, <1>12, <1>13 DEF Reached
<1> QED
  BY <1>10, <1>11, <1>14, <1>15

(***************************************************************************)
(* What is written to the metadata.                                        *)
(***************************************************************************)

\* Copying the first bytes behind the sentinel makes metadata of any bytes.
LEMMA ClonedIs ==
    ASSUME NEW c, IsCapacity(c), c > 0, NEW m,
           m \in [0 .. c + GroupWidth - 1 -> Bytes], m[c] = Sentinel,
           \A i \in 0 .. c - 1 : m[i] # Sentinel
    PROVE  /\ IsMetadata(Cloned(m, c), c)
           /\ ExactCopies(Cloned(m, c), c)
           /\ \A i \in 0 .. c - 1 : Cloned(m, c)[i] = m[i]
<1> DEFINE d == Cloned(m, c)
<1>1. GroupWidth \in {4, 8} /\ c \in Nat /\ c >= GroupWidth - 1
  BY SizeFacts
<1>2. d = [b \in 0 .. c + GroupWidth - 1 |-> IF b > c THEN m[b - c - 1] ELSE m[b]]
  BY DEF Cloned
<1> HIDE DEF d
<1>3. d \in [0 .. c + GroupWidth - 1 -> Bytes]
  <2>1. \A b \in 0 .. c + GroupWidth - 1 : b > c => b - c - 1 \in 0 .. c + GroupWidth - 1
    BY <1>1
  <2> QED
    BY <1>2, <2>1
<1>4. \A b \in 0 .. c : d[b] = m[b]
  BY <1>1, <1>2
<1>5. \A i \in 0 .. GroupWidth - 2 : d[c + 1 + i] = m[i]
  BY <1>1, <1>2
<1>6. \A i \in 0 .. GroupWidth - 2 : d[c + 1 + i] = d[i]
  <2>1. \A i \in 0 .. GroupWidth - 2 : i \in 0 .. c
    BY <1>1
  <2> QED
    BY <1>4, <1>5, <2>1
<1>7. c \in 0 .. c /\ \A i \in 0 .. c - 1 : i \in 0 .. c
  BY <1>1
<1>8. d[c] = Sentinel /\ \A i \in 0 .. c - 1 : d[i] = m[i]
  BY <1>4, <1>7
<1> QED
  BY <1>3, <1>6, <1>8 DEF IsMetadata, ExactCopies, d

\* The slots have the bytes they had, but for one.
Writes(w, m, c, i, byte) == \A s \in 0 .. c - 1 : w[s] = IF s = i THEN byte ELSE m[s]

\* writeMetadata.
LEMMA WriteMetadataIs ==
    ASSUME NEW c, IsCapacity(c), c > 0, NEW m, IsMetadata(m, c),
           NEW i \in 0 .. c - 1, NEW byte \in {Empty, Deleted, Full},
           NEW w, w = WriteMetadata(m, c, i, byte)
    PROVE  /\ IsMetadata(w, c)
           /\ ExactCopies(m, c) => ExactCopies(w, c)
           /\ Writes(w, m, c, i, byte)
<1> USE DEF Writes
<1> DEFINE raw == [m EXCEPT ![i] = byte]
<1>1. GroupWidth \in {4, 8} /\ c \in Nat /\ c >= GroupWidth - 1
  BY SizeFacts
<1>2. byte \in Bytes /\ byte # Sentinel
  BY BytesDiffer DEF Bytes
<1>3. i \in 0 .. c + GroupWidth - 1 /\ i # c
  BY <1>1
<1>4. raw \in [0 .. c + GroupWidth - 1 -> Bytes]
  BY <1>2 DEF IsMetadata
<1>5. \A b \in 0 .. c + GroupWidth - 1 : raw[b] = IF b = i THEN byte ELSE m[b]
  BY DEF IsMetadata
<1> HIDE DEF raw
<1>6. c \in 0 .. c + GroupWidth - 1 /\ \A s \in 0 .. c - 1 : s \in 0 .. c + GroupWidth - 1
  BY <1>1
<1>7. /\ raw[c] = Sentinel
      /\ \A s \in 0 .. c - 1 : raw[s] = IF s = i THEN byte ELSE m[s]
      /\ \A s \in 0 .. c - 1 : raw[s] # Sentinel
  <2>1. raw[c] = Sentinel
    BY <1>3, <1>5, <1>6 DEF IsMetadata
  <2>2. \A s \in 0 .. c - 1 : raw[s] = IF s = i THEN byte ELSE m[s]
    BY <1>5, <1>6
  <2>3. \A s \in 0 .. c - 1 : raw[s] # Sentinel
    BY <1>2, <2>2 DEF IsMetadata
  <2> QED
    BY <2>1, <2>2, <2>3
<1>8. CASE i < GroupWidth - 1
  <2>1. w = Cloned(raw, c)
    BY <1>8 DEF WriteMetadata, raw
  <2>2. /\ IsMetadata(Cloned(raw, c), c) /\ ExactCopies(Cloned(raw, c), c)
        /\ \A s \in 0 .. c - 1 : Cloned(raw, c)[s] = raw[s]
    BY <1>4, <1>7, ClonedIs
  <2> QED
    BY <1>7, <2>1, <2>2
<1>9. CASE ~(i < GroupWidth - 1)
  <2>1. w = raw
    BY <1>9 DEF WriteMetadata, raw
  <2>2. ASSUME NEW k \in 0 .. GroupWidth - 2
        PROVE  raw[c + 1 + k] = m[c + 1 + k] /\ raw[k] = m[k]
    <3>1. /\ c + 1 + k \in 0 .. c + GroupWidth - 1 /\ c + 1 + k # i
          /\ k \in 0 .. c + GroupWidth - 1 /\ k # i
      BY <1>1, <1>9
    <3> QED
      BY <1>5, <3>1
  <2>3. IsMetadata(raw, c)
    BY <1>4, <1>7, <2>2 DEF IsMetadata
  <2>4. ExactCopies(m, c) => ExactCopies(raw, c)
    BY <2>2 DEF ExactCopies
  <2> QED
    BY <1>7, <2>1, <2>3, <2>4
<1> QED
  BY <1>1, <1>8, <1>9

\* What remove writes on a platform that leaves the copies alone.
LEMMA RawDeleteIs ==
    ASSUME NEW c, IsCapacity(c), c > 0, NEW m, IsMetadata(m, c),
           NEW i \in 0 .. c - 1, m[i] = Full, NEW w, w = [m EXCEPT ![i] = Deleted]
    PROVE  /\ IsMetadata(w, c)
           /\ Writes(w, m, c, i, Deleted)
<1> USE DEF Writes
<1>1. GroupWidth \in {4, 8} /\ c \in Nat /\ c >= GroupWidth - 1
  BY SizeFacts
<1>2. Deleted \in Bytes /\ Deleted # Sentinel
  BY BytesDiffer DEF Bytes
<1>3. i \in 0 .. c + GroupWidth - 1 /\ i # c
  BY <1>1
<1>4. w \in [0 .. c + GroupWidth - 1 -> Bytes]
  BY <1>2 DEF IsMetadata
<1>5. \A b \in 0 .. c + GroupWidth - 1 : w[b] = IF b = i THEN Deleted ELSE m[b]
  BY DEF IsMetadata
<1>6. c \in 0 .. c + GroupWidth - 1 /\ \A s \in 0 .. c - 1 : s \in 0 .. c + GroupWidth - 1
  BY <1>1
<1>7. w[c] = Sentinel
  BY <1>3, <1>5, <1>6 DEF IsMetadata
<1>8. \A s \in 0 .. c - 1 : w[s] = IF s = i THEN Deleted ELSE m[s]
  BY <1>5, <1>6
<1>9. \A s \in 0 .. c - 1 : w[s] # Sentinel
  BY <1>2, <1>8 DEF IsMetadata
<1>10. ASSUME NEW k \in 0 .. GroupWidth - 2
       PROVE  w[c + 1 + k] = w[k] \/ (w[k] = Deleted /\ w[c + 1 + k] = Full)
  <2>1. /\ c + 1 + k \in 0 .. c + GroupWidth - 1 /\ c + 1 + k # i
        /\ k \in 0 .. c + GroupWidth - 1
    BY <1>1
  <2>2. w[c + 1 + k] = m[c + 1 + k] /\ w[k] = IF k = i THEN Deleted ELSE m[k]
    BY <1>5, <2>1
  <2>3. m[c + 1 + k] = m[k] \/ (m[k] = Deleted /\ m[c + 1 + k] = Full)
    BY DEF IsMetadata
  <2> QED
    BY <2>2, <2>3, BytesDiffer
<1> QED
  BY <1>4, <1>7, <1>8, <1>9, <1>10 DEF IsMetadata

\* initializeMetadata.
LEMMA AllEmptyIs ==
    ASSUME NEW c, IsCapacity(c), c > 0
    PROVE  /\ IsMetadata(AllEmpty(c), c) /\ ExactCopies(AllEmpty(c), c)
           /\ \A s \in 0 .. c - 1 : AllEmpty(c)[s] = Empty
<1> DEFINE m == AllEmpty(c)
<1>1. GroupWidth \in {4, 8} /\ c \in Nat /\ c >= GroupWidth - 1
  BY SizeFacts
<1>2. m = [b \in 0 .. c + GroupWidth - 1 |-> IF b = c THEN Sentinel ELSE Empty]
  BY DEF AllEmpty
<1> HIDE DEF m
<1>3. m \in [0 .. c + GroupWidth - 1 -> Bytes]
  BY <1>2 DEF Bytes
<1>4. \A b \in 0 .. c + GroupWidth - 1 : m[b] = IF b = c THEN Sentinel ELSE Empty
  BY <1>2
<1>5. /\ c \in 0 .. c + GroupWidth - 1
      /\ \A s \in 0 .. c - 1 : s \in 0 .. c + GroupWidth - 1 /\ s # c
      /\ \A k \in 0 .. GroupWidth - 2 : /\ k \in 0 .. c + GroupWidth - 1 /\ k # c
                                        /\ c + 1 + k \in 0 .. c + GroupWidth - 1
                                        /\ c + 1 + k # c
  BY <1>1
<1>6. m[c] = Sentinel /\ \A s \in 0 .. c - 1 : m[s] = Empty
  BY <1>4, <1>5
<1>7. \A k \in 0 .. GroupWidth - 2 : m[c + 1 + k] = m[k]
  BY <1>4, <1>5
<1> QED
  BY <1>3, <1>6, <1>7, BytesDiffer DEF IsMetadata, ExactCopies, m

\* Metadata in which not all slots are taken has an Empty one.
LEMMA EmptyIsLeft ==
    ASSUME NEW c, IsCapacity(c), NEW m, IsMetadata(m, c), NEW T, T \subseteq 0 .. c - 1,
           \A s \in 0 .. c - 1 : m[s] \in {Full, Deleted} => s \in T,
           Cardinality(T) < c
    PROVE  \E s \in 0 .. c - 1 : m[s] = Empty
<1>1. c \in Nat /\ c \in Int /\ GroupWidth \in {4, 8}
  BY SizeFacts
<1>2. IsFiniteSet(0 .. c - 1) /\ Cardinality(0 .. c - 1) = c
  <2>1. c - 1 \in Int /\ 0 \in Int
    BY <1>1
  <2>2. /\ IsFiniteSet(0 .. c - 1)
        /\ Cardinality(0 .. c - 1) = IF 0 > c - 1 THEN 0 ELSE c - 1 - 0 + 1
    BY <2>1, FS_Interval
  <2> QED
    BY <1>1, <2>2
<1>3. T # 0 .. c - 1
  BY <1>1, <1>2
<1>4. PICK s \in 0 .. c - 1 : s \notin T
  BY <1>3
<1>5. m[s] \in Bytes /\ m[s] # Sentinel
  <2>1. s \in 0 .. c + GroupWidth - 1
    BY <1>1
  <2> QED
    BY <2>1 DEF IsMetadata
<1> QED
  BY <1>4, <1>5 DEF Bytes

(***************************************************************************)
(* Capacities and loads.                                                   *)
(***************************************************************************)

LongestTable == 2 ^ 30 - 1

\* Some capacities, and the bounds of all.
LEMMA CapacitiesAre ==
    /\ 0 \in Capacities /\ 3 \in Capacities /\ 7 \in Capacities
    /\ 15 \in Capacities /\ LongestTable \in Capacities /\ LongestTable \in Nat
    /\ Capacities \subseteq Nat
    /\ \A c \in Capacities : c <= LongestTable
<1>0. LongestTable = 2 ^ 30 - 1
  BY DEF LongestTable
<1>1. /\ 2 ^ 2 - 1 = 3 /\ 2 ^ 3 - 1 = 7 /\ 2 ^ 4 - 1 = 15 /\ 2 ^ 1 - 1 = 1
      /\ 2 \in 1 .. 30 /\ 3 \in 1 .. 30 /\ 4 \in 1 .. 30 /\ 30 \in 1 .. 30 /\ 1 \in 1 .. 30
  OBVIOUS
<1>2. \A i \in 1 .. 30 : 2 ^ i - 1 \in Capacities
  BY Zenon DEF Capacities
<1>3. ASSUME NEW c \in Capacities
      PROVE  c \in Nat /\ c <= 2 ^ 30 - 1
  <2>1. CASE c = 0
    BY <1>1, <1>2, <2>1
  <2>2. CASE c # 0
    <3>1. PICK i \in 1 .. 30 : c = 2 ^ i - 1
      BY <2>2 DEF Capacities
    <3>2. 2 ^ i \in PowersOf2
      <4>1. i \in 0 .. 30
        OBVIOUS
      <4> QED
        BY <4>1, Zenon DEF PowersOf2
    <3> QED
      BY <3>1, <3>2, PowersHalve
  <2> QED
    BY <2>1, <2>2
<1>4. 0 \in Capacities
  BY DEF Capacities
<1>5. 3 \in Capacities /\ 7 \in Capacities /\ 15 \in Capacities
  BY <1>1, <1>2
<1>6. 2 ^ 30 - 1 \in Capacities
  BY <1>1, <1>2
<1> QED
  BY <1>0, <1>3, <1>4, <1>5, <1>6

\* initializeStorage takes a capacity that tables have, if there is one.
LEMMA StorageIs ==
    ASSUME NEW n \in 0 .. LongestTable, GroupWidth = 4 => n <= 15
    PROVE  /\ IsCapacity(StorageCapacity(n)) /\ n <= StorageCapacity(n)
           /\ StorageCapacity(n) = 0 <=> n = 0
           /\ \A c : IsCapacity(c) /\ n <= c => StorageCapacity(n) <= c
           /\ IsCapacity(n) => StorageCapacity(n) = n
           /\ NormalizeCapacity(n) \in 0 .. LongestTable /\ n <= NormalizeCapacity(n)
           /\ GroupWidth = 4 => NormalizeCapacity(n) <= 15
           /\ NormalizeCapacity(n) = 0 <=> n = 0
           /\ StorageCapacity(NormalizeCapacity(n)) = StorageCapacity(n)
<1> DEFINE Fitting == {c \in Capacities : c >= n}
           k == NormalizeCapacity(n)
<1>1. GroupWidth \in {4, 8} /\ n \in Nat
  BY ScatterAssumption
<1>2. CASE n = 0
  <2>1. StorageCapacity(n) = 0 /\ NormalizeCapacity(n) = 0
    BY <1>2 DEF StorageCapacity, NormalizeCapacity
  <2>2. IsCapacity(0)
    BY CapacitiesAre DEF IsCapacity
  <2>3. \A c : IsCapacity(c) => 0 <= c
    BY SizeFacts
  <2> QED
    BY <1>1, <1>2, <2>1, <2>2, <2>3
<1>3. CASE n # 0
  <2>1. LongestTable \in Fitting /\ Fitting \subseteq Nat
    <3>1. LongestTable \in Capacities /\ LongestTable \in Nat /\ Capacities \subseteq Nat
      BY CapacitiesAre
    <3>2. LongestTable >= n
      BY <3>1
    <3> QED
      BY <3>1, <3>2
  <2>2. k = Min(Fitting)
    BY <1>3 DEF NormalizeCapacity
  <2>3. k \in Fitting /\ \A c \in Fitting : k <= c
    <3> HIDE DEF Fitting, k
    <3> QED
      BY <2>1, <2>2, MinIs
  <2>4. k \in Capacities /\ k \in Nat /\ n <= k /\ k <= LongestTable /\ k # 0
    <3>1. k \in Capacities /\ k \in Nat /\ n <= k /\ k <= LongestTable
      BY <2>1, <2>3
    <3> HIDE DEF k
    <3> QED
      BY <1>1, <1>3, <3>1
  <2>5. GroupWidth = 4 => k <= 15
    <3>1. n <= 15 => 15 \in Fitting
      <4>1. 15 \in Capacities
        BY CapacitiesAre
      <4> QED
        BY <4>1
    <3> HIDE DEF Fitting, k
    <3> QED
      BY <2>3, <3>1
  <2>6. \A c \in Capacities : c >= n => k <= c
    BY <2>3
  <2>7. \A x \in Nat : x # 0 => NormalizeCapacity(x) = Min({c \in Capacities : c >= x})
    BY DEF NormalizeCapacity
  <2> DEFINE big == IF k >= GroupWidth - 1 THEN k ELSE GroupWidth - 1
  <2> HIDE DEF Fitting, k
  <2>8. \A x \in Nat : Max({GroupWidth - 1, x}) = IF x >= GroupWidth - 1 THEN x ELSE GroupWidth - 1
    BY <1>1 DEF Max
  <2>9. StorageCapacity(n) = big
    BY <1>3, <2>4, <2>8 DEF StorageCapacity, k
  <2>10. IsCapacity(big) /\ n <= big /\ big # 0
    BY <1>1, <2>4, <2>5, CapacitiesAre DEF IsCapacity
  <2>11. ASSUME NEW c, IsCapacity(c), n <= c
         PROVE  big <= c
    <3>1. c \in Capacities /\ c \in Nat /\ c # 0 /\ c >= GroupWidth - 1
      BY <1>1, <1>3, <2>11, SizeFacts DEF IsCapacity
    <3>2. k <= c
      BY <1>1, <2>6, <2>11, <3>1
    <3> QED
      BY <3>1, <3>2
  <2>12. IsCapacity(n) => big = n
    <3>1. IsCapacity(n) => big <= n
      BY <1>1, <2>11
    <3> QED
      BY <1>1, <2>4, <2>10, <3>1
  <2>13. NormalizeCapacity(k) = k
    <3> DEFINE Above == {c \in Capacities : c >= k}
    <3>1. k \in Above /\ Above \subseteq Nat /\ \A c \in Above : k <= c
      <4>1. Above \subseteq Nat
        BY CapacitiesAre
      <4>2. k \in Above
        BY <2>4
      <4> QED
        BY <4>1, <4>2
    <3>2. NormalizeCapacity(k) = Min(Above)
      BY <2>4, <2>7
    <3>3. Min(Above) \in Above /\ \A c \in Above : Min(Above) <= c
      <4> HIDE DEF Above
      <4> QED
        BY <3>1, MinIs
    <3> HIDE DEF Above
    <3>4. Min(Above) <= k /\ k <= Min(Above) /\ Min(Above) \in Nat
      BY <3>1, <3>3
    <3> QED
      BY <2>4, <3>2, <3>4
  <2>14. StorageCapacity(k) = big
    BY <2>4, <2>8, <2>13 DEF StorageCapacity
  <2> QED
    BY <1>3, <2>4, <2>5, <2>9, <2>10, <2>11, <2>12, <2>14 DEF k
<1> QED
  BY <1>2, <1>3

\* The load of a table: an Empty slot is left, a table that has grown or dropped
\* its Deleted slots takes one more element.
LEMMA LoadFacts ==
    ASSUME NEW c, IsCapacity(c)
    PROVE  /\ LoadedCapacity(c) \in Nat
           /\ c = 0 => LoadedCapacity(c) = 0
           /\ c > 0 => LoadedCapacity(c) < c
           /\ \A k \in Nat : c > GroupWidth /\ k * 32 <= c * 25 => k < LoadedCapacity(c)
<1>1. c \in Nat /\ GroupWidth \in {4, 8} /\ (c > 0 => c >= GroupWidth - 1)
  BY SizeFacts
<1>2. CASE GroupWidth = 8
  BY <1>1, <1>2 DEF LoadedCapacity
<1>3. CASE GroupWidth = 4
  <2>1. c <= 15 /\ (c > 0 => \E q \in Nat : c + 1 = 4 * q)
    <3>1. \A q \in PowersOf2 : q \in Nat
      BY PowersHalve
    <3> QED
      BY <1>3, <3>1, CapacityFacts DEF IsCapacity
  <2>2. c \in {0, 3, 7, 11, 15}
    BY <1>1, <1>3, <2>1
  <2> QED
    BY <1>1, <1>3, <2>2 DEF LoadedCapacity
<1> QED
  BY <1>1, <1>2, <1>3

\* The capacity after NextCapacity is one tables have, with more room.
LEMMA GrownFacts ==
    ASSUME NEW c, IsCapacity(c), NextCapacity(c) <= CapacityBound,
           NEW n, n = StorageCapacity(NextCapacity(c))
    PROVE  IsCapacity(n) /\ n > 0 /\ LoadedCapacity(c) < LoadedCapacity(n)
<1>1. /\ c \in Nat /\ GroupWidth \in {4, 8} /\ (c > 0 => c >= GroupWidth - 1)
      /\ CapacityBound \in Nat /\ CapacityBound <= LongestTable /\ LongestTable \in Nat
      /\ GroupWidth = 4 => CapacityBound <= 15
  <2>1. c \in Nat /\ GroupWidth \in {4, 8} /\ (c > 0 => c >= GroupWidth - 1)
    BY SizeFacts
  <2> QED
    BY <2>1, ScatterAssumption, CapacitiesAre DEF LongestTable
<1> DEFINE k == NextCapacity(c)
<1>2. k \in Nat /\ k > 0 /\ k <= CapacityBound /\ k > c
  BY <1>1 DEF NextCapacity
<1>3. k \in 0 .. LongestTable /\ (GroupWidth = 4 => k <= 15)
  <2> HIDE DEF k
  <2> QED
    BY <1>1, <1>2
<1> HIDE DEF k
<1>4. IsCapacity(n) /\ k <= n /\ n # 0 /\ n \in Nat
  <2>1. n = StorageCapacity(k)
    BY DEF k
  <2>2. IsCapacity(n) /\ k <= n /\ n # 0
    BY <1>2, <1>3, <2>1, StorageIs
  <2> QED
    BY <2>2, SizeFacts
<1>5. c > 0 => n >= 2 * c + 1
  BY <1>1, <1>4 DEF NextCapacity, k
<1>6. n >= GroupWidth - 1
  BY <1>1, <1>4 DEF IsCapacity
<1>7. LoadedCapacity(c) < LoadedCapacity(n)
  <2>1. CASE GroupWidth = 4
    BY <1>1, <1>4, <1>5, <1>6, <2>1 DEF LoadedCapacity
  <2>2. CASE GroupWidth = 8
    BY <1>1, <1>4, <1>5, <1>6, <2>2 DEF LoadedCapacity
  <2> QED
    BY <1>1, <2>1, <2>2
<1> QED
  BY <1>1, <1>4, <1>7

\* trim takes a table that has room for what is in the one it has.
LEMMA TrimmedFacts ==
    ASSUME NEW c, IsCapacity(c), NEW k \in Nat, k <= LoadedCapacity(c),
           NEW n, n = StorageCapacity(NormalizeCapacity(UnloadedCapacity(k)))
    PROVE  /\ IsCapacity(n) /\ k <= LoadedCapacity(n)
           /\ n = 0 => k = 0
<1>1. /\ c \in Nat /\ GroupWidth \in {4, 8} /\ (c > 0 => c >= GroupWidth - 1)
      /\ c <= LongestTable /\ (GroupWidth = 4 => c <= 15) /\ LongestTable \in Nat
  BY SizeFacts, CapacitiesAre DEF IsCapacity
<1>2. c > 0 => \E q \in Nat : c + 1 = GroupWidth * q
  <2>1. \A q \in PowersOf2 : q \in Nat
    BY PowersHalve
  <2> QED
    BY <2>1, CapacityFacts
<1> DEFINE u == UnloadedCapacity(k)
<1>3. u \in Nat /\ u <= c /\ (u = 0 <=> k = 0)
  <2>1. CASE c = 0
    <3>1. k = 0
      BY <2>1, LoadFacts
    <3> QED
      BY <1>1, <2>1, <3>1 DEF UnloadedCapacity
  <2>2. CASE c > 0 /\ GroupWidth = 4
    <3>1. PICK q \in Nat : c + 1 = 4 * q
      BY <1>2, <2>2
    <3>2. k = 0 \/ k = 3 \/ (k # 0 /\ k # 3)
      OBVIOUS
    <3>3. u = IF k = 0 THEN 0 ELSE IF k = 3 THEN 4 ELSE k + (k - 1) \div 3
      BY <2>2 DEF UnloadedCapacity
    <3>4. k <= IF c = 3 THEN 2 ELSE c - c \div 4
      BY <2>2 DEF LoadedCapacity
    <3> HIDE DEF u
    <3> QED
      BY <1>1, <2>2, <3>1, <3>3, <3>4
  <2>3. CASE c > 0 /\ GroupWidth = 8
    <3>1. PICK q \in Nat : c + 1 = 8 * q
      BY <1>2, <2>3
    <3>3. u = IF k = 0 THEN 0 ELSE IF k = 7 THEN 8 ELSE k + (k - 1) \div 7
      BY <2>3 DEF UnloadedCapacity
    <3>4. k <= IF c = 7 THEN 6 ELSE c - c \div 8
      BY <2>3 DEF LoadedCapacity
    <3> HIDE DEF u
    <3> QED
      BY <1>1, <2>3, <3>1, <3>3, <3>4
  <2> QED
    BY <1>1, <2>1, <2>2, <2>3
<1>4. u \in 0 .. LongestTable /\ (GroupWidth = 4 => u <= 15)
  <2> HIDE DEF u
  <2> QED
    BY <1>1, <1>3
<1>5. n = StorageCapacity(u) /\ IsCapacity(n) /\ u <= n /\ (n = 0 <=> u = 0) /\ n \in Nat
  <2>1. n = StorageCapacity(NormalizeCapacity(u))
    OBVIOUS
  <2> HIDE DEF u
  <2>2. n = StorageCapacity(u) /\ IsCapacity(n) /\ u <= n /\ (n = 0 <=> u = 0)
    BY <1>4, <2>1, StorageIs
  <2> QED
    BY <2>2, SizeFacts
<1>6. k <= LoadedCapacity(n)
  <2>1. CASE k = 0
    <3>1. LoadedCapacity(n) \in Nat
      BY <1>5, LoadFacts
    <3> QED
      BY <2>1, <3>1
  <2>2. CASE k # 0 /\ GroupWidth = 4
    <3>1. u = IF k = 3 THEN 4 ELSE k + (k - 1) \div 3
      BY <2>2 DEF UnloadedCapacity
    <3>2. n >= 3
      BY <1>3, <1>5, <2>2 DEF IsCapacity
    <3>3. LoadedCapacity(n) = IF n = 3 THEN 2 ELSE n - n \div 4
      BY <2>2 DEF LoadedCapacity
    <3> HIDE DEF u
    <3> QED
      BY <1>3, <1>5, <2>2, <3>1, <3>2, <3>3
  <2>3. CASE k # 0 /\ GroupWidth = 8
    <3>1. u = IF k = 7 THEN 8 ELSE k + (k - 1) \div 7
      BY <2>3 DEF UnloadedCapacity
    <3>2. n >= 7
      BY <1>3, <1>5, <2>3 DEF IsCapacity
    <3>3. LoadedCapacity(n) = IF n = 7 THEN 6 ELSE n - n \div 8
      BY <2>3 DEF LoadedCapacity
    <3> HIDE DEF u
    <3> QED
      BY <1>3, <1>5, <2>3, <3>1, <3>2, <3>3
  <2> QED
    BY <1>1, <2>1, <2>2, <2>3
<1> QED
  BY <1>3, <1>5, <1>6

\* The capacity of a new table.
LEMMA InitialIs ==
    IsCapacity(StorageCapacity(UnloadedCapacity(InitialCapacity)))
<1>0. 2 ^ 29 \in Nat /\ 2 ^ 29 >= 10 /\ 2 ^ 30 = 2 * 2 ^ 29
  OBVIOUS
<1>00. LongestTable = 2 ^ 30 - 1
  BY DEF LongestTable
<1>1. /\ InitialCapacity \in Nat /\ InitialCapacity <= 2 ^ 29
      /\ GroupWidth \in {4, 8} /\ (GroupWidth = 4 => InitialCapacity <= 12)
  BY ScatterAssumption
<1> DEFINE u == UnloadedCapacity(InitialCapacity)
<1>2. u \in Nat /\ u <= LongestTable /\ (GroupWidth = 4 => u <= 15)
  <2>1. CASE GroupWidth = 4
    <3>1. u = IF InitialCapacity = 0 THEN 0 ELSE IF InitialCapacity = 3 THEN 4
              ELSE InitialCapacity + (InitialCapacity - 1) \div 3
      BY <2>1 DEF UnloadedCapacity
    <3> HIDE DEF u
    <3> QED
      BY <1>0, <1>00, <1>1, <2>1, <3>1
  <2>2. CASE GroupWidth = 8
    <3>1. u = IF InitialCapacity = 0 THEN 0 ELSE IF InitialCapacity = 7 THEN 8
              ELSE InitialCapacity + (InitialCapacity - 1) \div 7
      BY <2>2 DEF UnloadedCapacity
    <3> HIDE DEF u
    <3> QED
      BY <1>0, <1>00, <1>1, <2>2, <3>1
  <2> QED
    BY <1>1, <2>1, <2>2
<1>3. u \in 0 .. LongestTable
  <2>1. LongestTable \in Nat
    BY CapacitiesAre
  <2> HIDE DEF u
  <2> QED
    BY <1>2, <2>1
<1> HIDE DEF u
<1>4. IsCapacity(StorageCapacity(u))
  BY <1>2, <1>3, StorageIs
<1> QED
  BY <1>4 DEF u

(***************************************************************************)
(* A table that holds elements.                                            *)
(***************************************************************************)

Filled(m, c) == {i \in 0 .. c - 1 : m[i] = Full}

Removed(m, c) == {i \in 0 .. c - 1 : m[i] = Deleted}

\* The elements E are in the Full slots, each once and where its probe comes to.
\* The stale copy of a Deleted slot matches no element.
Holds(m, E, c, h) ==
    /\ IF c = 0 THEN m = AllEmpty(0) ELSE IsMetadata(m, c)
    /\ E \in [0 .. c - 1 -> Elements \cup {NoElement}]
    /\ \A i \in Filled(m, c) : E[i] \in Elements /\ Reached(m, c, h[E[i]], i, {Empty})
    /\ \A i, j \in Filled(m, c) : E[i] = E[j] => i = j
    /\ \A i \in Removed(m, c) : E[i] = NoElement

HeldIn(m, E, c) == {E[i] : i \in Filled(m, c)}

\* A slot stays where the probe comes to when no byte becomes one that stops it.
LEMMA ReachedStays ==
    ASSUME NEW c, NEW m, NEW w, NEW h, NEW s, NEW A, NEW B, Reached(m, c, h, s, A),
           \A t \in 0 .. c - 1 : w[t] \in B => m[t] \in A
    PROVE  Reached(w, c, h, s, B)
<1>1. PICK n \in Probes(c) :
         /\ Visits(c, h, n, s)
         /\ \A k \in 0 .. n - 1 : \A t \in 0 .. c - 1 : Visits(c, h, k, t) => m[t] \notin A
  BY DEF Reached
<1>2. \A k \in 0 .. n - 1 : \A t \in 0 .. c - 1 : Visits(c, h, k, t) => w[t] \notin B
  BY <1>1
<1> QED
  BY <1>1, <1>2 DEF Reached

\* Whatever is written to a slot of a table whose probes pass it.
LEMMA FilledIs ==
    ASSUME NEW c, NEW m, NEW w, NEW i \in 0 .. c - 1, NEW byte,
           Writes(w, m, c, i, byte)
    PROVE  /\ Filled(w, c) = IF byte = Full THEN Filled(m, c) \cup {i} ELSE Filled(m, c) \ {i}
           /\ Removed(w, c) = IF byte = Deleted THEN Removed(m, c) \cup {i} ELSE Removed(m, c) \ {i}
BY DEF Writes, Filled, Removed

HasRoom(m, c) == \E x \in 0 .. c - 1 : m[x] = Empty

\* The element e is put where findFirstAvailableSlot says: w and D are m and E then.
Puts(s, w, D, m, E, c, h, e) ==
    /\ s = FindFirstAvailableSlot(m, c, h[e])
    /\ w = WriteMetadata(m, c, s, Full)
    /\ D = [E EXCEPT ![s] = e]

IsPut(s, w, D, m, E, c, h, e) ==
    /\ Holds(w, D, c, h)
    /\ s \in 0 .. c - 1 /\ m[s] \in {Empty, Deleted}
    /\ ExactCopies(m, c) => ExactCopies(w, c)
    /\ Filled(w, c) = Filled(m, c) \cup {s} /\ s \notin Filled(m, c)
    /\ Removed(w, c) = Removed(m, c) \ {s}
    /\ HeldIn(w, D, c) = HeldIn(m, E, c) \cup {e}
    /\ \A i \in 0 .. c - 1 : D[i] = IF i = s THEN e ELSE E[i]

\* Putting an element where findFirstAvailableSlot says: every element is still
\* where its probe comes to, and the copies stay exact.
LEMMA PutHolds ==
    ASSUME NEW c, IsCapacity(c), c > 0, NEW h \in [Elements -> Nat],
           NEW m, NEW E, Holds(m, E, c, h), NEW e \in Elements, e \notin HeldIn(m, E, c),
           HasRoom(m, c), NEW s, NEW w, NEW D, Puts(s, w, D, m, E, c, h, e)
    PROVE  IsPut(s, w, D, m, E, c, h, e)
<1> USE DEF IsPut
<1>00. PICK x \in 0 .. c - 1 : m[x] = Empty
  BY DEF HasRoom
<1>01. /\ s = FindFirstAvailableSlot(m, c, h[e])
       /\ w = WriteMetadata(m, c, s, Full)
       /\ D = [E EXCEPT ![s] = e]
  BY DEF Puts
<1>0. c \in Nat /\ c # 0
  BY SizeFacts
<1>1. /\ IsMetadata(m, c) /\ c \in Nat /\ h[e] \in Nat
      /\ E \in [0 .. c - 1 -> Elements \cup {NoElement}]
  BY <1>0 DEF Holds
<1>2. s \in 0 .. c - 1 /\ m[s] \in {Empty, Deleted} /\ Reached(m, c, h[e], s, {Empty})
  BY <1>00, <1>01, <1>1, FirstAvailable
<1>3. /\ IsMetadata(w, c) /\ (ExactCopies(m, c) => ExactCopies(w, c))
      /\ Writes(w, m, c, s, Full)
  <2>1. Full \in {Empty, Deleted, Full}
    OBVIOUS
  <2> QED
    BY <1>01, <1>1, <1>2, <2>1, WriteMetadataIs
<1>4. Filled(w, c) = Filled(m, c) \cup {s} /\ Removed(w, c) = Removed(m, c) \ {s}
  <2>2. /\ Filled(w, c) = IF Full = Full THEN Filled(m, c) \cup {s} ELSE Filled(m, c) \ {s}
        /\ Removed(w, c) = IF Full = Deleted THEN Removed(m, c) \cup {s} ELSE Removed(m, c) \ {s}
    BY <1>2, <1>3, FilledIs
  <2> QED
    BY <2>2, BytesDiffer
<1>5. s \notin Filled(m, c)
  BY <1>2, BytesDiffer DEF Filled
<1>6. /\ D \in [0 .. c - 1 -> Elements \cup {NoElement}]
      /\ \A i \in 0 .. c - 1 : D[i] = IF i = s THEN e ELSE E[i]
  BY <1>01, <1>1, <1>2
<1>7. \A i \in Filled(m, c) : i \in 0 .. c - 1 /\ i # s /\ D[i] = E[i]
  BY <1>5, <1>6 DEF Filled
<1>8. D[s] = e
  BY <1>2, <1>6
<1>9. \A t \in 0 .. c - 1 : w[t] \in {Empty} => m[t] \in {Empty}
  BY <1>3, BytesDiffer DEF Writes
<1>10. ASSUME NEW i \in Filled(w, c)
       PROVE  D[i] \in Elements /\ Reached(w, c, h[D[i]], i, {Empty})
  <2>1. CASE i = s
    BY <1>2, <1>8, <1>9, <2>1, ReachedStays
  <2>2. CASE i # s
    <3>1. i \in Filled(m, c) /\ D[i] = E[i]
      BY <1>4, <1>7, <2>2
    <3>2. E[i] \in Elements /\ Reached(m, c, h[E[i]], i, {Empty})
      BY <3>1 DEF Holds
    <3> QED
      BY <1>9, <3>1, <3>2, ReachedStays
  <2> QED
    BY <2>1, <2>2
<1>11. \A i \in Filled(m, c) : E[i] # e
  BY DEF HeldIn
<1>12. ASSUME NEW i \in Filled(w, c), NEW j \in Filled(w, c), D[i] = D[j]
       PROVE  i = j
  BY <1>4, <1>7, <1>8, <1>11, <1>12 DEF Holds
<1>13. ASSUME NEW i \in Removed(w, c)
       PROVE  D[i] = NoElement
  <2>1. i \in Removed(m, c) /\ i # s /\ i \in 0 .. c - 1
    BY <1>4 DEF Removed
  <2> QED
    BY <1>6, <2>1 DEF Holds
<1>14. HeldIn(w, D, c) = HeldIn(m, E, c) \cup {e}
  <2>1. \A y \in HeldIn(w, D, c) : y \in HeldIn(m, E, c) \cup {e}
    BY <1>4, <1>7, <1>8 DEF HeldIn
  <2>2. \A y \in HeldIn(m, E, c) \cup {e} : y \in HeldIn(w, D, c)
    BY <1>4, <1>7, <1>8 DEF HeldIn
  <2> QED
    BY <2>1, <2>2
<1>15. Holds(w, D, c, h)
  BY <1>0, <1>3, <1>6, <1>10, <1>12, <1>13 DEF Holds
<1> QED
  BY <1>2, <1>3, <1>4, <1>5, <1>6, <1>14, <1>15

\* A table without an element.
LEMMA EmptyHolds ==
    ASSUME NEW c, IsCapacity(c), NEW h, NEW m, m = AllEmpty(c),
           NEW E \in [0 .. c - 1 -> Elements \cup {NoElement}]
    PROVE  /\ Holds(m, E, c, h) /\ Filled(m, c) = {} /\ Removed(m, c) = {}
           /\ c > 0 => ExactCopies(m, c)
<1>1. CASE c = 0
  <2>1. 0 .. c - 1 = {}
    BY <1>1
  <2>2. Filled(m, c) = {} /\ Removed(m, c) = {}
    BY <2>1 DEF Filled, Removed
  <2> QED
    BY <1>1, <2>2 DEF Holds
<1>2. CASE c > 0
  <2>1. IsMetadata(m, c) /\ ExactCopies(m, c) /\ \A s \in 0 .. c - 1 : m[s] = Empty
    BY <1>2, AllEmptyIs
  <2>2. Filled(m, c) = {} /\ Removed(m, c) = {}
    BY <2>1, BytesDiffer DEF Filled, Removed
  <2>3. c # 0
    BY <1>2, SizeFacts
  <2> QED
    BY <2>1, <2>2, <2>3 DEF Holds
<1> QED
  BY <1>1, <1>2, SizeFacts

\* What the search for an element finds.
LEMMA FindIs ==
    ASSUME IsCapacity(capacity), h1 \in [Elements -> Nat],
           Holds(metadata, elements, capacity, h1), NEW e \in Elements
    PROVE  /\ Find(e, {Empty}) # NoSlot => /\ Find(e, {Empty}) \in Filled(metadata, capacity)
                                           /\ elements[Find(e, {Empty})] = e
           /\ Find(e, {Empty}) = NoSlot => e \notin HeldIn(metadata, elements, capacity)
<1> DEFINE c == capacity
           Offset(n) == ProbeOffset(c, h1[e], n)
           Matches(offset) == {j \in InGroup(metadata, offset, {Full}) :
                                 elements[SlotAt(c, offset, j)] = e}
           Ends == {k \in Probes(c) : \/ InGroup(metadata, Offset(k), {Empty}) # {}
                                      \/ Matches(Offset(k)) # {}}
           n == Min(Ends)
           j == Min(Matches(Offset(n)))
           i == Find(e, {Empty})
<1>1. /\ GroupWidth \in {4, 8} /\ c \in Nat /\ h1[e] \in Nat
      /\ Probes(c) \subseteq Nat
      /\ \A p \in Probes(c) : 0 .. p \subseteq Probes(c)
  BY SizeFacts
<1>2. \A k \in Probes(c) : Offset(k) \in 0 .. c
  BY <1>1, OffsetIs
<1>3. i = IF Ends = {} \/ Matches(Offset(n)) = {} THEN NoSlot ELSE SlotAt(c, Offset(n), j)
  BY DEF Find
<1>4. Ends # {} => n \in Ends /\ \A k \in Ends : n <= k
  <2>1. Ends \subseteq Nat
    BY <1>1
  <2> HIDE DEF Ends
  <2> QED
    BY <2>1, MinIs
<1>5. Matches(Offset(n)) # {} => j \in Matches(Offset(n))
  <2>1. Matches(Offset(n)) \subseteq 0 .. GroupWidth - 1
    BY DEF InGroup
  <2>2. 0 .. GroupWidth - 1 \subseteq Nat
    BY <1>1
  <2> HIDE DEF Matches, n
  <2>3. Matches(Offset(n)) \subseteq Nat
    BY <2>1, <2>2
  <2> QED
    BY <2>3, MinIs
<1> HIDE DEF n, j, i
<1>6. CASE c = 0
  <2>1. metadata = AllEmpty(0) /\ 0 .. c - 1 = {}
    BY <1>6 DEF Holds
  <2>2. ASSUME NEW k \in Probes(c)
        PROVE  Matches(Offset(k)) = {}
    <3>1. Offset(k) = 0
      BY <1>2, <1>6
    <3>2. \A l \in 0 .. GroupWidth - 1 : metadata[0 + l] # Full
      BY <1>1, <2>1, BytesDiffer DEF AllEmpty
    <3> QED
      BY <3>1, <3>2 DEF InGroup
  <2>3. i = NoSlot
    <3> HIDE DEF Matches, Offset
    <3> QED
      BY <1>3, <1>4, <2>2
  <2>4. HeldIn(metadata, elements, capacity) = {}
    BY <2>1 DEF HeldIn, Filled
  <2> QED
    BY <2>3, <2>4 DEF i
<1>7. CASE c # 0
  <2>1. c > 0 /\ IsMetadata(metadata, c)
    BY <1>1, <1>7 DEF Holds
  <2>2. ASSUME NEW k \in Probes(c), NEW l \in Matches(Offset(k))
        PROVE  /\ SlotAt(c, Offset(k), l) \in Filled(metadata, c)
               /\ elements[SlotAt(c, Offset(k), l)] = e
    <3>1. /\ l \in 0 .. GroupWidth - 1 /\ metadata[Offset(k) + l] = Full
          /\ elements[SlotAt(c, Offset(k), l)] = e
      BY DEF InGroup
    <3> DEFINE s == SlotAt(c, Offset(k), l)
    <3>2. s \in 0 .. c /\ (metadata[s] = Full \/ metadata[s] = Deleted)
      <4>1. Offset(k) \in 0 .. c
        BY <1>2
      <4> HIDE DEF Offset
      <4> QED
        BY <2>1, <3>1, <4>1, ByteOfSlot
    <3> HIDE DEF s
    <3>3. s \in 0 .. c - 1
      <4>1. s # c
        BY <2>1, <3>2, BytesDiffer DEF IsMetadata
      <4> QED
        BY <1>1, <3>2, <4>1
    <3>4. metadata[s] # Deleted
      <4> SUFFICES ASSUME metadata[s] = Deleted
                   PROVE  FALSE
        OBVIOUS
      <4>1. elements[s] = NoElement
        BY <3>3 DEF Holds, Removed
      <4> QED
        BY <3>1, <4>1, ScatterAssumption DEF s
    <3> QED
      BY <3>1, <3>2, <3>3, <3>4 DEF s, Filled
  <2>3. i # NoSlot => i \in Filled(metadata, c) /\ elements[i] = e
    <3> SUFFICES ASSUME i # NoSlot
                 PROVE  i \in Filled(metadata, c) /\ elements[i] = e
      OBVIOUS
    <3>1. Ends # {} /\ Matches(Offset(n)) # {} /\ i = SlotAt(c, Offset(n), j)
      <4> HIDE DEF Ends, Matches, Offset
      <4> QED
        BY <1>3
    <3>2. n \in Probes(c)
      BY <1>4, <3>1
    <3>3. j \in Matches(Offset(n))
      BY <1>5, <3>1
    <3> HIDE DEF Matches, Offset
    <3> QED
      BY <2>2, <3>1, <3>2, <3>3
  <2>4. ASSUME i = NoSlot, NEW s \in Filled(metadata, c), elements[s] = e
        PROVE  FALSE
    <3>1. PICK p \in Probes(c) :
            /\ Visits(c, h1[e], p, s)
            /\ \A k \in 0 .. p - 1 : \A t \in 0 .. c - 1 :
                 Visits(c, h1[e], k, t) => metadata[t] \notin {Empty}
      <4>1. Reached(metadata, c, h1[e], s, {Empty})
        BY <2>4 DEF Holds
      <4> QED
        BY <4>1 DEF Reached
    <3>2. s \in 0 .. c - 1 /\ metadata[s] = Full
      BY DEF Filled
    <3>3. PICK l \in 0 .. GroupWidth - 1 : SlotAt(c, Offset(p), l) = s
      BY <3>1 DEF Visits
    <3>4. metadata[Offset(p) + l] = Full
      <4>1. Offset(p) \in 0 .. c
        BY <1>2
      <4> HIDE DEF Offset
      <4> QED
        BY <2>1, <3>2, <3>3, <4>1, ByteOfSlot, BytesDiffer
    <3>5. l \in Matches(Offset(p))
      BY <2>4, <3>3, <3>4 DEF InGroup
    <3>6. p \in Ends
      BY <3>5
    <3>7. n \in Ends /\ n <= p
      BY <1>4, <3>6
    <3>8. n \in Probes(c) /\ n \in Nat /\ p \in Nat
      BY <1>1, <3>7
    <3>9. Matches(Offset(n)) = {}
      <4> SUFFICES ASSUME Matches(Offset(n)) # {}
                   PROVE  FALSE
        OBVIOUS
      <4>1. j \in Matches(Offset(n)) /\ i = SlotAt(c, Offset(n), j)
        <5> HIDE DEF Ends, Matches, Offset
        <5> QED
          BY <1>3, <1>5, <3>6
      <4>2. i \in Filled(metadata, c)
        <5> HIDE DEF Matches, Offset
        <5> QED
          BY <2>2, <3>8, <4>1
      <4>3. i \in Nat
        BY <1>1, <4>2 DEF Filled
      <4> QED
        BY <2>4, <4>3 DEF NoSlot
    <3>10. n # p
      BY <3>5, <3>9
    <3>11. InGroup(metadata, Offset(n), {Empty}) # {}
      BY <3>7, <3>9
    <3>12. PICK o \in 0 .. GroupWidth - 1 : metadata[Offset(n) + o] = Empty
      BY <3>11 DEF InGroup
    <3> DEFINE t == SlotAt(c, Offset(n), o)
    <3>13. t \in 0 .. c /\ metadata[t] = Empty
      <4>1. Offset(n) \in 0 .. c
        BY <1>2, <3>8
      <4> HIDE DEF Offset
      <4> QED
        BY <2>1, <3>12, <4>1, ByteOfSlot, BytesDiffer
    <3>14. Visits(c, h1[e], n, t)
      BY DEF Visits
    <3> HIDE DEF t
    <3>15. t \in 0 .. c - 1
      <4>1. t # c
        BY <2>1, <3>13, BytesDiffer DEF IsMetadata
      <4> QED
        BY <1>1, <3>13, <4>1
    <3>16. n \in 0 .. p - 1
      BY <3>7, <3>8, <3>10
    <3> QED
      BY <3>1, <3>13, <3>14, <3>15, <3>16
  <2>5. i = NoSlot => e \notin HeldIn(metadata, elements, capacity)
    BY <2>4 DEF HeldIn
  <2> QED
    BY <2>3, <2>5 DEF i
<1> QED
  BY <1>6, <1>7

\* The slots of the old table that k turns have seen and that have an element.
Seen(k) == {i \in 0 .. k - 1 : metadata[i] = Full}

\* The tables of capacity n that the loop of resizeStorage can have.
Tables(n) ==
    [metadata : [0 .. n + GroupWidth - 1 -> Bytes],
     elements : [0 .. n - 1 -> Elements \cup {NoElement}],
     capacity : {n}, growthLimit : {LoadedCapacity(n) - size}]

\* initializeStorage makes one of these tables.
LEMMA NewTableIs ==
    ASSUME NEW n, IsCapacity(n)
    PROVE  NewTable(n) \in Tables(n)
<1>1. AllEmpty(n) \in [0 .. n + GroupWidth - 1 -> Bytes]
  BY DEF AllEmpty, Bytes
<1>2. [i \in 0 .. n - 1 |-> NoElement] \in [0 .. n - 1 -> Elements \cup {NoElement}]
  OBVIOUS
<1> QED
  BY <1>1, <1>2 DEF NewTable, Tables

\* A turn of the loop makes one of these tables of another.
LEMMA PlaceIs ==
    ASSUME NEW n, IsCapacity(n), NEW t \in Tables(n), NEW i \in 0 .. capacity - 1,
           elements \in [0 .. capacity - 1 -> Elements \cup {NoElement}]
    PROVE  Place(t, i) \in Tables(n)
<1> DEFINE s == FindFirstAvailableSlot(t.metadata, t.capacity, h1[elements[i]])
           m == t.metadata
           raw == [m EXCEPT ![s] = Full]
           w == WriteMetadata(m, n, s, Full)
           D == [t.elements EXCEPT ![s] = elements[i]]
<1>0. n \in Nat /\ GroupWidth \in {4, 8} /\ (n > 0 => n >= GroupWidth - 1)
  BY SizeFacts
<1>1. /\ t = [metadata |-> m, elements |-> t.elements, capacity |-> n,
              growthLimit |-> LoadedCapacity(n) - size]
      /\ m \in [0 .. n + GroupWidth - 1 -> Bytes]
      /\ t.elements \in [0 .. n - 1 -> Elements \cup {NoElement}]
      /\ t.capacity = n
  BY DEF Tables
<1>2. D \in [0 .. n - 1 -> Elements \cup {NoElement}]
  BY <1>1
<1>3. raw \in [0 .. n + GroupWidth - 1 -> Bytes]
  BY <1>1 DEF Bytes
<1>4. Cloned(raw, n) \in [0 .. n + GroupWidth - 1 -> Bytes]
  <2> HIDE DEF raw
  <2>1. DOMAIN raw = 0 .. n + GroupWidth - 1
    BY <1>3
  <2>2. ASSUME NEW b \in 0 .. n + GroupWidth - 1
        PROVE  (IF b > n THEN raw[b - n - 1] ELSE raw[b]) \in Bytes
    <3>1. b > n => b - n - 1 \in 0 .. n + GroupWidth - 1
      BY <1>0
    <3> QED
      BY <1>3, <3>1
  <2> QED
    BY <2>1, <2>2 DEF Cloned
<1>5. w \in [0 .. n + GroupWidth - 1 -> Bytes]
  BY <1>3, <1>4 DEF WriteMetadata
<1>6. Place(t, i) = IF metadata[i] = Full
                      THEN [t EXCEPT !.metadata = w, !.elements = D] ELSE t
  BY <1>1 DEF Place
<1> HIDE DEF w, D
<1> QED
  BY <1>1, <1>2, <1>5, <1>6 DEF Tables

\* The turns of the loop.
LEMMA PlacedIs ==
    ASSUME NEW n, IsCapacity(n), capacity \in Nat,
           elements \in [0 .. capacity - 1 -> Elements \cup {NoElement}],
           NEW k \in 0 .. capacity
    PROVE  /\ Placed(n, k) \in Tables(n)
           /\ Placed(n, k) = IF k = 0 THEN NewTable(n) ELSE Place(Placed(n, k - 1), k - 1)
<1> DEFINE S == Tables(n)
           C == capacity
           start == NewTable(n)
           F == [p \in (1 .. C) \X S |-> Place(p[2], p[1] - 1)]
           Recorded(g) == g = [turns \in 0 .. C |->
                                 IF turns = 0 THEN start ELSE Place(g[turns - 1], turns - 1)]
           after == CHOOSE g : Recorded(g)
<1>1. F \in [(1 .. C) \X S -> S] /\ start \in S /\ C \in Nat
  <2>1. ASSUME NEW p \in (1 .. C) \X S
        PROVE  Place(p[2], p[1] - 1) \in S
    <3>1. p[2] \in S /\ p[1] - 1 \in 0 .. capacity - 1
      OBVIOUS
    <3> HIDE DEF S
    <3>2. p[2] \in Tables(n)
      BY <3>1 DEF S
    <3> QED
      BY <3>1, <3>2, PlaceIs DEF S
  <2> QED
    BY <2>1, NewTableIs
<1>2. PICK f : TurnsOf(f, C, start, F)
  <2> HIDE DEF F, S, start, C
  <2> QED
    BY <1>1, TurnsExist
<1> DEFINE T == {m \in 0 .. C : f[m] \notin S}
<1>3. ASSUME NEW m \in 0 .. C, m > 0, f[m - 1] \in S
      PROVE  f[m] = Place(f[m - 1], m - 1) /\ f[m] \in S
  <2>1. f[m] = F[<<m, f[m - 1]>>]
    <3> HIDE DEF F, S, start
    <3> QED
      BY <1>2, <1>3 DEF TurnsOf
  <2>2. <<m, f[m - 1]>> \in (1 .. C) \X S
    <3> HIDE DEF S
    <3>1. m \in 1 .. C
      BY <1>1, <1>3
    <3> QED
      BY <1>3, <3>1
  <2>3. F[<<m, f[m - 1]>>] \in S
    <3> HIDE DEF F, S
    <3> QED
      BY <1>1, <2>2
  <2>4. F[<<m, f[m - 1]>>] = Place(f[m - 1], m - 1)
    <3> HIDE DEF S
    <3> QED
      BY <2>2
  <2> QED
    BY <2>1, <2>3, <2>4
<1>4. f[0] = start
  <2> HIDE DEF F, S, start, C
  <2>1. 0 \in 0 .. C
    BY <1>1
  <2>2. f[0] = IF 0 = 0 THEN start ELSE F[<<0, f[0 - 1]>>]
    BY <1>2, <2>1 DEF TurnsOf
  <2> QED
    BY <2>2
<1>5. \A m \in 0 .. C : f[m] \in S
  <2> SUFFICES ASSUME T # {}
               PROVE  FALSE
    OBVIOUS
  <2>1. PICK m \in T : \A d \in T : m <= d
    <3>1. T \subseteq Nat
      BY <1>1
    <3> HIDE DEF T
    <3> QED
      BY <3>1, LeastNumber
  <2>2. m \in 0 .. C /\ f[m] \notin S
    OBVIOUS
  <2>3. m # 0
    BY <1>1, <1>4, <2>2
  <2>4. m - 1 \in 0 .. C /\ m - 1 \notin T
    <3> HIDE DEF T
    <3> QED
      BY <1>1, <2>1, <2>2, <2>3
  <2>5. f[m - 1] \in S
    BY <2>4
  <2>6. m > 0
    BY <2>2, <2>3
  <2> QED
    <3> HIDE DEF S, T
    <3> QED
      BY <1>3, <2>2, <2>5, <2>6
<1>6. Recorded(f)
  <2>1. f = [m \in 0 .. C |-> f[m]]
    BY <1>2 DEF TurnsOf
  <2>2. \A m \in 0 .. C : f[m] = IF m = 0 THEN start ELSE Place(f[m - 1], m - 1)
    <3> SUFFICES ASSUME NEW m \in 0 .. C
                 PROVE  f[m] = IF m = 0 THEN start ELSE Place(f[m - 1], m - 1)
      OBVIOUS
    <3>1. CASE m = 0
      BY <1>4, <3>1
    <3>2. CASE m # 0
      <4>1. m > 0 /\ m - 1 \in 0 .. C
        BY <3>2
      <4> HIDE DEF S
      <4> QED
        BY <1>3, <1>5, <4>1
    <3> QED
      BY <3>1, <3>2
  <2> HIDE DEF start
  <2> QED
    BY <2>1, <2>2
<1>7. Recorded(after)
  <2> HIDE DEF Recorded
  <2> QED
    BY <1>6
<1> HIDE DEF after
<1>8. \A m \in 0 .. C : after[m] = f[m]
  <2> DEFINE U == {m \in 0 .. C : after[m] # f[m]}
  <2> SUFFICES ASSUME U # {}
               PROVE  FALSE
    OBVIOUS
  <2>0. \A m \in 0 .. C : /\ after[m] = IF m = 0 THEN start ELSE Place(after[m - 1], m - 1)
                          /\ f[m] = IF m = 0 THEN start ELSE Place(f[m - 1], m - 1)
    BY <1>6, <1>7
  <2>1. PICK m \in U : \A d \in U : m <= d
    <3>1. U \subseteq Nat
      BY <1>1
    <3> HIDE DEF U
    <3> QED
      BY <3>1, LeastNumber
  <2>2. m \in 0 .. C /\ after[m] # f[m]
    OBVIOUS
  <2>3. m # 0
    BY <2>0, <2>2
  <2>4. m - 1 \in 0 .. C /\ m - 1 \notin U
    <3> HIDE DEF U
    <3> QED
      BY <1>1, <2>1, <2>2, <2>3
  <2>5. after[m - 1] = f[m - 1]
    BY <2>4
  <2> QED
    <3> HIDE DEF U
    <3> QED
      BY <2>0, <2>2, <2>3, <2>5
<1>9. \A m \in 0 .. C : Placed(n, m) = after[m]
  BY DEF Placed, after
<1>10. Placed(n, k) = IF k = 0 THEN start ELSE Place(Placed(n, k - 1), k - 1)
  <2>1. after[k] = IF k = 0 THEN start ELSE Place(after[k - 1], k - 1)
    BY <1>7
  <2>2. k # 0 => k - 1 \in 0 .. C
    OBVIOUS
  <2> HIDE DEF start
  <2> QED
    BY <1>9, <2>1, <2>2
<1>11. Placed(n, k) \in S
  BY <1>5, <1>8, <1>9
<1> QED
  BY <1>10, <1>11

\* No slot that is not Full has an element left in it.
NoneElse(m, E, c) == \A i \in 0 .. c - 1 : i \notin Filled(m, c) => E[i] = NoElement

\* What a new table of capacity n is to be after k turns of the loop: it holds
\* the elements of the slots seen, each in one slot.
IsPlaced(t, n, k) ==
    /\ t \in Tables(n)
    /\ NoneElse(t.metadata, t.elements, n)
    /\ Holds(t.metadata, t.elements, n, h1)
    /\ n > 0 => ExactCopies(t.metadata, n)
    /\ Removed(t.metadata, n) = {}
    /\ HeldIn(t.metadata, t.elements, n) = {elements[i] : i \in Seen(k)}
    /\ Cardinality(Filled(t.metadata, n)) = Cardinality(Seen(k))

\* The slots seen are counted one turn after the other.
LEMMA SeenGrows ==
    ASSUME IsCapacity(capacity), NEW k \in 0 .. capacity
    PROVE  /\ IsFiniteSet(Seen(k)) /\ Cardinality(Seen(k)) \in Nat
           /\ Cardinality(Seen(k)) <= Cardinality(Filled(metadata, capacity))
           /\ Seen(0) = {} /\ Seen(capacity) = Filled(metadata, capacity)
           /\ k > 0 => /\ Seen(k) = IF metadata[k - 1] = Full THEN Seen(k - 1) \cup {k - 1}
                                    ELSE Seen(k - 1)
                       /\ k - 1 \notin Seen(k - 1)
                       /\ metadata[k - 1] = Full =>
                            Cardinality(Seen(k)) = Cardinality(Seen(k - 1)) + 1
<1>1. capacity \in Nat /\ k \in Nat
  BY SizeFacts
<1>2. /\ IsFiniteSet(0 .. capacity - 1)
      /\ Filled(metadata, capacity) \subseteq 0 .. capacity - 1
      /\ Seen(k) \subseteq Filled(metadata, capacity)
  <2>1. IsFiniteSet(0 .. capacity - 1)
    <3>1. 0 \in Int /\ capacity - 1 \in Int
      BY <1>1
    <3> QED
      BY <3>1, FS_Interval
  <2>2. /\ Filled(metadata, capacity) \subseteq 0 .. capacity - 1
        /\ Seen(k) \subseteq Filled(metadata, capacity)
    BY <1>1 DEF Filled, Seen
  <2> QED
    BY <2>1, <2>2
<1>3. /\ IsFiniteSet(Filled(metadata, capacity)) /\ IsFiniteSet(Seen(k))
      /\ Cardinality(Seen(k)) \in Nat
      /\ Cardinality(Seen(k)) <= Cardinality(Filled(metadata, capacity))
  BY <1>2, FS_Subset, FS_CardinalityType
<1>4. Seen(0) = {} /\ Seen(capacity) = Filled(metadata, capacity)
  BY <1>1 DEF Seen, Filled
<1>5. ASSUME k > 0
      PROVE  /\ Seen(k) = IF metadata[k - 1] = Full THEN Seen(k - 1) \cup {k - 1} ELSE Seen(k - 1)
             /\ k - 1 \notin Seen(k - 1)
             /\ metadata[k - 1] = Full => Cardinality(Seen(k)) = Cardinality(Seen(k - 1)) + 1
  <2>1. Seen(k) = IF metadata[k - 1] = Full THEN Seen(k - 1) \cup {k - 1} ELSE Seen(k - 1)
    BY <1>1, <1>5 DEF Seen
  <2>2. k - 1 \notin Seen(k - 1)
    BY <1>1 DEF Seen
  <2>3. IsFiniteSet(Seen(k - 1))
    <3>1. Seen(k - 1) \subseteq Seen(k)
      BY <2>1
    <3> QED
      BY <1>3, <3>1, FS_Subset
  <2>4. Cardinality(Seen(k - 1) \cup {k - 1}) = Cardinality(Seen(k - 1)) + 1
    BY <2>2, <2>3, FS_AddElement
  <2> QED
    BY <2>1, <2>2, <2>4
<1> QED
  BY <1>3, <1>4, <1>5

\* A turn of the loop.
LEMMA PlaceHolds ==
    ASSUME IsCapacity(capacity), h1 \in [Elements -> Nat],
           Holds(metadata, elements, capacity, h1),
           NEW n, IsCapacity(n), Cardinality(Filled(metadata, capacity)) <= LoadedCapacity(n),
           NEW k \in 1 .. capacity, NEW t, IsPlaced(t, n, k - 1)
    PROVE  IsPlaced(Place(t, k - 1), n, k)
<1>1. capacity \in Nat /\ k \in Nat /\ k > 0 /\ k \in 0 .. capacity /\ k - 1 \in 0 .. capacity
  BY SizeFacts
<1>2. elements \in [0 .. capacity - 1 -> Elements \cup {NoElement}]
  BY DEF Holds
<1>3. CASE metadata[k - 1] # Full
  <2>1. Place(t, k - 1) = t
    BY <1>3 DEF Place
  <2>2. Seen(k) = Seen(k - 1)
    BY <1>1, <1>3, SeenGrows
  <2> QED
    BY <2>1, <2>2 DEF IsPlaced
<1>4. CASE metadata[k - 1] = Full
  <2> DEFINE e == elements[k - 1]
             m == t.metadata
             E == t.elements
             s == FindFirstAvailableSlot(m, n, h1[e])
             w == WriteMetadata(m, n, s, Full)
             D == [E EXCEPT ![s] = e]
  <2>1. k - 1 \in Filled(metadata, capacity)
    BY <1>1, <1>4 DEF Filled
  <2>2. e \in Elements
    BY <2>1 DEF Holds
  <2>3. e \notin HeldIn(m, E, n)
    <3>1. \A i \in Seen(k - 1) : i \in Filled(metadata, capacity) /\ i # k - 1
      BY <1>1 DEF Seen, Filled
    <3>2. \A i \in Seen(k - 1) : elements[i] # e
      BY <2>1, <3>1 DEF Holds
    <3> QED
      BY <3>2 DEF IsPlaced
  <2>4. /\ Cardinality(Filled(m, n)) < Cardinality(Seen(k))
        /\ Cardinality(Seen(k)) = Cardinality(Filled(m, n)) + 1
        /\ Cardinality(Seen(k)) <= LoadedCapacity(n)
    <3>1. /\ Cardinality(Seen(k)) = Cardinality(Seen(k - 1)) + 1
          /\ Cardinality(Seen(k)) <= Cardinality(Filled(metadata, capacity))
          /\ Cardinality(Seen(k)) \in Nat /\ Cardinality(Seen(k - 1)) \in Nat
      BY <1>1, <1>4, SeenGrows
    <3>2. Cardinality(Filled(metadata, capacity)) \in Nat
      <4>1. Cardinality(Seen(capacity)) \in Nat /\ Seen(capacity) = Filled(metadata, capacity)
        BY <1>1, SeenGrows
      <4> QED
        BY <4>1
    <3>3. LoadedCapacity(n) \in Nat
      BY LoadFacts
    <3>4. Cardinality(Filled(m, n)) = Cardinality(Seen(k - 1))
      BY DEF IsPlaced
    <3> QED
      BY <3>1, <3>2, <3>3, <3>4
  <2>5. n \in Nat /\ n > 0 /\ Cardinality(Filled(m, n)) < n
    <3>1. n \in Nat /\ LoadedCapacity(n) \in Nat
      BY LoadFacts, SizeFacts
    <3>2. Cardinality(Seen(k)) \in Nat /\ Cardinality(Filled(m, n)) \in Nat
      <4>1. Cardinality(Seen(k)) \in Nat /\ Cardinality(Seen(k - 1)) \in Nat
        BY <1>1, SeenGrows
      <4> QED
        BY <4>1 DEF IsPlaced
    <3>3. n # 0
      <4>1. LoadedCapacity(n) > 0
        BY <2>4, <3>1, <3>2
      <4> QED
        BY <3>1, <4>1, LoadFacts
    <3>4. LoadedCapacity(n) < n
      BY <3>1, <3>3, LoadFacts
    <3> QED
      BY <2>4, <3>1, <3>2, <3>3, <3>4
  <2>6. Holds(m, E, n, h1) /\ ExactCopies(m, n) /\ Removed(m, n) = {} /\ IsMetadata(m, n)
    <3>1. Holds(m, E, n, h1) /\ ExactCopies(m, n) /\ Removed(m, n) = {} /\ n # 0
      BY <2>5 DEF IsPlaced
    <3>2. IsMetadata(m, n)
      <4> HIDE DEF m, E
      <4> QED
        BY <3>1 DEF Holds
    <3> QED
      BY <3>1, <3>2
  <2>7. PICK x \in 0 .. n - 1 : m[x] = Empty
    <3>1. \A i \in 0 .. n - 1 : m[i] \in {Full, Deleted} => i \in Filled(m, n)
      BY <2>6 DEF Removed, Filled
    <3>2. Filled(m, n) \subseteq 0 .. n - 1
      BY DEF Filled
    <3> QED
      BY <2>5, <2>6, <3>1, <3>2, EmptyIsLeft
  <2>8. /\ Holds(w, D, n, h1)
        /\ s \in 0 .. n - 1 /\ m[s] \in {Empty, Deleted}
        /\ ExactCopies(w, n)
        /\ Filled(w, n) = Filled(m, n) \cup {s} /\ s \notin Filled(m, n)
        /\ Removed(w, n) = Removed(m, n) \ {s}
        /\ HeldIn(w, D, n) = HeldIn(m, E, n) \cup {e}
        /\ \A i \in 0 .. n - 1 : D[i] = IF i = s THEN e ELSE E[i]
    <3>1. Puts(s, w, D, m, E, n, h1, e)
      BY DEF Puts
    <3>2. HasRoom(m, n)
      BY <2>7 DEF HasRoom
    <3> HIDE DEF e, m, E, s, w, D
    <3>3. IsPut(s, w, D, m, E, n, h1, e)
      BY <2>2, <2>3, <2>5, <2>6, <3>1, <3>2, PutHolds
    <3> QED
      BY <2>6, <3>3 DEF IsPut
  <2>9. t \in Tables(n) /\ t.capacity = n
    BY DEF IsPlaced, Tables
  <2>10. Place(t, k - 1) = [t EXCEPT !.metadata = w, !.elements = D]
    BY <1>4, <2>9 DEF Place
  <2>11. Place(t, k - 1).metadata = w /\ Place(t, k - 1).elements = D
    <3> HIDE DEF w, D
    <3> QED
      BY <2>9, <2>10 DEF Tables
  <2>12. Place(t, k - 1) \in Tables(n)
    <3>1. k - 1 \in 0 .. capacity - 1
      BY <1>1
    <3> QED
      BY <1>2, <2>9, <3>1, PlaceIs
  <2>13. Cardinality(Filled(w, n)) = Cardinality(Seen(k))
    <3>1. IsFiniteSet(Filled(m, n))
      <4>1. Filled(m, n) \subseteq 0 .. n - 1 /\ IsFiniteSet(0 .. n - 1)
        BY <2>5, FS_Interval DEF Filled
      <4> QED
        BY <4>1, FS_Subset
    <3>2. Cardinality(Filled(m, n) \cup {s}) = Cardinality(Filled(m, n)) + 1
      BY <2>8, <3>1, FS_AddElement
    <3> QED
      BY <2>4, <2>8, <3>2
  <2>14. HeldIn(w, D, n) = {elements[i] : i \in Seen(k)}
    <3>1. Seen(k) = Seen(k - 1) \cup {k - 1}
      BY <1>1, <1>4, SeenGrows
    <3>2. HeldIn(m, E, n) = {elements[i] : i \in Seen(k - 1)}
      BY DEF IsPlaced
    <3> QED
      BY <2>8, <3>1, <3>2
  <2>15. Removed(w, n) = {}
    BY <2>6, <2>8
  <2>16. NoneElse(w, D, n)
    <3>1. NoneElse(m, E, n)
      BY DEF IsPlaced
    <3> HIDE DEF s, w, D, m, E, e
    <3> QED
      BY <2>8, <3>1 DEF NoneElse
  <2> HIDE DEF w, D
  <2> QED
    BY <2>8, <2>11, <2>12, <2>13, <2>14, <2>15, <2>16 DEF IsPlaced
<1> QED
  BY <1>3, <1>4

\* resizeStorage moves the elements to a table in which all of them are found.
LEMMA PlacedHolds ==
    ASSUME IsCapacity(capacity), h1 \in [Elements -> Nat],
           Holds(metadata, elements, capacity, h1),
           NEW n, IsCapacity(n), Cardinality(Filled(metadata, capacity)) <= LoadedCapacity(n)
    PROVE  IsPlaced(Placed(n, capacity), n, capacity)
<1> DEFINE T == {k \in 0 .. capacity : ~IsPlaced(Placed(n, k), n, k)}
<1>1. capacity \in Nat /\ elements \in [0 .. capacity - 1 -> Elements \cup {NoElement}]
  BY SizeFacts DEF Holds
<1>2. IsPlaced(Placed(n, 0), n, 0)
  <2> DEFINE m == AllEmpty(n)
             E == [i \in 0 .. n - 1 |-> NoElement]
  <2>1. Placed(n, 0) = NewTable(n) /\ Placed(n, 0) \in Tables(n)
    <3>1. 0 \in 0 .. capacity
      BY <1>1
    <3> QED
      BY <1>1, <3>1, PlacedIs
  <2>2. NewTable(n).metadata = m /\ NewTable(n).elements = E
    BY DEF NewTable
  <2>3. /\ Holds(m, E, n, h1) /\ Filled(m, n) = {} /\ Removed(m, n) = {}
    <3>1. E \in [0 .. n - 1 -> Elements \cup {NoElement}]
      OBVIOUS
    <3> HIDE DEF E
    <3> QED
      BY <3>1, EmptyHolds
  <2>4. n > 0 => ExactCopies(m, n)
    BY AllEmptyIs
  <2>5. HeldIn(m, E, n) = {}
    BY <2>3 DEF HeldIn
  <2>6. Seen(0) = {}
    BY DEF Seen
  <2>7. NoneElse(m, E, n)
    BY DEF NoneElse
  <2> HIDE DEF m, E
  <2> QED
    BY <2>1, <2>2, <2>3, <2>4, <2>5, <2>6, <2>7 DEF IsPlaced
<1>3. ASSUME NEW k \in 1 .. capacity, IsPlaced(Placed(n, k - 1), n, k - 1)
      PROVE  IsPlaced(Placed(n, k), n, k)
  <2>1. k \in 0 .. capacity /\ k # 0
    BY <1>1
  <2>2. Placed(n, k) = Place(Placed(n, k - 1), k - 1)
    BY <1>1, <2>1, PlacedIs
  <2> QED
    BY <1>3, <2>2, PlaceHolds
<1>4. T = {}
  <2> SUFFICES ASSUME T # {}
               PROVE  FALSE
    OBVIOUS
  <2>1. PICK k \in T : \A d \in T : k <= d
    <3>1. T \subseteq Nat
      BY <1>1
    <3> HIDE DEF T
    <3> QED
      BY <3>1, LeastNumber
  <2>2. k \in 0 .. capacity /\ ~IsPlaced(Placed(n, k), n, k)
    OBVIOUS
  <2>3. k # 0
    BY <1>2, <2>2
  <2>4. k - 1 \in 0 .. capacity /\ k - 1 \notin T
    <3> HIDE DEF T
    <3> QED
      BY <1>1, <2>1, <2>2, <2>3
  <2>5. IsPlaced(Placed(n, k - 1), n, k - 1)
    BY <2>4
  <2>6. k \in 1 .. capacity
    BY <2>2, <2>3
  <2> HIDE DEF T
  <2> QED
    BY <1>3, <2>2, <2>5, <2>6
<1>5. capacity \in 0 .. capacity
  BY <1>1
<1> QED
  BY <1>4, <1>5

(***************************************************************************)
(* The inductive invariant.                                                *)
(***************************************************************************)

\* Between calls.
IdleInv ==
    /\ Holds(metadata, elements, capacity, h1)
    /\ size = Cardinality(Filled(metadata, capacity))
    /\ growthLimit = LoadedCapacity(capacity) - Cardinality(Filled(metadata, capacity))
                                              - Cardinality(Removed(metadata, capacity))
    /\ Mirrors /\ capacity > 0 => ExactCopies(metadata, capacity)
    /\ index = 0 /\ pending = NoElement

Taken == Filled(metadata, capacity) \cup Removed(metadata, capacity)

\* In the loop of dropDeletes a Deleted slot holds an element that is not
\* settled; a settled one is where its probe comes to before any such slot.
DropInv ==
    /\ capacity > GroupWidth /\ size * 32 <= capacity * 25
    /\ IsMetadata(metadata, capacity) /\ ExactCopies(metadata, capacity)
    /\ elements \in [0 .. capacity - 1 -> Elements \cup {NoElement}]
    /\ \A i \in Taken : elements[i] \in Elements
    /\ \A i, j \in Taken : elements[i] = elements[j] => i = j
    /\ \A i \in Filled(metadata, capacity) :
         Reached(metadata, capacity, h1[elements[i]], i, {Empty, Deleted})
    /\ \A i \in Removed(metadata, capacity) : i >= index
    /\ size = Cardinality(Taken)
    /\ growthLimit = 0
    /\ pending \in Elements
    /\ \A i \in Taken : elements[i] # pending

TableInv ==
    /\ IsCapacity(capacity)
    /\ h1 \in HashCodes
    /\ growthLimit \in Nat
    /\ index \in 0 .. capacity
    /\ pc \in {"idle", "drop"}
    /\ pc = "idle" => IdleInv
    /\ pc = "drop" => DropInv

\* Full and Deleted slots are finitely many and differ.
LEMMA CountsAre ==
    ASSUME NEW c, IsCapacity(c), NEW m
    PROVE  /\ IsFiniteSet(Filled(m, c)) /\ IsFiniteSet(Removed(m, c))
           /\ IsFiniteSet(Filled(m, c) \cup Removed(m, c))
           /\ Cardinality(Filled(m, c)) \in Nat /\ Cardinality(Removed(m, c)) \in Nat
           /\ Cardinality(Filled(m, c) \cup Removed(m, c))
                = Cardinality(Filled(m, c)) + Cardinality(Removed(m, c))
<1>1. IsFiniteSet(0 .. c - 1)
  <2>1. 0 \in Int /\ c - 1 \in Int
    BY SizeFacts
  <2> QED
    BY <2>1, FS_Interval
<1>2. Filled(m, c) \subseteq 0 .. c - 1 /\ Removed(m, c) \subseteq 0 .. c - 1
  BY DEF Filled, Removed
<1>3. IsFiniteSet(Filled(m, c)) /\ IsFiniteSet(Removed(m, c))
  BY <1>1, <1>2, FS_Subset
<1>4. Cardinality(Filled(m, c)) \in Nat /\ Cardinality(Removed(m, c)) \in Nat
  BY <1>3, FS_CardinalityType
<1>5. Filled(m, c) \cap Removed(m, c) = {}
  BY BytesDiffer DEF Filled, Removed
<1>6. /\ IsFiniteSet(Filled(m, c) \cup Removed(m, c))
      /\ Cardinality(Filled(m, c) \cup Removed(m, c))
           = Cardinality(Filled(m, c)) + Cardinality(Removed(m, c))
               - Cardinality(Filled(m, c) \cap Removed(m, c))
  BY <1>3, FS_Union
<1>7. Cardinality(Filled(m, c) \cap Removed(m, c)) = 0
  BY <1>5, FS_EmptySet
<1> QED
  BY <1>3, <1>4, <1>6, <1>7

\* A table in which some slot is neither Full nor Deleted has an Empty one.
LEMMA RoomIs ==
    ASSUME NEW c, IsCapacity(c), NEW m, IsMetadata(m, c),
           Cardinality(Filled(m, c)) + Cardinality(Removed(m, c)) < c
    PROVE  HasRoom(m, c)
<1>1. Cardinality(Filled(m, c) \cup Removed(m, c)) < c
  BY CountsAre
<1>2. /\ Filled(m, c) \cup Removed(m, c) \subseteq 0 .. c - 1
      /\ \A s \in 0 .. c - 1 : m[s] \in {Full, Deleted} => s \in Filled(m, c) \cup Removed(m, c)
  BY DEF Filled, Removed
<1> QED
  BY <1>1, <1>2, EmptyIsLeft DEF HasRoom

\* A table as Insert finds it, with n elements.
IsReady(t, n) ==
    /\ IsCapacity(t.capacity) /\ t.capacity > 0
    /\ Holds(t.metadata, t.elements, t.capacity, h1)
    /\ n = Cardinality(Filled(t.metadata, t.capacity))
    /\ t.growthLimit \in Nat
    /\ t.growthLimit = LoadedCapacity(t.capacity) - Cardinality(Filled(t.metadata, t.capacity))
                                                  - Cardinality(Removed(t.metadata, t.capacity))
    /\ Mirrors => ExactCopies(t.metadata, t.capacity)

\* The step puts e into the table of capacity c.
Inserts(e, m, E, c) ==
    /\ capacity' = c
    /\ IsPut(FindFirstAvailableSlot(m, c, h1[e]), metadata', elements', m, E, c, h1, e)

\* The end of findAbsoluteInsertIndex keeps the invariant and adds the element.
LEMMA InsertIs ==
    ASSUME NEW e \in Elements, NEW t, NEW n, IsReady(t, n), h1 \in HashCodes,
           e \notin HeldIn(t.metadata, t.elements, t.capacity),
           \/ t.growthLimit > 0
           \/ t.metadata[FindFirstAvailableSlot(t.metadata, t.capacity, h1[e])] = Deleted,
           Insert(e, t, n), h1' = h1, pc' = "idle", index' = 0, pending' = NoElement
    PROVE  /\ TableInv'
           /\ Inserts(e, t.metadata, t.elements, t.capacity)
           /\ HeldIn(metadata', elements', capacity')
                = HeldIn(t.metadata, t.elements, t.capacity) \cup {e}
<1> DEFINE c == t.capacity
           m == t.metadata
           E == t.elements
           s == FindFirstAvailableSlot(m, c, h1[e])
           w == WriteMetadata(m, c, s, Full)
           D == [E EXCEPT ![s] = e]
<1>1. /\ capacity' = c /\ metadata' = w /\ elements' = D /\ size' = n + 1
      /\ growthLimit' = t.growthLimit - (IF m[s] = Empty THEN 1 ELSE 0)
  BY DEF Insert
<1>2. /\ IsCapacity(c) /\ c > 0 /\ Holds(m, E, c, h1) /\ t.growthLimit \in Nat
      /\ n = Cardinality(Filled(m, c))
      /\ t.growthLimit = LoadedCapacity(c) - Cardinality(Filled(m, c)) - Cardinality(Removed(m, c))
      /\ Mirrors => ExactCopies(m, c)
  BY DEF IsReady
<1>3. h1 \in [Elements -> Nat]
  BY ScatterAssumption
<1>4. Puts(s, w, D, m, E, c, h1, e)
  BY DEF Puts
<1>5. t.growthLimit > 0 \/ m[s] = Deleted
  OBVIOUS
<1> HIDE DEF s, w, D, m, E, c
<1>6. c \in Nat /\ c # 0 /\ IsMetadata(m, c)
  BY <1>2, SizeFacts DEF Holds
<1>7. HasRoom(m, c)
  <2>1. /\ LoadedCapacity(c) \in Nat /\ LoadedCapacity(c) < c
        /\ Cardinality(Filled(m, c)) \in Nat /\ Cardinality(Removed(m, c)) \in Nat
    BY <1>2, LoadFacts, CountsAre
  <2>2. Cardinality(Filled(m, c)) + Cardinality(Removed(m, c)) < c
    BY <1>2, <1>6, <2>1
  <2> QED
    BY <1>2, <1>6, <2>2, RoomIs
<1>8. e \notin HeldIn(m, E, c)
  BY DEF m, E, c
<1>9. IsPut(s, w, D, m, E, c, h1, e)
  BY <1>2, <1>3, <1>4, <1>7, <1>8, PutHolds
<1>10. /\ Cardinality(Filled(w, c)) = Cardinality(Filled(m, c)) + 1
       /\ m[s] = Empty => Cardinality(Removed(w, c)) = Cardinality(Removed(m, c))
       /\ m[s] # Empty => Cardinality(Removed(w, c)) = Cardinality(Removed(m, c)) - 1
  <2>1. IsFiniteSet(Filled(m, c)) /\ IsFiniteSet(Removed(m, c))
    BY <1>2, CountsAre
  <2>2. /\ Filled(w, c) = Filled(m, c) \cup {s} /\ s \notin Filled(m, c)
        /\ Removed(w, c) = Removed(m, c) \ {s}
        /\ s \in 0 .. c - 1 /\ m[s] \in {Empty, Deleted}
    BY <1>9 DEF IsPut
  <2>3. m[s] = Empty <=> s \notin Removed(m, c)
    BY <2>2, BytesDiffer DEF Removed
  <2>4. Cardinality(Filled(m, c) \cup {s}) = Cardinality(Filled(m, c)) + 1
    BY <2>1, <2>2, FS_AddElement
  <2>5. Cardinality(Removed(m, c) \ {s}) = IF s \in Removed(m, c)
                                             THEN Cardinality(Removed(m, c)) - 1
                                             ELSE Cardinality(Removed(m, c))
    BY <2>1, FS_RemoveElement
  <2> QED
    BY <2>2, <2>3, <2>4, <2>5
<1>11. growthLimit' \in Nat
  <2>1. m[s] \in {Empty, Deleted}
    BY <1>9 DEF IsPut
  <2> QED
    BY <1>1, <1>2, <1>5, <2>1, BytesDiffer
<1>12. IdleInv'
  <2>1. Holds(w, D, c, h1)
    BY <1>9 DEF IsPut
  <2>2. size' = Cardinality(Filled(w, c))
    BY <1>1, <1>2, <1>10
  <2>3. growthLimit' = LoadedCapacity(c) - Cardinality(Filled(w, c)) - Cardinality(Removed(w, c))
    <3>1. /\ LoadedCapacity(c) \in Nat
          /\ Cardinality(Filled(m, c)) \in Nat /\ Cardinality(Removed(m, c)) \in Nat
      BY <1>2, LoadFacts, CountsAre
    <3> QED
      BY <1>1, <1>2, <1>10, <3>1
  <2>4. Mirrors => ExactCopies(w, c)
    BY <1>2, <1>9 DEF IsPut
  <2> QED
    BY <1>1, <2>1, <2>2, <2>3, <2>4 DEF IdleInv
<1>13. TableInv'
  <2>1. index' \in 0 .. capacity'
    BY <1>1, <1>6
  <2> QED
    BY <1>1, <1>2, <1>11, <1>12, <2>1 DEF TableInv
<1>14. HeldIn(w, D, c) = HeldIn(m, E, c) \cup {e}
  BY <1>9 DEF IsPut
<1>15. Inserts(e, m, E, c)
  BY <1>1, <1>9 DEF Inserts, s
<1> QED
  BY <1>1, <1>13, <1>14, <1>15 DEF m, E, c

\* The elements that are stored.
LEMMA StoredIs ==
    /\ pc = "idle" => Stored = HeldIn(metadata, elements, capacity)
    /\ pc = "drop" => Stored = {elements[i] : i \in Taken}
    /\ pc' = "idle" => Stored' = HeldIn(metadata', elements', capacity')
    /\ pc' = "drop" => Stored' = {elements'[i] : i \in Taken'}
BY DEF Stored, Occupied, HeldIn, Taken, Filled, Removed, Slots

\* A new table.
LEMMA InitTable == Init => TableInv /\ Stored = {}
<1> SUFFICES ASSUME Init
             PROVE  TableInv /\ Stored = {}
  OBVIOUS
<1>1. /\ IsCapacity(capacity) /\ metadata = AllEmpty(capacity)
      /\ elements = [i \in 0 .. capacity - 1 |-> NoElement]
      /\ growthLimit = LoadedCapacity(capacity) /\ size = 0 /\ h1 \in HashCodes
      /\ pc = "idle" /\ index = 0 /\ pending = NoElement
  BY InitialIs DEF Init
<1>2. elements \in [0 .. capacity - 1 -> Elements \cup {NoElement}]
  BY <1>1
<1>3. /\ Holds(metadata, elements, capacity, h1)
      /\ Filled(metadata, capacity) = {} /\ Removed(metadata, capacity) = {}
      /\ capacity > 0 => ExactCopies(metadata, capacity)
  BY <1>1, <1>2, EmptyHolds
<1>4. Cardinality(Filled(metadata, capacity)) = 0 /\ Cardinality(Removed(metadata, capacity)) = 0
  BY <1>3, FS_EmptySet
<1>5. LoadedCapacity(capacity) \in Nat /\ capacity \in Nat
  BY <1>1, LoadFacts, SizeFacts
<1>6. IdleInv
  BY <1>1, <1>3, <1>4, <1>5 DEF IdleInv
<1>7. TableInv
  BY <1>1, <1>5, <1>6 DEF TableInv
<1>8. Stored = {}
  BY <1>1, <1>3, StoredIs DEF HeldIn
<1> QED
  BY <1>7, <1>8

\* The facts about a table between calls that its steps use.
LEMMA IdleFacts ==
    ASSUME TableInv, pc = "idle"
    PROVE  /\ IdleInv /\ IsCapacity(capacity) /\ capacity \in Nat
           /\ h1 \in HashCodes /\ h1 \in [Elements -> Nat]
           /\ Holds(metadata, elements, capacity, h1)
           /\ growthLimit \in Nat /\ size \in Nat
           /\ size = Cardinality(Filled(metadata, capacity))
           /\ size <= LoadedCapacity(capacity) /\ LoadedCapacity(capacity) \in Nat
           /\ Stored = HeldIn(metadata, elements, capacity)
           /\ capacity # 0 => IsMetadata(metadata, capacity) /\ HasRoom(metadata, capacity)
<1>1. /\ IdleInv /\ IsCapacity(capacity) /\ h1 \in HashCodes /\ growthLimit \in Nat
  BY DEF TableInv
<1>2. h1 \in [Elements -> Nat] /\ capacity \in Nat
  BY <1>1, ScatterAssumption, SizeFacts
<1>3. /\ Holds(metadata, elements, capacity, h1)
      /\ size = Cardinality(Filled(metadata, capacity))
      /\ growthLimit = LoadedCapacity(capacity) - Cardinality(Filled(metadata, capacity))
                                                - Cardinality(Removed(metadata, capacity))
  BY <1>1 DEF IdleInv
<1>4. /\ Cardinality(Filled(metadata, capacity)) \in Nat
      /\ Cardinality(Removed(metadata, capacity)) \in Nat /\ LoadedCapacity(capacity) \in Nat
  BY <1>1, CountsAre, LoadFacts
<1>5. size <= LoadedCapacity(capacity) /\ size \in Nat
  BY <1>1, <1>3, <1>4
<1>6. ASSUME capacity # 0
      PROVE  IsMetadata(metadata, capacity) /\ HasRoom(metadata, capacity)
  <2>1. IsMetadata(metadata, capacity)
    BY <1>3, <1>6 DEF Holds
  <2>2. LoadedCapacity(capacity) < capacity
    BY <1>1, <1>2, <1>6, LoadFacts
  <2>3. Cardinality(Filled(metadata, capacity)) + Cardinality(Removed(metadata, capacity)) < capacity
    BY <1>1, <1>2, <1>3, <1>4, <2>2
  <2> QED
    BY <1>1, <2>1, <2>3, RoomIs
<1> QED
  BY <1>1, <1>2, <1>3, <1>4, <1>5, <1>6, StoredIs

\* A probe has a first turn in the empty table too.
LEMMA ZeroIsProbed == 0 \in Probes(0)
<1>1. {1, (0 + 1) \div GroupWidth} = {0, 1} \/ {1, (0 + 1) \div GroupWidth} = {1}
  BY ScatterAssumption
<1>2. Max({0, 1}) = 1 /\ Max({1}) = 1
  BY DEF Max
<1>3. Probes(0) = 0 .. Max({1, (0 + 1) \div GroupWidth}) - 1
  BY DEF Probes
<1>4. Max({1, (0 + 1) \div GroupWidth}) = 1
  BY <1>1, <1>2
<1> QED
  BY <1>3, <1>4

\* The empty table has no slot at hand.
LEMMA NoSlotAtHand ==
    ASSUME NEW h \in Nat
    PROVE  AllEmpty(0)[FindFirstAvailableSlot(AllEmpty(0), 0, h)] = Sentinel
<1> DEFINE m == AllEmpty(0)
           Available(n) == InGroup(m, ProbeOffset(0, h, n), {Empty, Deleted})
           N == {i \in Probes(0) : Available(i) # {}}
<1>1. IsCapacity(0) /\ GroupWidth \in {4, 8}
  BY CapacitiesAre, ScatterAssumption DEF IsCapacity
<1>2. m \in [0 .. GroupWidth - 1 -> {Empty, Sentinel}] /\ m[0] = Sentinel /\ m[1] = Empty
  BY <1>1 DEF AllEmpty
<1>3. /\ Probes(0) \subseteq Nat /\ 0 \in Probes(0)
      /\ \A k \in Probes(0) : ProbeOffset(0, h, k) = 0
  <2>1. Probes(0) \subseteq Nat
    BY <1>1, SizeFacts
  <2>2. 0 \in Probes(0)
    BY ZeroIsProbed
  <2>3. ASSUME NEW k \in Probes(0)
        PROVE  ProbeOffset(0, h, k) = 0
    <3>1. k \in Nat
      BY <2>1
    <3>2. ProbeOffset(0, h, k) \in 0 .. 0
      BY <1>1, <3>1, OffsetIs
    <3> QED
      BY <3>2
  <2> QED
    BY <2>1, <2>2, <2>3
<1> DEFINE n == Min(N)
           j == Min(Available(n))
<1>4. n \in Probes(0)
  <2>1. N \subseteq Nat
    BY <1>3
  <2>2. N # {}
    <3>1. 1 \in InGroup(m, 0, {Empty, Deleted})
      <4> HIDE DEF m
      <4> QED
        BY <1>1, <1>2 DEF InGroup
    <3> QED
      BY <1>3, <3>1
  <2>3. Min(N) \in N
    <3> HIDE DEF N
    <3> QED
      BY <2>1, <2>2, MinIs
  <2> QED
    BY <2>3
<1>5. Available(n) = InGroup(m, 0, {Empty, Deleted})
  <2> HIDE DEF n, m
  <2> QED
    BY <1>3, <1>4
<1>6. j \in Nat
  <2>1. /\ InGroup(m, 0, {Empty, Deleted}) \subseteq Nat
        /\ InGroup(m, 0, {Empty, Deleted}) # {}
    <3>1. 1 \in InGroup(m, 0, {Empty, Deleted})
      <4> HIDE DEF m
      <4> QED
        BY <1>1, <1>2 DEF InGroup
    <3>2. InGroup(m, 0, {Empty, Deleted}) \subseteq Nat
      BY <1>1 DEF InGroup
    <3> QED
      BY <3>1, <3>2
  <2>2. Min(InGroup(m, 0, {Empty, Deleted})) \in InGroup(m, 0, {Empty, Deleted})
    BY <2>1, MinIs
  <2>3. Min(InGroup(m, 0, {Empty, Deleted})) \in Nat
    BY <2>1, <2>2
  <2> HIDE DEF n, m
  <2> QED
    BY <1>5, <2>3
<1>7. FindFirstAvailableSlot(m, 0, h) = SlotAt(0, ProbeOffset(0, h, n), j)
  BY DEF FindFirstAvailableSlot
<1>8. SlotAt(0, 0, j) = 0
  <2> HIDE DEF j
  <2> QED
    BY <1>6 DEF SlotAt
<1>9. ProbeOffset(0, h, n) = 0
  BY <1>3, <1>4
<1>10. FindFirstAvailableSlot(m, 0, h) = 0
  <2> HIDE DEF j, m, n
  <2> QED
    BY <1>7, <1>8, <1>9
<1> HIDE DEF m
<1>11. m[FindFirstAvailableSlot(m, 0, h)] = Sentinel
  BY <1>2, <1>10
<1> QED
  BY <1>11 DEF m

\* add, in a table that has room or a Deleted slot at hand.
LEMMA AddAtOnceStep ==
    ASSUME TableInv, NEW e \in Elements, AddAtOnce(e)
    PROVE  TableInv' /\ Contents!Add(e) /\ Inserts(e, metadata, elements, capacity)
<1>1. /\ pc = "idle" /\ pc' = "idle" /\ Find(e, {Empty}) = NoSlot /\ ~MustAdjust(e)
      /\ Insert(e, Current, size) /\ h1' = h1 /\ index' = index /\ pending' = pending
  BY DEF AddAtOnce, cleanup
<1>2. /\ IdleInv /\ IsCapacity(capacity) /\ capacity \in Nat
      /\ h1 \in HashCodes /\ h1 \in [Elements -> Nat]
      /\ Holds(metadata, elements, capacity, h1) /\ growthLimit \in Nat
      /\ LoadedCapacity(capacity) \in Nat
      /\ Stored = HeldIn(metadata, elements, capacity)
  BY <1>1, IdleFacts
<1>3. e \notin HeldIn(metadata, elements, capacity)
  BY <1>1, <1>2, FindIs
<1>4. capacity > 0
  <2> SUFFICES ASSUME capacity = 0
               PROVE  FALSE
    BY <1>2
  <2>1. metadata = AllEmpty(0)
    BY <1>2 DEF Holds
  <2>2. metadata[FindFirstAvailableSlot(metadata, capacity, h1[e])] # Deleted
    <3>1. h1[e] \in Nat
      BY <1>2
    <3>2. AllEmpty(0)[FindFirstAvailableSlot(AllEmpty(0), 0, h1[e])] = Sentinel
      BY <3>1, NoSlotAtHand
    <3> QED
      BY <2>1, <3>2, BytesDiffer
  <2>3. growthLimit = 0
    <3>1. LoadedCapacity(capacity) = 0
      BY <1>2, LoadFacts
    <3>2. /\ Cardinality(Filled(metadata, capacity)) \in Nat
          /\ Cardinality(Removed(metadata, capacity)) \in Nat
      BY <1>2, CountsAre
    <3> QED
      BY <1>2, <3>1, <3>2 DEF IdleInv
  <2> QED
    BY <1>1, <2>2, <2>3 DEF MustAdjust
<1>5. /\ Current.metadata = metadata /\ Current.elements = elements
      /\ Current.capacity = capacity /\ Current.growthLimit = growthLimit
  BY DEF Current
<1>6. IsReady(Current, size)
  BY <1>2, <1>4, <1>5 DEF IsReady, IdleInv
<1>7. \/ growthLimit > 0
      \/ metadata[FindFirstAvailableSlot(metadata, capacity, h1[e])] = Deleted
  BY <1>1, <1>2 DEF MustAdjust
<1>8. index' = 0 /\ pending' = NoElement
  BY <1>1, <1>2 DEF IdleInv
<1>9. /\ TableInv' /\ Inserts(e, metadata, elements, capacity)
      /\ HeldIn(metadata', elements', capacity') = HeldIn(metadata, elements, capacity) \cup {e}
  BY <1>1, <1>2, <1>3, <1>5, <1>6, <1>7, <1>8, InsertIs
<1>10. Stored' = Stored \cup {e} /\ e \notin Stored
  BY <1>1, <1>2, <1>3, <1>9, StoredIs
<1> QED
  BY <1>9, <1>10 DEF Contents!Add

\* resizeStorage, in a table that is not cleaned up.
LEMMA ResizedIs ==
    ASSUME TableInv, pc = "idle", NEW c, NEW n, n = StorageCapacity(c), IsCapacity(n),
           size <= LoadedCapacity(n)
    PROVE  /\ Resized(c).capacity = n
           /\ Holds(Resized(c).metadata, Resized(c).elements, n, h1)
           /\ NoneElse(Resized(c).metadata, Resized(c).elements, n)
           /\ n > 0 => ExactCopies(Resized(c).metadata, n)
           /\ Removed(Resized(c).metadata, n) = {}
           /\ HeldIn(Resized(c).metadata, Resized(c).elements, n) = Stored
           /\ Cardinality(Filled(Resized(c).metadata, n)) = size
           /\ Cardinality(Removed(Resized(c).metadata, n)) = 0
           /\ Resized(c).growthLimit = LoadedCapacity(n) - size
           /\ Resized(c).growthLimit \in Nat
<1>1. /\ IsCapacity(capacity) /\ capacity \in Nat /\ h1 \in [Elements -> Nat]
      /\ Holds(metadata, elements, capacity, h1)
      /\ size = Cardinality(Filled(metadata, capacity)) /\ size \in Nat
      /\ Stored = HeldIn(metadata, elements, capacity)
  BY IdleFacts
<1>2. IsPlaced(Placed(n, capacity), n, capacity)
  BY <1>1, PlacedHolds
<1>3. Resized(c) = Placed(n, capacity)
  BY DEF Resized
<1> DEFINE t == Resized(c)
<1> HIDE DEF t
<1>4. IsPlaced(t, n, capacity)
  BY <1>2, <1>3 DEF t
<1>5. t.capacity = n /\ t.growthLimit = LoadedCapacity(n) - size
  BY <1>4 DEF IsPlaced, Tables
<1>6. Seen(capacity) = Filled(metadata, capacity)
  <2>1. capacity \in 0 .. capacity
    BY <1>1
  <2> QED
    BY <1>1, <2>1, SeenGrows
<1>7. HeldIn(t.metadata, t.elements, n) = Stored
  BY <1>1, <1>4, <1>6 DEF IsPlaced, HeldIn
<1>8. t.growthLimit \in Nat
  <2>1. LoadedCapacity(n) \in Nat
    BY LoadFacts
  <2> QED
    BY <1>1, <1>5, <2>1
<1>9. Cardinality(Removed(t.metadata, n)) = 0
  BY <1>4, FS_EmptySet DEF IsPlaced
<1>10. Cardinality(Filled(t.metadata, n)) = size
  BY <1>1, <1>4, <1>6 DEF IsPlaced
<1>11. /\ Holds(t.metadata, t.elements, n, h1)
       /\ NoneElse(t.metadata, t.elements, n)
       /\ n > 0 => ExactCopies(t.metadata, n)
       /\ Removed(t.metadata, n) = {}
  BY <1>4 DEF IsPlaced
<1> QED
  BY <1>5, <1>7, <1>8, <1>9, <1>10, <1>11 DEF t

\* add, after resizeStorage.
LEMMA AddAfterResizeStep ==
    ASSUME TableInv, NEW e \in Elements, AddAfterResize(e)
    PROVE  /\ TableInv' /\ Contents!Add(e)
           /\ LET t == Resized(NextCapacity(capacity))
              IN  Inserts(e, t.metadata, t.elements, t.capacity)
<1> DEFINE c == NextCapacity(capacity)
           n == StorageCapacity(c)
           t == Resized(c)
<1>1. /\ pc = "idle" /\ pc' = "idle" /\ Find(e, {Empty}) = NoSlot
      /\ c <= CapacityBound
      /\ Insert(e, t, size) /\ h1' = h1 /\ index' = index /\ pending' = pending
  BY DEF AddAfterResize, cleanup
<1>2. /\ IdleInv /\ IsCapacity(capacity) /\ capacity \in Nat
      /\ h1 \in HashCodes /\ h1 \in [Elements -> Nat]
      /\ Holds(metadata, elements, capacity, h1) /\ size \in Nat
      /\ size <= LoadedCapacity(capacity) /\ LoadedCapacity(capacity) \in Nat
      /\ Stored = HeldIn(metadata, elements, capacity)
  BY <1>1, IdleFacts
<1>3. e \notin Stored
  BY <1>1, <1>2, FindIs
<1>4. IsCapacity(n) /\ n > 0 /\ LoadedCapacity(capacity) < LoadedCapacity(n)
  BY <1>1, <1>2, GrownFacts
<1>5. LoadedCapacity(n) \in Nat /\ size < LoadedCapacity(n)
  <2>1. LoadedCapacity(n) \in Nat
    BY <1>4, LoadFacts
  <2> HIDE DEF n
  <2> QED
    BY <1>2, <1>4, <2>1
<1>6. n = StorageCapacity(c)
  OBVIOUS
<1> HIDE DEF n, c
<1>7. size <= LoadedCapacity(n)
  BY <1>2, <1>5
<1>8. /\ t.capacity = n
      /\ Holds(t.metadata, t.elements, n, h1)
      /\ n > 0 => ExactCopies(t.metadata, n)
      /\ HeldIn(t.metadata, t.elements, n) = Stored
      /\ Cardinality(Filled(t.metadata, n)) = size
      /\ Cardinality(Removed(t.metadata, n)) = 0
      /\ t.growthLimit = LoadedCapacity(n) - size
      /\ t.growthLimit \in Nat
  BY <1>1, <1>4, <1>6, <1>7, ResizedIs
<1> HIDE DEF t
<1>9. IsReady(t, size)
  BY <1>2, <1>4, <1>5, <1>8 DEF IsReady
<1>10. t.growthLimit > 0
  BY <1>2, <1>5, <1>8
<1>11. e \notin HeldIn(t.metadata, t.elements, t.capacity)
  BY <1>3, <1>8
<1>12. index' = 0 /\ pending' = NoElement
  BY <1>1, <1>2 DEF IdleInv
<1>13. /\ TableInv' /\ Inserts(e, t.metadata, t.elements, t.capacity)
       /\ HeldIn(metadata', elements', capacity')
            = HeldIn(t.metadata, t.elements, t.capacity) \cup {e}
  BY <1>1, <1>2, <1>9, <1>10, <1>11, <1>12, InsertIs
<1>14. Stored' = Stored \cup {e}
  BY <1>1, <1>8, <1>13, StoredIs
<1> QED
  BY <1>3, <1>13, <1>14 DEF Contents!Add, t, c

\* trim leaves what the table holds.
LEMMA TrimStep ==
    ASSUME TableInv, Trim
    PROVE  TableInv' /\ Stored' = Stored
<1> DEFINE c == NormalizeCapacity(UnloadedCapacity(size))
           n == StorageCapacity(c)
           t == Resized(c)
<1>1. /\ pc = "idle" /\ pc' = "idle"
      /\ metadata' = t.metadata /\ elements' = t.elements
      /\ capacity' = t.capacity /\ growthLimit' = t.growthLimit
      /\ size' = size /\ h1' = h1 /\ index' = index /\ pending' = pending
  BY DEF Trim, cleanup
<1>2. /\ IdleInv /\ IsCapacity(capacity) /\ h1 \in HashCodes /\ size \in Nat
      /\ size <= LoadedCapacity(capacity)
  BY <1>1, IdleFacts
<1>3. IsCapacity(n) /\ size <= LoadedCapacity(n)
  BY <1>2, TrimmedFacts
<1>4. n = StorageCapacity(c)
  OBVIOUS
<1> HIDE DEF n, c
<1>5. /\ t.capacity = n
      /\ Holds(t.metadata, t.elements, n, h1)
      /\ n > 0 => ExactCopies(t.metadata, n)
      /\ HeldIn(t.metadata, t.elements, n) = Stored
      /\ Cardinality(Filled(t.metadata, n)) = size
      /\ Cardinality(Removed(t.metadata, n)) = 0
      /\ t.growthLimit = LoadedCapacity(n) - size
      /\ t.growthLimit \in Nat
  BY <1>1, <1>3, <1>4, ResizedIs
<1> HIDE DEF t
<1>6. LoadedCapacity(n) \in Nat /\ n \in Nat
  BY <1>3, LoadFacts, SizeFacts
<1>7. index' = 0 /\ pending' = NoElement
  BY <1>1, <1>2 DEF IdleInv
<1>8. IdleInv'
  <2>1. growthLimit' = LoadedCapacity(n) - Cardinality(Filled(metadata', n))
                                         - Cardinality(Removed(metadata', n))
    BY <1>1, <1>2, <1>5, <1>6
  <2> QED
    BY <1>1, <1>5, <1>7, <2>1 DEF IdleInv
<1>9. TableInv'
  <2>1. index' \in 0 .. capacity'
    BY <1>1, <1>5, <1>6, <1>7
  <2> QED
    BY <1>1, <1>2, <1>3, <1>5, <1>8, <2>1 DEF TableInv
<1> QED
  BY <1>1, <1>5, <1>9, StoredIs

\* clear removes all of it.
LEMMA ClearStep ==
    ASSUME TableInv, Clear
    PROVE  TableInv' /\ Contents!Clear
<1>1. /\ pc = "idle" /\ pc' = "idle" /\ metadata' = AllEmpty(capacity) /\ size' = 0
      /\ growthLimit' = LoadedCapacity(capacity)
      /\ elements' = elements /\ capacity' = capacity /\ h1' = h1
      /\ index' = index /\ pending' = pending
  BY DEF Clear, cleanup
<1>2. /\ IdleInv /\ IsCapacity(capacity) /\ capacity \in Nat /\ h1 \in HashCodes
      /\ Holds(metadata, elements, capacity, h1) /\ LoadedCapacity(capacity) \in Nat
  BY <1>1, IdleFacts
<1>3. elements \in [0 .. capacity - 1 -> Elements \cup {NoElement}]
  BY <1>2 DEF Holds
<1>4. /\ Holds(metadata', elements, capacity, h1)
      /\ Filled(metadata', capacity) = {} /\ Removed(metadata', capacity) = {}
      /\ capacity > 0 => ExactCopies(metadata', capacity)
  BY <1>1, <1>2, <1>3, EmptyHolds
<1>5. /\ Cardinality(Filled(metadata', capacity)) = 0
      /\ Cardinality(Removed(metadata', capacity)) = 0
  BY <1>4, FS_EmptySet
<1>6. IdleInv'
  BY <1>1, <1>2, <1>4, <1>5 DEF IdleInv
<1>7. TableInv'
  <2>1. index' \in 0 .. capacity'
    BY <1>1 DEF TableInv
  <2> QED
    BY <1>1, <1>2, <1>6, <2>1 DEF TableInv
<1>8. Stored' = {}
  BY <1>1, <1>4, StoredIs DEF HeldIn
<1> QED
  BY <1>7, <1>8 DEF Contents!Clear

\* The step takes out the element of slot i and leaves the others alone.
Vacates(i) ==
    /\ i \in Filled(metadata, capacity) /\ capacity' = capacity
    /\ Filled(metadata', capacity') = Filled(metadata, capacity) \ {i}
    /\ \A j \in Filled(metadata', capacity') : elements'[j] = elements[j]

\* remove takes the element out, whether it writes the copy too or not.
LEMMA RemoveStep ==
    ASSUME TableInv, NEW e \in Elements, Remove(e)
    PROVE  TableInv' /\ Contents!Remove(e) /\ Vacates(Find(e, {Empty}))
<1> DEFINE i == Find(e, {Empty})
           c == capacity
           m == metadata
           E == elements
           w == metadata'
           D == elements'
<1>1. /\ pc = "idle" /\ pc' = "idle" /\ i # NoSlot
      /\ w = IF Mirrors THEN WriteMetadata(m, c, i, Deleted) ELSE [m EXCEPT ![i] = Deleted]
      /\ D = [E EXCEPT ![i] = NoElement] /\ size' = size - 1
      /\ c' = c /\ growthLimit' = growthLimit /\ h1' = h1
      /\ index' = index /\ pending' = pending
  BY DEF Remove, cleanup
<1>2. /\ IdleInv /\ IsCapacity(c) /\ c \in Nat /\ h1 \in HashCodes /\ h1 \in [Elements -> Nat]
      /\ Holds(m, E, c, h1) /\ growthLimit \in Nat /\ size = Cardinality(Filled(m, c))
      /\ Stored = HeldIn(m, E, c) /\ LoadedCapacity(c) \in Nat
  BY <1>1, IdleFacts
<1>3. i \in Filled(m, c) /\ E[i] = e
  BY <1>1, <1>2, FindIs
<1> HIDE DEF i
<1>4. i \in 0 .. c - 1 /\ m[i] = Full /\ c > 0 /\ c # 0
  <2>1. i \in 0 .. c - 1 /\ m[i] = Full
    BY <1>3 DEF Filled
  <2> QED
    BY <1>2, <2>1
<1>5. IsMetadata(m, c) /\ (Mirrors => ExactCopies(m, c))
  BY <1>2, <1>4 DEF Holds, IdleInv
<1>6. /\ IsMetadata(w, c) /\ Writes(w, m, c, i, Deleted)
      /\ Mirrors => ExactCopies(w, c)
  <2>1. CASE Mirrors
    <3>1. w = WriteMetadata(m, c, i, Deleted) /\ Deleted \in {Empty, Deleted, Full}
      BY <1>1, <2>1
    <3> QED
      BY <1>2, <1>4, <1>5, <2>1, <3>1, WriteMetadataIs
  <2>2. CASE ~Mirrors
    <3>1. w = [m EXCEPT ![i] = Deleted]
      BY <1>1, <2>2
    <3> QED
      BY <1>2, <1>4, <1>5, <2>2, <3>1, RawDeleteIs
  <2> QED
    BY <2>1, <2>2
<1>7. Filled(w, c) = Filled(m, c) \ {i} /\ Removed(w, c) = Removed(m, c) \cup {i}
  <2>1. /\ Filled(w, c) = IF Deleted = Full THEN Filled(m, c) \cup {i} ELSE Filled(m, c) \ {i}
        /\ Removed(w, c) = IF Deleted = Deleted THEN Removed(m, c) \cup {i} ELSE Removed(m, c) \ {i}
    BY <1>4, <1>6, FilledIs
  <2> QED
    BY <2>1, BytesDiffer
<1>8. /\ E \in [0 .. c - 1 -> Elements \cup {NoElement}]
      /\ D \in [0 .. c - 1 -> Elements \cup {NoElement}]
      /\ \A j \in 0 .. c - 1 : D[j] = IF j = i THEN NoElement ELSE E[j]
  <2>1. E \in [0 .. c - 1 -> Elements \cup {NoElement}]
    BY <1>2 DEF Holds
  <2> HIDE DEF E
  <2> QED
    BY <1>1, <1>4, <2>1
<1>9. \A j \in Filled(w, c) : j \in Filled(m, c) /\ j # i /\ D[j] = E[j] /\ j \in 0 .. c - 1
  BY <1>7, <1>8 DEF Filled
<1>10. \A t \in 0 .. c - 1 : w[t] \in {Empty} => m[t] \in {Empty}
  BY <1>6, BytesDiffer DEF Writes
<1>11. Holds(w, D, c, h1)
  <2>1. ASSUME NEW j \in Filled(w, c)
        PROVE  D[j] \in Elements /\ Reached(w, c, h1[D[j]], j, {Empty})
    <3>1. j \in Filled(m, c) /\ D[j] = E[j]
      BY <1>9
    <3>2. E[j] \in Elements /\ Reached(m, c, h1[E[j]], j, {Empty})
      BY <1>2, <3>1 DEF Holds
    <3> HIDE DEF m, w, D, E
    <3> QED
      BY <1>10, <3>1, <3>2, ReachedStays
  <2>2. \A j, k \in Filled(w, c) : D[j] = D[k] => j = k
    BY <1>2, <1>9 DEF Holds
  <2>3. \A j \in Removed(w, c) : D[j] = NoElement
    <3>1. \A j \in Removed(m, c) : j \in 0 .. c - 1 /\ E[j] = NoElement
      BY <1>2 DEF Holds, Removed
    <3> QED
      BY <1>4, <1>7, <1>8, <3>1
  <2> HIDE DEF m, w, D, E
  <2> QED
    BY <1>4, <1>6, <1>8, <2>1, <2>2, <2>3 DEF Holds
<1>12. /\ Cardinality(Filled(w, c)) = Cardinality(Filled(m, c)) - 1
       /\ Cardinality(Removed(w, c)) = Cardinality(Removed(m, c)) + 1
  <2>1. IsFiniteSet(Filled(m, c)) /\ IsFiniteSet(Removed(m, c))
    BY <1>2, CountsAre
  <2>2. i \notin Removed(m, c)
    BY <1>4, BytesDiffer DEF Removed
  <2>3. Cardinality(Filled(m, c) \ {i}) = Cardinality(Filled(m, c)) - 1
    BY <1>3, <2>1, FS_RemoveElement
  <2>4. Cardinality(Removed(m, c) \cup {i}) = Cardinality(Removed(m, c)) + 1
    BY <2>1, <2>2, FS_AddElement
  <2> QED
    BY <1>7, <2>3, <2>4
<1>13. IdleInv'
  <2>1. size' = Cardinality(Filled(w, c))
    BY <1>1, <1>2, <1>12
  <2>2. growthLimit' = LoadedCapacity(c) - Cardinality(Filled(w, c)) - Cardinality(Removed(w, c))
    <3>1. /\ growthLimit = LoadedCapacity(c) - Cardinality(Filled(m, c)) - Cardinality(Removed(m, c))
          /\ Cardinality(Filled(m, c)) \in Nat /\ Cardinality(Removed(m, c)) \in Nat
      BY <1>2, CountsAre DEF IdleInv
    <3> QED
      BY <1>1, <1>2, <1>12, <3>1
  <2>3. index' = 0 /\ pending' = NoElement
    BY <1>1, <1>2 DEF IdleInv
  <2> QED
    BY <1>1, <1>6, <1>11, <2>1, <2>2, <2>3 DEF IdleInv
<1>14. TableInv'
  <2>1. index' \in 0 .. c'
    BY <1>1 DEF TableInv
  <2> QED
    BY <1>1, <1>2, <1>13, <2>1 DEF TableInv
<1>15. Stored' = Stored \ {e} /\ e \in Stored
  <2>1. \A j \in Filled(m, c) : E[j] = e => j = i
    BY <1>2, <1>3 DEF Holds
  <2>2. HeldIn(w, D, c) = HeldIn(m, E, c) \ {e}
    <3>1. \A y \in HeldIn(w, D, c) : y \in HeldIn(m, E, c) /\ y # e
      BY <1>9, <2>1 DEF HeldIn
    <3>2. \A y \in HeldIn(m, E, c) : y # e => y \in HeldIn(w, D, c)
      <4>1. ASSUME NEW y \in HeldIn(m, E, c), y # e
            PROVE  y \in HeldIn(w, D, c)
        <5>1. PICK j \in Filled(m, c) : E[j] = y
          BY DEF HeldIn
        <5>2. j \in Filled(w, c)
          BY <1>3, <1>7, <4>1, <5>1
        <5>3. D[j] = y
          BY <1>9, <5>1, <5>2
        <5> QED
          BY <5>2, <5>3 DEF HeldIn
      <4> QED
        BY <4>1
    <3> QED
      BY <3>1, <3>2
  <2>3. e \in HeldIn(m, E, c)
    BY <1>3 DEF HeldIn
  <2>4. Stored' = HeldIn(w, D, c)
    BY <1>1, StoredIs
  <2> QED
    BY <1>2, <2>2, <2>3, <2>4
<1>16. Vacates(i)
  BY <1>1, <1>3, <1>7, <1>9 DEF Vacates
<1> QED
  BY <1>14, <1>15, <1>16 DEF Contents!Remove, i

IsRaw(r, c) ==
    /\ r \in [0 .. c + GroupWidth - 1 -> Bytes] /\ r[c] = Sentinel
    /\ \A i \in 0 .. c - 1 : r[i] # Sentinel

\* The metadata w has the bytes r in its slots, and exact copies of them.
Mirrored(w, r, c) ==
    /\ IsMetadata(w, c) /\ ExactCopies(w, c)
    /\ \A i \in 0 .. c - 1 : w[i] = r[i]

\* Copying the first bytes, as one fact for the provers.
LEMMA MirroredIs ==
    ASSUME NEW c, IsCapacity(c), c > 0, NEW r, IsRaw(r, c), NEW w, w = Cloned(r, c)
    PROVE  Mirrored(w, r, c)
<1>1. /\ r \in [0 .. c + GroupWidth - 1 -> Bytes] /\ r[c] = Sentinel
      /\ \A i \in 0 .. c - 1 : r[i] # Sentinel
  BY DEF IsRaw
<1>2. /\ IsMetadata(Cloned(r, c), c)
      /\ ExactCopies(Cloned(r, c), c)
      /\ \A i \in 0 .. c - 1 : Cloned(r, c)[i] = r[i]
  BY <1>1, ClonedIs
<1> QED
  BY <1>2 DEF Mirrored

\* convertMetadataForCleanup makes the Full slots Deleted and the others Empty.
LEMMA ConvertedIs ==
    ASSUME NEW c, IsCapacity(c), c > 0, NEW m, IsMetadata(m, c),
           NEW w, w = ConvertedForCleanup(m, c)
    PROVE  /\ IsMetadata(w, c) /\ ExactCopies(w, c)
           /\ Filled(w, c) = {} /\ Removed(w, c) = Filled(m, c)
<1> DEFINE d == DOMAIN m
           r == [b \in d |-> IF b = c THEN Sentinel
                             ELSE IF m[b] = Full THEN Deleted ELSE Empty]
<1>1. c \in Nat /\ GroupWidth \in {4, 8} /\ d = 0 .. c + GroupWidth - 1
  BY SizeFacts DEF IsMetadata
<1>2. /\ r \in [0 .. c + GroupWidth - 1 -> Bytes] /\ r[c] = Sentinel
      /\ \A i \in 0 .. c - 1 : r[i] = IF m[i] = Full THEN Deleted ELSE Empty
  <2>1. \A b \in d : r[b] = IF b = c THEN Sentinel ELSE IF m[b] = Full THEN Deleted ELSE Empty
    OBVIOUS
  <2>2. r = [b \in d |-> r[b]]
    OBVIOUS
  <2> HIDE DEF r, d
  <2>3. r \in [d -> Bytes]
    BY <2>1, <2>2 DEF Bytes
  <2> QED
    BY <1>1, <2>1, <2>3
<1>3. w = Cloned(r, c)
  BY DEF ConvertedForCleanup
<1> HIDE DEF r, d
<1>4. \A i \in 0 .. c - 1 : r[i] # Sentinel
  BY <1>2, BytesDiffer
<1>5. IsMetadata(w, c) /\ ExactCopies(w, c) /\ \A i \in 0 .. c - 1 : w[i] = r[i]
  <2>1. Mirrored(w, r, c)
    <3>1. IsRaw(r, c)
      BY <1>2, <1>4 DEF IsRaw
    <3> QED
      BY <1>3, <3>1, MirroredIs
  <2> QED
    BY <2>1 DEF Mirrored
<1>6. \A i \in 0 .. c - 1 : /\ w[i] = Deleted <=> m[i] = Full
                            /\ w[i] # Full
  BY <1>2, <1>5, BytesDiffer
<1>7. Filled(w, c) = {} /\ Removed(w, c) = Filled(m, c)
  BY <1>6 DEF Filled, Removed
<1> QED
  BY <1>5, <1>7

\* adjustStorage enters dropDeletes: nothing is settled yet.
LEMMA DropDeletesStep ==
    ASSUME TableInv, NEW e \in Elements, DropDeletes(e)
    PROVE  /\ TableInv' /\ Stored' = Stored
           /\ Filled(metadata', capacity') = {} /\ Taken' = Filled(metadata, capacity)
<1> DEFINE c == capacity
           m == metadata
           w == metadata'
<1>1. /\ pc = "idle" /\ pc' = "drop" /\ Find(e, {Empty}) = NoSlot
      /\ growthLimit = 0 /\ c > GroupWidth /\ size * 32 <= c * 25
      /\ w = ConvertedForCleanup(m, c) /\ index' = 0 /\ pending' = e
      /\ elements' = elements /\ c' = c /\ growthLimit' = growthLimit
      /\ size' = size /\ h1' = h1
  BY DEF DropDeletes, MustAdjust, DropsDeletes
<1>2. /\ IsCapacity(c) /\ c \in Nat /\ h1 \in HashCodes /\ h1 \in [Elements -> Nat]
      /\ Holds(m, elements, c, h1) /\ size = Cardinality(Filled(m, c))
      /\ Stored = HeldIn(m, elements, c) /\ (c # 0 => IsMetadata(m, c))
  BY <1>1, IdleFacts
<1>3. c > 0 /\ c # 0 /\ IsMetadata(m, c)
  BY <1>1, <1>2, ScatterAssumption
<1>4. /\ IsMetadata(w, c) /\ ExactCopies(w, c)
      /\ Filled(w, c) = {} /\ Removed(w, c) = Filled(m, c)
  BY <1>1, <1>2, <1>3, ConvertedIs
<1>5. Taken' = Filled(m, c)
  BY <1>1, <1>4 DEF Taken
<1>6. e \notin HeldIn(m, elements, c)
  BY <1>1, <1>2, FindIs
<1>7. DropInv'
  <2>1. \A i \in Filled(m, c) : elements[i] \in Elements
    BY <1>2 DEF Holds
  <2>2. \A i, j \in Filled(m, c) : elements[i] = elements[j] => i = j
    BY <1>2 DEF Holds
  <2>3. \A i \in Filled(m, c) : elements[i] # e
    BY <1>6 DEF HeldIn
  <2>4. \A i \in Removed(w, c) : i >= index'
    BY <1>1 DEF Removed
  <2>5. elements \in [0 .. c - 1 -> Elements \cup {NoElement}]
    BY <1>2 DEF Holds
  <2> QED
    BY <1>1, <1>2, <1>4, <1>5, <2>1, <2>2, <2>3, <2>4, <2>5 DEF DropInv
<1>8. TableInv'
  <2>1. index' \in 0 .. c' /\ growthLimit' \in Nat
    BY <1>1, <1>2
  <2> QED
    BY <1>1, <1>2, <1>7, <2>1 DEF TableInv
<1>9. Stored' = Stored
  BY <1>1, <1>2, <1>5, StoredIs DEF HeldIn
<1> QED
  BY <1>1, <1>4, <1>5, <1>8, <1>9

\* The facts about a table in the loop of dropDeletes that its steps use.
LEMMA DropFacts ==
    ASSUME TableInv, pc = "drop"
    PROVE  /\ DropInv /\ IsCapacity(capacity) /\ capacity \in Nat /\ capacity > 0
           /\ h1 \in HashCodes /\ h1 \in [Elements -> Nat]
           /\ IsMetadata(metadata, capacity) /\ ExactCopies(metadata, capacity)
           /\ index \in 0 .. capacity /\ size \in Nat
           /\ size < LoadedCapacity(capacity) /\ LoadedCapacity(capacity) \in Nat
           /\ HasRoom(metadata, capacity)
           /\ Stored = {elements[i] : i \in Taken}
           /\ IsFiniteSet(Taken) /\ Taken \subseteq 0 .. capacity - 1
<1>1. /\ DropInv /\ IsCapacity(capacity) /\ h1 \in HashCodes /\ index \in 0 .. capacity
  BY DEF TableInv
<1>2. h1 \in [Elements -> Nat] /\ capacity \in Nat /\ GroupWidth \in {4, 8}
  BY <1>1, ScatterAssumption, SizeFacts
<1>3. /\ capacity > GroupWidth /\ size * 32 <= capacity * 25 /\ size = Cardinality(Taken)
      /\ IsMetadata(metadata, capacity) /\ ExactCopies(metadata, capacity)
  BY <1>1 DEF DropInv
<1>4. IsFiniteSet(Taken) /\ Taken \subseteq 0 .. capacity - 1 /\ size \in Nat
      /\ size = Cardinality(Filled(metadata, capacity)) + Cardinality(Removed(metadata, capacity))
  <2>1. Taken \subseteq 0 .. capacity - 1
    BY DEF Taken, Filled, Removed
  <2>2. /\ IsFiniteSet(Taken)
        /\ Cardinality(Taken) = Cardinality(Filled(metadata, capacity))
                                  + Cardinality(Removed(metadata, capacity))
        /\ Cardinality(Filled(metadata, capacity)) \in Nat
        /\ Cardinality(Removed(metadata, capacity)) \in Nat
    BY <1>1, CountsAre DEF Taken
  <2> QED
    BY <1>3, <2>1, <2>2
<1>5. capacity > 0
  BY <1>2, <1>3
<1>6. /\ size < LoadedCapacity(capacity) /\ LoadedCapacity(capacity) \in Nat
      /\ LoadedCapacity(capacity) < capacity
  BY <1>1, <1>3, <1>4, <1>5, LoadFacts
<1>7. HasRoom(metadata, capacity)
  <2>1. Cardinality(Filled(metadata, capacity)) + Cardinality(Removed(metadata, capacity)) < capacity
    BY <1>2, <1>4, <1>6
  <2> QED
    BY <1>1, <1>3, <2>1, RoomIs
<1> QED
  BY <1>1, <1>2, <1>3, <1>4, <1>5, <1>6, <1>7, StoredIs

\* The loop looks at an element that is not settled.
LEMMA LooksAt ==
    ASSUME TableInv, Dropping, metadata[index] = Deleted
    PROVE  /\ index \in 0 .. capacity - 1 /\ index \in Removed(metadata, capacity) /\ index \in Taken
           /\ elements[index] \in Elements /\ h1[elements[index]] \in Nat
           /\ Target \in 0 .. capacity - 1 /\ metadata[Target] \in {Empty, Deleted}
           /\ Reached(metadata, capacity, h1[elements[index]], Target, {Empty, Deleted})
<1>1. /\ pc = "drop" /\ index < capacity
  BY DEF Dropping
<1>2. /\ DropInv /\ IsCapacity(capacity) /\ capacity \in Nat /\ capacity > 0
      /\ h1 \in [Elements -> Nat] /\ IsMetadata(metadata, capacity)
      /\ ExactCopies(metadata, capacity) /\ index \in 0 .. capacity /\ HasRoom(metadata, capacity)
  BY <1>1, DropFacts
<1>3. /\ index \in 0 .. capacity - 1 /\ index \in Removed(metadata, capacity) /\ index \in Taken
  <2>1. index \in 0 .. capacity - 1
    BY <1>1, <1>2
  <2> QED
    BY <2>1 DEF Removed, Taken
<1>4. elements[index] \in Elements /\ h1[elements[index]] \in Nat
  <2>1. elements[index] \in Elements
    BY <1>2, <1>3 DEF DropInv
  <2> QED
    BY <1>2, <2>1
<1>5. PICK x \in 0 .. capacity - 1 : metadata[x] = Empty
  BY <1>2 DEF HasRoom
<1>6. Target = FindFirstAvailableSlot(metadata, capacity, h1[elements[index]])
  BY DEF Target
<1>7. /\ Target \in 0 .. capacity - 1
      /\ metadata[Target] \in {Empty, Deleted}
      /\ Reached(metadata, capacity, h1[elements[index]], Target, {Empty, Deleted})
  BY <1>2, <1>4, <1>5, <1>6, FirstAvailable
<1> QED
  BY <1>3, <1>4, <1>7

\* What a turn of the loop writes.
AreBytes(B) ==
    /\ DOMAIN B \subseteq 0 .. capacity - 1
    /\ \A b \in DOMAIN B : B[b] \in {Empty, Deleted, Full}

Written(w, B) ==
    /\ IsMetadata(w, capacity) /\ ExactCopies(w, capacity)
    /\ \A i \in 0 .. capacity - 1 : w[i] = IF i \in DOMAIN B THEN B[i] ELSE metadata[i]

\* What a turn of the loop writes is metadata with exact copies.
LEMMA WriteAllIs ==
    ASSUME IsCapacity(capacity), capacity > 0, IsMetadata(metadata, capacity),
           NEW B, AreBytes(B), NEW w, w = WriteAll(B)
    PROVE  Written(w, B)
<1> USE DEF AreBytes, Written
<1> DEFINE c == capacity
           r == [b \in DOMAIN metadata |-> IF b \in DOMAIN B THEN B[b] ELSE metadata[b]]
<1>1. /\ c \in Nat /\ GroupWidth \in {4, 8} /\ DOMAIN metadata = 0 .. c + GroupWidth - 1
      /\ metadata \in [0 .. c + GroupWidth - 1 -> Bytes]
      /\ metadata[c] = Sentinel /\ \A i \in 0 .. c - 1 : metadata[i] # Sentinel
  BY SizeFacts DEF IsMetadata
<1>2. \A b \in 0 .. c + GroupWidth - 1 : r[b] = IF b \in DOMAIN B THEN B[b] ELSE metadata[b]
  BY <1>1
<1>3. r = [b \in 0 .. c + GroupWidth - 1 |-> r[b]]
  BY <1>1
<1>4. w = Cloned(r, c)
  BY DEF WriteAll
<1> HIDE DEF r
<1>5. r \in [0 .. c + GroupWidth - 1 -> Bytes]
  <2>1. \A b \in 0 .. c + GroupWidth - 1 : r[b] \in Bytes
    BY <1>1, <1>2 DEF Bytes
  <2> QED
    BY <1>3, <2>1
<1>6. r[c] = Sentinel
  BY <1>1, <1>2
<1>7. \A i \in 0 .. c - 1 : r[i] # Sentinel
  BY <1>1, <1>2, BytesDiffer
<1>8. IsMetadata(w, c) /\ ExactCopies(w, c) /\ \A i \in 0 .. c - 1 : w[i] = r[i]
  <2>1. Mirrored(w, r, c)
    <3>1. IsRaw(r, c)
      BY <1>5, <1>6, <1>7 DEF IsRaw
    <3> QED
      BY <1>4, <3>1, MirroredIs
  <2> QED
    BY <2>1 DEF Mirrored
<1>9. \A i \in 0 .. c - 1 : w[i] = IF i \in DOMAIN B THEN B[i] ELSE metadata[i]
  BY <1>1, <1>2, <1>8
<1> QED
  BY <1>8, <1>9

\* A turn of the loop settles an element, or moves on.
Settles ==
    \/ \E x \in Removed(metadata, capacity) :
         Removed(metadata', capacity') = Removed(metadata, capacity) \ {x}
    \/ Removed(metadata', capacity') = Removed(metadata, capacity) /\ index' = index + 1

\* A slot without an element, or a settled one.
LEMMA DropSkipsStep ==
    ASSUME TableInv, DropSkips
    PROVE  TableInv' /\ Stored' = Stored /\ Settles
<1>1. /\ pc = "drop" /\ index < capacity /\ metadata[index] # Deleted /\ index' = index + 1
      /\ metadata' = metadata /\ elements' = elements /\ capacity' = capacity
      /\ growthLimit' = growthLimit /\ size' = size /\ h1' = h1 /\ pc' = pc
      /\ pending' = pending
  BY DEF DropSkips, Dropping, table
<1>2. /\ DropInv /\ capacity \in Nat /\ index \in 0 .. capacity
  BY <1>1, DropFacts
<1>3. \A i \in Removed(metadata, capacity) : i >= index'
  <2>1. \A i \in Removed(metadata, capacity) : i >= index /\ i # index /\ i \in Nat
    BY <1>1, <1>2 DEF DropInv, Removed
  <2> QED
    BY <1>1, <1>2, <2>1
<1>4. Taken' = Taken
  BY <1>1 DEF Taken
<1>5. DropInv'
  BY <1>1, <1>2, <1>3, <1>4 DEF DropInv
<1>6. index' \in 0 .. capacity'
  BY <1>1, <1>2
<1>7. TableInv'
  BY <1>1, <1>5, <1>6 DEF TableInv
<1>8. Stored' = Stored
  BY <1>1, <1>4, StoredIs
<1>9. Settles
  BY <1>1 DEF Settles
<1> QED
  BY <1>7, <1>8, <1>9

\* An element whose slot is in the group it would be put in stays: this slot is
\* looked at in the same turn of its probe.
LEMMA DropKeepsStep ==
    ASSUME TableInv, DropKeeps
    PROVE  /\ TableInv' /\ Stored' = Stored /\ Settles
           /\ Taken' = Taken
           /\ Filled(metadata', capacity') = Filled(metadata, capacity) \cup {index}
           /\ Removed(metadata', capacity') = Removed(metadata, capacity) \ {index}
<1> DEFINE c == capacity
           m == metadata
           w == metadata'
           h == h1[elements[index]]
           B == [b \in {index} |-> Full]
<1>1. /\ Dropping /\ pc = "drop" /\ m[index] = Deleted /\ StaysInGroup
      /\ w = WriteAll(B) /\ index' = index + 1
      /\ elements' = elements /\ c' = c
      /\ growthLimit' = growthLimit /\ size' = size /\ h1' = h1 /\ pc' = pc
      /\ pending' = pending
  BY DEF DropKeeps, Dropping
<1>2. /\ DropInv /\ IsCapacity(c) /\ c \in Nat /\ c > 0 /\ h1 \in HashCodes
      /\ IsMetadata(m, c) /\ index \in 0 .. c
  BY <1>1, DropFacts
<1>3. /\ index \in 0 .. c - 1 /\ index \in Removed(m, c) /\ index \in Taken
      /\ h \in Nat /\ Target \in 0 .. c - 1
      /\ Reached(m, c, h, Target, {Empty, Deleted})
  BY <1>1, LooksAt
<1>4. Reached(m, c, h, index, {Empty, Deleted})
  <2>1. PICK n \in Probes(c) :
          /\ Visits(c, h, n, Target)
          /\ \A k \in 0 .. n - 1 : \A t \in 0 .. c - 1 :
               Visits(c, h, k, t) => m[t] \notin {Empty, Deleted}
    BY <1>3 DEF Reached
  <2>2. GroupOf(c, h, Target) = GroupOf(c, h, index)
    BY <1>1 DEF StaysInGroup, ProbeIndex, GroupOf
  <2>3. n \in Nat /\ Target \in 0 .. c /\ index \in 0 .. c
    <3>1. Probes(c) \subseteq Nat
      BY <1>2, SizeFacts
    <3>2. n \in Nat
      BY <3>1
    <3>3. Target \in 0 .. c
      BY <1>2, <1>3
    <3> QED
      BY <1>2, <3>2, <3>3
  <2>4. Visits(c, h, n, index)
    <3> HIDE DEF c, h
    <3> QED
      BY <1>2, <1>3, <2>1, <2>2, <2>3, GroupIsVisitedTogether
  <2> QED
    BY <2>1, <2>4 DEF Reached
<1>5. /\ IsMetadata(w, c) /\ ExactCopies(w, c)
      /\ \A i \in 0 .. c - 1 : w[i] = IF i = index THEN Full ELSE m[i]
  <2>1. AreBytes(B)
    BY <1>3 DEF AreBytes
  <2>2. \A i : i \in DOMAIN B <=> i = index
    OBVIOUS
  <2>3. B[index] = Full
    OBVIOUS
  <2> HIDE DEF B
  <2>4. Written(w, B)
    BY <1>1, <1>2, <2>1, WriteAllIs
  <2> QED
    BY <2>2, <2>3, <2>4 DEF Written
<1>6. Filled(w, c) = Filled(m, c) \cup {index} /\ Removed(w, c) = Removed(m, c) \ {index}
  BY <1>3, <1>5, BytesDiffer DEF Filled, Removed
<1>7. Taken' = Taken
  BY <1>1, <1>3, <1>6 DEF Taken
<1>8. \A t \in 0 .. c - 1 : w[t] \in {Empty, Deleted} => m[t] \in {Empty, Deleted}
  BY <1>5, BytesDiffer
<1>9. ASSUME NEW i \in Filled(w, c)
      PROVE  Reached(w, c, h1[elements[i]], i, {Empty, Deleted})
  <2>1. Reached(m, c, h1[elements[i]], i, {Empty, Deleted})
    <3>1. CASE i = index
      BY <1>4, <3>1
    <3>2. CASE i # index
      BY <1>2, <1>6, <3>2 DEF DropInv
    <3> QED
      BY <3>1, <3>2
  <2> HIDE DEF c, m, w
  <2> QED
    BY <1>8, <2>1, ReachedStays
<1>10. \A i \in Removed(w, c) : i >= index'
  <2>1. \A i \in Removed(m, c) : i >= index /\ i \in Nat
    BY <1>2 DEF DropInv, Removed
  <2> QED
    BY <1>1, <1>2, <1>6, <2>1
<1>11. DropInv'
  BY <1>1, <1>2, <1>5, <1>7, <1>9, <1>10 DEF DropInv
<1>12. TableInv'
  <2>1. index' \in 0 .. c'
    BY <1>1, <1>2, <1>3
  <2> QED
    BY <1>1, <1>2, <1>11, <2>1 DEF TableInv
<1>13. Stored' = Stored
  BY <1>1, <1>7, StoredIs
<1>14. Settles
  BY <1>1, <1>3, <1>6 DEF Settles
<1> QED
  BY <1>1, <1>6, <1>7, <1>12, <1>13, <1>14

\* An element is moved to an Empty slot.
LEMMA DropMovesStep ==
    ASSUME TableInv, DropMoves
    PROVE  TableInv' /\ Stored' = Stored /\ Settles
<1> DEFINE c == capacity
           m == metadata
           w == metadata'
           E == elements
           D == elements'
           T == Target
           B == [b \in {index, T} |-> IF b = index THEN Empty ELSE Full]
<1>1. /\ Dropping /\ pc = "drop" /\ m[index] = Deleted /\ m[T] = Empty
      /\ w = WriteAll(B) /\ index' = index + 1
      /\ D = [E EXCEPT ![T] = E[index], ![index] = NoElement] /\ c' = c
      /\ growthLimit' = growthLimit /\ size' = size /\ h1' = h1 /\ pc' = pc
      /\ pending' = pending
  BY DEF DropMoves, Dropping
<1>2. /\ DropInv /\ IsCapacity(c) /\ c \in Nat /\ c > 0 /\ h1 \in HashCodes
      /\ IsMetadata(m, c) /\ index \in 0 .. c /\ IsFiniteSet(Taken)
      /\ E \in [0 .. c - 1 -> Elements \cup {NoElement}]
  BY <1>1, DropFacts DEF DropInv
<1>3. /\ index \in 0 .. c - 1 /\ index \in Removed(m, c) /\ index \in Taken
      /\ E[index] \in Elements /\ T \in 0 .. c - 1
      /\ Reached(m, c, h1[E[index]], T, {Empty, Deleted})
  BY <1>1, LooksAt
<1> HIDE DEF T
<1>4. T # index /\ T \notin Taken
  BY <1>1, BytesDiffer DEF Taken, Filled, Removed
<1>5. /\ IsMetadata(w, c) /\ ExactCopies(w, c)
      /\ \A i \in 0 .. c - 1 : w[i] = IF i = index THEN Empty ELSE IF i = T THEN Full ELSE m[i]
  <2>1. AreBytes(B)
    BY <1>3 DEF AreBytes
  <2>2. \A i : i \in DOMAIN B <=> i = index \/ i = T
    OBVIOUS
  <2>3. B[index] = Empty /\ B[T] = Full
    BY <1>4
  <2> HIDE DEF B
  <2>4. Written(w, B)
    BY <1>1, <1>2, <2>1, WriteAllIs
  <2> QED
    BY <2>2, <2>3, <2>4 DEF Written
<1>6. /\ D \in [0 .. c - 1 -> Elements \cup {NoElement}]
      /\ \A i \in 0 .. c - 1 : D[i] = IF i = index THEN NoElement
                                      ELSE IF i = T THEN E[index] ELSE E[i]
  <2> HIDE DEF E
  <2> QED
    BY <1>1, <1>2, <1>3, <1>4
<1>7. /\ Filled(w, c) = Filled(m, c) \cup {T} /\ Removed(w, c) = Removed(m, c) \ {index}
      /\ index \notin Filled(m, c)
  BY <1>1, <1>3, <1>4, <1>5, BytesDiffer DEF Filled, Removed
<1>8. Taken' = (Taken \ {index}) \cup {T}
  BY <1>1, <1>3, <1>4, <1>7 DEF Taken
<1>9. \A i \in Taken' : /\ i \in 0 .. c - 1
                        /\ IF i = T THEN D[i] = E[index]
                           ELSE D[i] = E[i] /\ i # index /\ i \in Taken
  <2>1. Taken \subseteq 0 .. c - 1
    BY <1>1, DropFacts
  <2> HIDE DEF c, D, E
  <2> QED
    BY <1>3, <1>4, <1>6, <1>8, <2>1
<1>10. \A t \in 0 .. c - 1 : w[t] \in {Empty, Deleted} => m[t] \in {Empty, Deleted}
  BY <1>1, <1>5, BytesDiffer
<1>11. ASSUME NEW i \in Filled(w, c)
       PROVE  Reached(w, c, h1[D[i]], i, {Empty, Deleted})
  <2>1. Reached(m, c, h1[D[i]], i, {Empty, Deleted})
    <3>1. CASE i = T
      BY <1>3, <1>4, <1>6, <3>1
    <3>2. CASE i # T
      <4>1. i \in Filled(m, c) /\ i \in 0 .. c - 1 /\ i # index
        BY <1>7, <3>2 DEF Filled
      <4>2. D[i] = E[i]
        BY <1>6, <3>2, <4>1
      <4> QED
        BY <1>2, <4>1, <4>2 DEF DropInv
    <3> QED
      BY <3>1, <3>2
  <2> HIDE DEF c, m, w, D
  <2> QED
    BY <1>10, <2>1, ReachedStays
<1>12. \A i \in Removed(w, c) : i >= index'
  <2>1. \A i \in Removed(m, c) : i >= index /\ i \in Nat
    BY <1>2 DEF DropInv, Removed
  <2>2. \A i \in Removed(w, c) : i \in Removed(m, c) /\ i # index
    BY <1>7
  <2>3. index' = index + 1 /\ index \in Nat
    BY <1>1, <1>2
  <2> HIDE DEF c, m, w
  <2> QED
    BY <2>1, <2>2, <2>3
<1>13. Cardinality(Taken') = Cardinality(Taken)
  <2>1. /\ IsFiniteSet(Taken \ {index})
        /\ Cardinality(Taken \ {index}) = Cardinality(Taken) - 1
    BY <1>2, <1>3, FS_RemoveElement
  <2>2. T \notin Taken \ {index}
    BY <1>4
  <2>3. Cardinality((Taken \ {index}) \cup {T}) = Cardinality(Taken \ {index}) + 1
    BY <2>1, <2>2, FS_AddElement
  <2>4. Cardinality(Taken) \in Nat
    BY <1>2, FS_CardinalityType
  <2> QED
    BY <1>8, <2>1, <2>3, <2>4
<1>14. /\ \A i \in Taken : E[i] \in Elements /\ E[i] # pending
       /\ \A i, j \in Taken : E[i] = E[j] => i = j
  BY <1>2 DEF DropInv
<1>15. \A i \in Taken' : D[i] \in Elements /\ D[i] # pending
  <2> HIDE DEF D, E
  <2> QED
    BY <1>3, <1>9, <1>14
<1>16. \A i, j \in Taken' : D[i] = D[j] => i = j
  <2> HIDE DEF D, E
  <2> QED
    BY <1>3, <1>9, <1>14
<1>17. DropInv'
  BY <1>1, <1>2, <1>5, <1>6, <1>11, <1>12, <1>13, <1>15, <1>16 DEF DropInv
<1>18. TableInv'
  <2>1. index' \in 0 .. c'
    BY <1>1, <1>2, <1>3
  <2> QED
    BY <1>1, <1>2, <1>17, <2>1 DEF TableInv
<1>19. Stored' = Stored
  <2>1. Stored' = {D[i] : i \in Taken'} /\ Stored = {E[i] : i \in Taken}
    BY <1>1, StoredIs
  <2>2. \A y \in Stored' : y \in Stored
    <3> HIDE DEF D, E
    <3> QED
      BY <1>3, <1>9, <2>1
  <2>3. ASSUME NEW i \in Taken
        PROVE  E[i] \in Stored'
    <3>1. CASE i = index
      <4>1. T \in Taken' /\ D[T] = E[index]
        BY <1>8, <1>9
      <4> QED
        BY <2>1, <3>1, <4>1
    <3>2. CASE i # index
      <4>1. i \in Taken' /\ i # T
        BY <1>4, <1>8, <3>2
      <4>2. D[i] = E[i]
        BY <1>9, <4>1
      <4> QED
        BY <2>1, <4>1, <4>2
    <3> QED
      BY <3>1, <3>2
  <2> QED
    BY <2>1, <2>2, <2>3
<1>20. Settles
  BY <1>1, <1>3, <1>7 DEF Settles
<1> QED
  BY <1>18, <1>19, <1>20

\* An element is settled in the slot of one that is not, which takes its place.
LEMMA DropSwapsStep ==
    ASSUME TableInv, DropSwaps
    PROVE  TableInv' /\ Stored' = Stored /\ Settles
<1> DEFINE c == capacity
           m == metadata
           w == metadata'
           E == elements
           D == elements'
           T == Target
           B == [b \in {T} |-> Full]
<1>1. /\ Dropping /\ pc = "drop" /\ m[index] = Deleted /\ m[T] = Deleted /\ ~StaysInGroup
      /\ w = WriteAll(B) /\ index' = index
      /\ D = [E EXCEPT ![T] = E[index], ![index] = E[T]] /\ c' = c
      /\ growthLimit' = growthLimit /\ size' = size /\ h1' = h1 /\ pc' = pc
      /\ pending' = pending
  BY DEF DropSwaps, Dropping, cleanup
<1>2. /\ DropInv /\ IsCapacity(c) /\ c \in Nat /\ c > 0 /\ h1 \in HashCodes
      /\ IsMetadata(m, c) /\ index \in 0 .. c
      /\ E \in [0 .. c - 1 -> Elements \cup {NoElement}]
  BY <1>1, DropFacts DEF DropInv
<1>3. /\ index \in 0 .. c - 1 /\ index \in Taken
      /\ E[index] \in Elements /\ T \in 0 .. c - 1
      /\ Reached(m, c, h1[E[index]], T, {Empty, Deleted})
  BY <1>1, LooksAt
<1>4. T # index
  BY <1>1 DEF StaysInGroup
<1> HIDE DEF T
<1>5. T \in Removed(m, c) /\ T \in Taken /\ T \notin Filled(m, c)
  BY <1>1, <1>3, BytesDiffer DEF Taken, Filled, Removed
<1>6. /\ IsMetadata(w, c) /\ ExactCopies(w, c)
      /\ \A i \in 0 .. c - 1 : w[i] = IF i = T THEN Full ELSE m[i]
  <2>1. AreBytes(B)
    BY <1>3 DEF AreBytes
  <2>2. \A i : i \in DOMAIN B <=> i = T
    OBVIOUS
  <2>3. B[T] = Full
    OBVIOUS
  <2> HIDE DEF B
  <2>4. Written(w, B)
    BY <1>1, <1>2, <2>1, WriteAllIs
  <2> QED
    BY <2>2, <2>3, <2>4 DEF Written
<1>7. /\ D \in [0 .. c - 1 -> Elements \cup {NoElement}]
      /\ \A i \in 0 .. c - 1 : D[i] = IF i = index THEN E[T]
                                      ELSE IF i = T THEN E[index] ELSE E[i]
  <2> HIDE DEF E
  <2> QED
    BY <1>1, <1>2, <1>3, <1>4
<1>8. Filled(w, c) = Filled(m, c) \cup {T} /\ Removed(w, c) = Removed(m, c) \ {T}
      /\ index \notin Filled(m, c)
  BY <1>1, <1>3, <1>4, <1>6, BytesDiffer DEF Filled, Removed
<1>9. Taken' = Taken /\ Taken \subseteq 0 .. c - 1
  <2>1. Taken' = Taken
    BY <1>1, <1>5, <1>8 DEF Taken
  <2> QED
    BY <1>1, <2>1, DropFacts
<1>10. \A t \in 0 .. c - 1 : w[t] \in {Empty, Deleted} => m[t] \in {Empty, Deleted}
  BY <1>6, BytesDiffer
<1>11. ASSUME NEW i \in Filled(w, c)
       PROVE  Reached(w, c, h1[D[i]], i, {Empty, Deleted})
  <2>1. Reached(m, c, h1[D[i]], i, {Empty, Deleted})
    <3>1. CASE i = T
      BY <1>3, <1>4, <1>7, <3>1
    <3>2. CASE i # T
      <4>1. i \in Filled(m, c) /\ i \in 0 .. c - 1 /\ i # index
        BY <1>8, <3>2 DEF Filled
      <4>2. D[i] = E[i]
        BY <1>7, <3>2, <4>1
      <4> QED
        BY <1>2, <4>1, <4>2 DEF DropInv
    <3> QED
      BY <3>1, <3>2
  <2> HIDE DEF c, m, w, D
  <2> QED
    BY <1>10, <2>1, ReachedStays
<1>12. \A i \in Removed(w, c) : i >= index'
  <2>1. \A i \in Removed(m, c) : i >= index
    BY <1>2 DEF DropInv
  <2> QED
    BY <1>1, <1>8, <2>1
<1>13. /\ \A i \in Taken : E[i] \in Elements /\ E[i] # pending
       /\ \A i, j \in Taken : E[i] = E[j] => i = j
  BY <1>2 DEF DropInv
<1>14. /\ \A i \in Taken : D[i] \in Elements /\ D[i] # pending
       /\ \A i, j \in Taken : D[i] = D[j] => i = j
  <2>1. \A i \in Taken : D[i] = IF i = index THEN E[T] ELSE IF i = T THEN E[index] ELSE E[i]
    BY <1>7, <1>9
  <2> HIDE DEF c, m, w, D, E
  <2>2. \A i \in Taken : D[i] \in Elements /\ D[i] # pending
    BY <1>3, <1>5, <1>13, <2>1
  <2>3. \A i, j \in Taken : D[i] = D[j] => i = j
    BY <1>3, <1>4, <1>5, <1>13, <2>1
  <2> QED
    BY <2>2, <2>3
<1>15. DropInv'
  BY <1>1, <1>2, <1>6, <1>7, <1>9, <1>11, <1>12, <1>14 DEF DropInv
<1>16. TableInv'
  BY <1>1, <1>2, <1>15 DEF TableInv
<1>17. Stored' = Stored
  <2>1. Stored' = {D[i] : i \in Taken} /\ Stored = {E[i] : i \in Taken}
    BY <1>1, <1>9, StoredIs
  <2>2. \A i \in Taken : D[i] = IF i = index THEN E[T] ELSE IF i = T THEN E[index] ELSE E[i]
    BY <1>7, <1>9
  <2> HIDE DEF c, m, w, D, E
  <2>3. \A i \in Taken : D[i] \in Stored
    BY <1>3, <1>5, <2>1, <2>2
  <2>4. \A i \in Taken : E[i] \in Stored'
    <3>1. E[index] = D[T] /\ E[T] = D[index]
      BY <1>3, <1>4, <1>5, <2>2
    <3> QED
      BY <1>3, <1>5, <2>1, <2>2, <3>1
  <2> QED
    BY <2>1, <2>3, <2>4
<1>18. Settles
  BY <1>1, <1>5, <1>8 DEF Settles
<1> QED
  BY <1>16, <1>17, <1>18

\* All elements are settled: the one in hand is inserted.
LEMMA DropEndsStep ==
    ASSUME TableInv, DropEnds
    PROVE  /\ TableInv' /\ Contents!Add(pending) /\ pending \in Elements
           /\ Inserts(pending, metadata, elements, capacity)
           /\ Taken = Filled(metadata, capacity)
<1> DEFINE t == [Current EXCEPT !.growthLimit = LoadedCapacity(capacity) - size]
<1>1. /\ pc = "drop" /\ index = capacity /\ Insert(pending, t, size)
      /\ pc' = "idle" /\ index' = 0 /\ pending' = NoElement /\ h1' = h1
  BY DEF DropEnds
<1>2. /\ DropInv /\ IsCapacity(capacity) /\ capacity \in Nat /\ capacity > 0
      /\ h1 \in HashCodes /\ size \in Nat
      /\ IsMetadata(metadata, capacity) /\ ExactCopies(metadata, capacity)
      /\ size < LoadedCapacity(capacity) /\ LoadedCapacity(capacity) \in Nat
      /\ Stored = {elements[i] : i \in Taken}
  BY <1>1, DropFacts
<1>3. Removed(metadata, capacity) = {}
  <2>1. \A i \in Removed(metadata, capacity) : i \in 0 .. capacity - 1 /\ i >= capacity
    BY <1>1, <1>2 DEF DropInv, Removed
  <2> QED
    BY <1>2, <2>1
<1>4. Taken = Filled(metadata, capacity)
  BY <1>3 DEF Taken
<1>5. /\ pending \in Elements
      /\ pending \notin HeldIn(metadata, elements, capacity)
      /\ Stored = HeldIn(metadata, elements, capacity)
      /\ size = Cardinality(Filled(metadata, capacity))
  BY <1>2, <1>4 DEF DropInv, HeldIn
<1>6. Holds(metadata, elements, capacity, h1)
  <2>1. ASSUME NEW i \in Filled(metadata, capacity)
        PROVE  elements[i] \in Elements /\ Reached(metadata, capacity, h1[elements[i]], i, {Empty})
    <3>1. Reached(metadata, capacity, h1[elements[i]], i, {Empty, Deleted})
      BY <1>2 DEF DropInv
    <3>2. \A x \in 0 .. capacity - 1 : metadata[x] \in {Empty} => metadata[x] \in {Empty, Deleted}
      OBVIOUS
    <3>3. Reached(metadata, capacity, h1[elements[i]], i, {Empty})
      BY <3>1, <3>2, ReachedStays
    <3> QED
      BY <1>2, <1>4, <3>3 DEF DropInv
  <2>2. /\ elements \in [0 .. capacity - 1 -> Elements \cup {NoElement}]
        /\ \A i, j \in Filled(metadata, capacity) : elements[i] = elements[j] => i = j
    BY <1>2, <1>4 DEF DropInv
  <2>3. capacity # 0 /\ \A i \in Removed(metadata, capacity) : elements[i] = NoElement
    BY <1>2, <1>3
  <2> QED
    BY <1>2, <2>1, <2>2, <2>3 DEF Holds
<1>7. /\ t.metadata = metadata /\ t.elements = elements /\ t.capacity = capacity
      /\ t.growthLimit = LoadedCapacity(capacity) - size
  BY DEF Current
<1> HIDE DEF t
<1>8. t.growthLimit \in Nat /\ t.growthLimit > 0
  BY <1>2, <1>7
<1>9. Cardinality(Removed(metadata, capacity)) = 0
  BY <1>3, FS_EmptySet
<1>10. IsReady(t, size)
  <2>1. t.growthLimit = LoadedCapacity(capacity) - Cardinality(Filled(metadata, capacity))
                                                 - Cardinality(Removed(metadata, capacity))
    BY <1>2, <1>5, <1>7, <1>9
  <2> QED
    BY <1>2, <1>5, <1>6, <1>7, <1>8, <2>1 DEF IsReady
<1>11. /\ TableInv' /\ Inserts(pending, t.metadata, t.elements, t.capacity)
       /\ HeldIn(metadata', elements', capacity')
            = HeldIn(t.metadata, t.elements, t.capacity) \cup {pending}
  <2>1. pending \notin HeldIn(t.metadata, t.elements, t.capacity)
    BY <1>5, <1>7
  <2> QED
    BY <1>1, <1>2, <1>5, <1>8, <1>10, <2>1, InsertIs
<1>12. Stored' = Stored \cup {pending}
  BY <1>1, <1>5, <1>7, <1>11, StoredIs
<1> QED
  BY <1>4, <1>5, <1>7, <1>11, <1>12 DEF Contents!Add

\* Every step keeps the invariant and does to the contents what the set promises.
LEMMA NextKeeps ==
    ASSUME TableInv, [Next]_tableVars
    PROVE  TableInv' /\ [Contents!Next]_Stored
<1>1. CASE UNCHANGED tableVars
  <2>1. UNCHANGED <<metadata, elements, capacity, growthLimit, size, h1, pc, index, pending>>
    BY <1>1 DEF tableVars, table, cleanup
  <2>2. TableInv'
    <3>1. Taken' = Taken
      BY <2>1 DEF Taken
    <3>2. IdleInv' = IdleInv
      BY <2>1 DEF IdleInv
    <3>3. DropInv => DropInv'
      BY <2>1, <3>1 DEF DropInv
    <3> QED
      BY <2>1, <3>2, <3>3 DEF TableInv
  <2>3. Stored' = Stored
    BY <2>1 DEF Stored, Occupied, Slots
  <2> QED
    BY <2>2, <2>3
<1>2. ASSUME NEW e \in Elements, AddAtOnce(e)
      PROVE  TableInv' /\ [Contents!Next]_Stored
  BY <1>2, AddAtOnceStep DEF Contents!Next
<1>3. ASSUME NEW e \in Elements, AddAfterResize(e)
      PROVE  TableInv' /\ [Contents!Next]_Stored
  BY <1>3, AddAfterResizeStep DEF Contents!Next
<1>4. ASSUME NEW e \in Elements, DropDeletes(e)
      PROVE  TableInv' /\ [Contents!Next]_Stored
  BY <1>4, DropDeletesStep
<1>5. ASSUME NEW e \in Elements, Remove(e)
      PROVE  TableInv' /\ [Contents!Next]_Stored
  BY <1>5, RemoveStep DEF Contents!Next
<1>6. CASE DropSkips
  BY <1>6, DropSkipsStep
<1>7. CASE DropKeeps
  BY <1>7, DropKeepsStep
<1>8. CASE DropMoves
  BY <1>8, DropMovesStep
<1>9. CASE DropSwaps
  BY <1>9, DropSwapsStep
<1>10. CASE DropEnds
  BY <1>10, DropEndsStep DEF Contents!Next
<1>11. CASE Clear
  BY <1>11, ClearStep DEF Contents!Next
<1>12. CASE Trim
  BY <1>12, TrimStep
<1> QED
  BY <1>1, <1>2, <1>3, <1>4, <1>5, <1>6, <1>7, <1>8, <1>9, <1>10, <1>11, <1>12 DEF Next, Drop

\* size counts the slots of elements, and these the elements.
LEMMA SizeOfStored ==
    ASSUME TableInv
    PROVE  SizeIsCount
<1> DEFINE f == [i \in Occupied |-> elements[i]]
<1>1. /\ IsFiniteSet(Occupied) /\ size = Cardinality(Occupied)
      /\ \A i \in Occupied : elements[i] \in Elements
      /\ \A i, j \in Occupied : elements[i] = elements[j] => i = j
  <2>1. CASE pc = "idle"
    <3>1. Occupied = Filled(metadata, capacity)
      BY <2>1 DEF Occupied, Filled, Slots
    <3>2. /\ Holds(metadata, elements, capacity, h1) /\ IsCapacity(capacity)
          /\ size = Cardinality(Filled(metadata, capacity))
      BY <2>1, IdleFacts
    <3>3. IsFiniteSet(Filled(metadata, capacity))
      BY <3>2, CountsAre
    <3>4. /\ \A i \in Filled(metadata, capacity) : elements[i] \in Elements
          /\ \A i, j \in Filled(metadata, capacity) : elements[i] = elements[j] => i = j
      BY <3>2 DEF Holds
    <3> QED
      BY <3>1, <3>2, <3>3, <3>4
  <2>2. CASE pc = "drop"
    <3>1. Occupied = Taken
      BY <2>2 DEF Occupied, Taken, Filled, Removed, Slots
    <3>2. DropInv /\ IsFiniteSet(Taken)
      BY <2>2, DropFacts
    <3>3. /\ size = Cardinality(Taken)
          /\ \A i \in Taken : elements[i] \in Elements
          /\ \A i, j \in Taken : elements[i] = elements[j] => i = j
      BY <3>2 DEF DropInv
    <3> QED
      BY <3>1, <3>2, <3>3
  <2> QED
    BY <2>1, <2>2 DEF TableInv
<1>2. ExistsBijection(Occupied, Stored)
  <2>1. f \in Surjection(Occupied, Stored)
    BY DEF Surjection, Stored
  <2>2. f \in Injection(Occupied, Stored)
    BY <1>1 DEF Injection, IsInjective, Stored
  <2>3. f \in Bijection(Occupied, Stored)
    BY <2>1, <2>2 DEF Bijection
  <2> QED
    BY <2>3 DEF ExistsBijection
<1>3. Cardinality(Stored) = Cardinality(Occupied)
  BY <1>1, <1>2, FS_Bijection
<1>4. NoElement \notin Stored
  BY <1>1, ScatterAssumption DEF Stored
<1> QED
  BY <1>1, <1>3, <1>4 DEF SizeIsCount

\* The metadata, whether the table is cleaned up or not.
LEMMA MetadataIs ==
    ASSUME TableInv
    PROVE  /\ metadata \in [0 .. capacity + GroupWidth - 1 -> {Empty, Deleted, Full, Sentinel}]
           /\ capacity # 0 => IsMetadata(metadata, capacity)
           /\ capacity = 0 => metadata = AllEmpty(0)
           /\ elements \in [Slots -> Elements \cup {NoElement}]
           /\ (pc = "drop" \/ Mirrors) /\ capacity # 0 => ExactCopies(metadata, capacity)
           /\ capacity # 0 => HasRoom(metadata, capacity)
<1>1. CASE pc = "idle"
  <2>1. /\ IdleInv /\ Holds(metadata, elements, capacity, h1) /\ capacity \in Nat
        /\ capacity # 0 => IsMetadata(metadata, capacity) /\ HasRoom(metadata, capacity)
    BY <1>1, IdleFacts
  <2>2. elements \in [Slots -> Elements \cup {NoElement}]
    BY <2>1 DEF Holds, Slots
  <2>3. capacity = 0 => metadata = AllEmpty(0)
    BY <2>1 DEF Holds
  <2>4. Mirrors /\ capacity # 0 => ExactCopies(metadata, capacity)
    BY <2>1 DEF IdleInv
  <2>5. metadata \in [0 .. capacity + GroupWidth - 1 -> {Empty, Deleted, Full, Sentinel}]
    <3>1. CASE capacity = 0
      BY <2>3, <3>1, ScatterAssumption DEF AllEmpty
    <3>2. CASE capacity # 0
      BY <2>1, <3>2 DEF IsMetadata, Bytes
    <3> QED
      BY <3>1, <3>2
  <2> QED
    BY <1>1, <2>1, <2>2, <2>3, <2>4, <2>5
<1>2. CASE pc = "drop"
  <2>1. /\ IsMetadata(metadata, capacity) /\ ExactCopies(metadata, capacity)
        /\ HasRoom(metadata, capacity) /\ DropInv /\ capacity \in Nat /\ capacity > 0
    BY <1>2, DropFacts
  <2>2. elements \in [Slots -> Elements \cup {NoElement}]
    BY <2>1 DEF DropInv, Slots
  <2>3. metadata \in [0 .. capacity + GroupWidth - 1 -> {Empty, Deleted, Full, Sentinel}]
    BY <2>1 DEF IsMetadata, Bytes
  <2> QED
    BY <2>1, <2>2, <2>3
<1> QED
  BY <1>1, <1>2 DEF TableInv

\* The invariant implies the soundness of the table.
LEMMA SoundIs ==
    ASSUME TableInv
    PROVE  TableIsSound
<1>1. IsCapacity(capacity) /\ capacity \in Nat /\ GroupWidth \in {4, 8}
  BY SizeFacts DEF TableInv
<1>2. size \in Nat /\ pending \in Elements \cup {NoElement}
  <2>1. CASE pc = "idle"
    BY <2>1, IdleFacts DEF IdleInv
  <2>2. CASE pc = "drop"
    BY <2>2, DropFacts DEF DropInv
  <2> QED
    BY <2>1, <2>2 DEF TableInv
<1>3. TypeOK
  BY <1>1, <1>2, MetadataIs DEF TypeOK, TableInv, IsCapacity
<1>4. GrowthIsAccounted
  <2> SUFFICES ASSUME pc = "idle"
               PROVE  growthLimit = LoadedCapacity(capacity) - Count(Full) - Count(Deleted)
    BY DEF GrowthIsAccounted
  <2>1. IdleInv
    BY DEF TableInv
  <2> QED
    BY <2>1 DEF IdleInv, Count, Filled, Removed, Slots
<1>5. ClonesAgree
  <2> SUFFICES ASSUME NEW b \in capacity + 1 .. capacity + GroupWidth - 1,
                      b - capacity - 1 < capacity
               PROVE  \/ metadata[b] = metadata[b - capacity - 1]
                      \/ /\ ~Mirrors /\ metadata[b - capacity - 1] = Deleted
                         /\ metadata[b] = Full
    BY DEF ClonesAgree
  <2> DEFINE i == b - capacity - 1
  <2>1. i \in 0 .. GroupWidth - 2 /\ b = capacity + 1 + i /\ capacity # 0
    BY <1>1
  <2>2. metadata[b] = metadata[i] \/ (metadata[i] = Deleted /\ metadata[b] = Full)
    BY <2>1, MetadataIs DEF IsMetadata
  <2>3. Mirrors => metadata[b] = metadata[i]
    BY <2>1, MetadataIs DEF ExactCopies
  <2> QED
    BY <2>2, <2>3
<1> QED
  BY <1>3, <1>4, <1>5, SizeOfStored DEF TableIsSound

\* The invariant implies that probes end.
LEMMA ProbesEndIs ==
    ASSUME TableInv
    PROVE  ProbesEnd
<1> DEFINE c == capacity
<1>1. /\ IsCapacity(c) /\ c \in Nat /\ GroupWidth \in {4, 8} /\ h1 \in [Elements -> Nat]
      /\ Probes(c) \subseteq Nat
  BY SizeFacts, ScatterAssumption DEF TableInv
<1> SUFFICES ASSUME NEW e \in Elements
             PROVE  \E n \in Probes(c) : InGroup(metadata, ProbeOffset(c, h1[e], n), {Empty}) # {}
  BY DEF ProbesEnd
<1> DEFINE h == h1[e]
<1>2. h \in Nat
  BY <1>1
<1> HIDE DEF h
<1>3. CASE c = 0
  <2>1. metadata = AllEmpty(0)
    BY <1>3, MetadataIs
  <2>2. 0 \in Probes(c)
    BY <1>1, <1>3, ZeroIsProbed
  <2>3. ProbeOffset(c, h, 0) = 0
    <3>1. ProbeOffset(c, h, 0) \in 0 .. c
      BY <1>1, <1>2, OffsetIs
    <3> QED
      BY <1>3, <3>1
  <2>4. 1 \in InGroup(metadata, 0, {Empty})
    <3>1. metadata[0 + 1] = Empty /\ 1 \in 0 .. GroupWidth - 1
      BY <1>1, <2>1 DEF AllEmpty
    <3> QED
      BY <3>1 DEF InGroup
  <2> QED
    BY <2>2, <2>3, <2>4 DEF h
<1>4. CASE c # 0
  <2>1. IsMetadata(metadata, c) /\ HasRoom(metadata, c) /\ c > 0
    BY <1>1, <1>4, MetadataIs
  <2>2. PICK s \in 0 .. c - 1 : metadata[s] = Empty
    BY <2>1 DEF HasRoom
  <2>3. s \in 0 .. c
    BY <1>1
  <2>4. PICK n \in Probes(c) : Visits(c, h, n, s)
    <3> HIDE DEF c
    <3> QED
      BY <1>1, <1>2, <2>1, <2>3, EverySlotIsVisited
  <2>5. PICK j \in 0 .. GroupWidth - 1 : SlotAt(c, ProbeOffset(c, h, n), j) = s
    BY <2>4 DEF Visits
  <2>6. ProbeOffset(c, h, n) \in 0 .. c
    <3>1. n \in Nat
      BY <1>1
    <3> HIDE DEF c
    <3> QED
      BY <1>1, <1>2, <3>1, OffsetIs
  <2>7. metadata[ProbeOffset(c, h, n) + j] = Empty
    <3>1. \/ metadata[ProbeOffset(c, h, n) + j] = metadata[s]
          \/ metadata[s] = Deleted
      <4> HIDE DEF c
      <4> QED
        BY <1>1, <2>1, <2>5, <2>6, ByteOfSlot
    <3> QED
      BY <2>2, <3>1, BytesDiffer
  <2>8. j \in InGroup(metadata, ProbeOffset(c, h, n), {Empty})
    BY <2>7 DEF InGroup
  <2> QED
    BY <2>8 DEF h
<1> QED
  BY <1>3, <1>4

\* The invariant implies that find finds.
LEMMA FindsIs ==
    ASSUME TableInv, FindStops = {Empty}
    PROVE  FindsExactly
<1> SUFFICES ASSUME pc = "idle", NEW e \in Elements
             PROVE  Contains(e) <=> e \in Stored
  BY DEF FindsExactly
<1>1. /\ IsCapacity(capacity) /\ h1 \in [Elements -> Nat]
      /\ Holds(metadata, elements, capacity, h1)
      /\ Stored = HeldIn(metadata, elements, capacity)
  BY IdleFacts
<1>2. /\ Find(e, {Empty}) # NoSlot => e \in HeldIn(metadata, elements, capacity)
      /\ Find(e, {Empty}) = NoSlot => e \notin HeldIn(metadata, elements, capacity)
  BY <1>1, FindIs DEF HeldIn
<1> QED
  BY <1>1, <1>2 DEF Contains

\* No call and no turn of dropDeletes leaves the inductive invariant.
THEOREM TableInvariant == Spec => []TableInv
<1>1. Init => TableInv
  BY InitTable
<1>2. TableInv /\ [Next]_tableVars => TableInv'
  BY NextKeeps
<1> QED
  BY <1>1, <1>2, PTL DEF Spec

\* In every table the types are right, growthLimit is what is left of the load,
\* size counts the elements, which are all different, and the bytes behind the
\* sentinel are the copies they should be.
THEOREM TableSound == Spec => []TableIsSound
<1>1. TableInv => TableIsSound
  BY SoundIs
<1> QED
  BY <1>1, TableInvariant, PTL

\* Every search meets an Empty byte, in the middle of dropDeletes too: the loops
\* of find and findFirstAvailableSlot, which have no bound, come to an end.
THEOREM EveryProbeEnds == Spec => []ProbesEnd
<1>1. TableInv => ProbesEnd
  BY ProbesEndIs
<1> QED
  BY <1>1, TableInvariant, PTL

\* Where the search ends at Empty bytes only, as it does on every platform but
\* one, contains is true of the elements that are in the table and of no other.
THEOREM StoredIsFound ==
    ASSUME FindStops = {Empty}
    PROVE  Spec => []FindsExactly
<1>1. TableInv => FindsExactly
  BY FindsIs
<1> QED
  BY <1>1, TableInvariant, PTL

\* Adding, removing, growing, cleaning up and trimming do to the contents what
\* MutableIntSet promises.
THEOREM TableIsASet == Spec => ImplementsSet
<1>1. Init => Contents!Init
  BY InitTable DEF Contents!Init
<1>2. TableInv /\ [Next]_tableVars => [Contents!Next]_Stored
  BY NextKeeps
<1> QED
  BY <1>1, <1>2, TableInvariant, PTL DEF Spec, ImplementsSet, Contents!Spec

\* Every turn of the loop of dropDeletes settles an element or moves on, so that
\* the loop ends.
THEOREM CleanupMovesOn == Spec => CleanupAdvances
<1>1. TableInv /\ [Next]_tableVars
        => [pc = "drop" /\ pc' = "drop" =>
              \/ Count(Deleted)' < Count(Deleted)
              \/ Count(Deleted)' = Count(Deleted) /\ index' > index]_tableVars
  <2> SUFFICES ASSUME TableInv, Next, pc = "drop", pc' = "drop"
               PROVE  \/ Count(Deleted)' < Count(Deleted)
                      \/ Count(Deleted)' = Count(Deleted) /\ index' > index
    OBVIOUS
  <2>1. Settles
    <3>1. CASE DropSkips
      BY <3>1, DropSkipsStep
    <3>2. CASE DropKeeps
      BY <3>2, DropKeepsStep
    <3>3. CASE DropMoves
      BY <3>3, DropMovesStep
    <3>4. CASE DropSwaps
      BY <3>4, DropSwapsStep
    <3> QED
      BY <3>1, <3>2, <3>3, <3>4
      DEF Next, Drop, DropEnds, AddAtOnce, AddAfterResize, DropDeletes, Remove, Clear, Trim
  <2>2. /\ Count(Deleted) = Cardinality(Removed(metadata, capacity))
        /\ Count(Deleted)' = Cardinality(Removed(metadata', capacity'))
    BY DEF Count, Removed, Slots
  <2>3. IsFiniteSet(Removed(metadata, capacity)) /\ index \in Nat
        /\ Cardinality(Removed(metadata, capacity)) \in Nat
    <3>1. IsCapacity(capacity) /\ index \in 0 .. capacity /\ capacity \in Nat
      BY DropFacts
    <3>2. index \in Nat
      BY <3>1
    <3>3. /\ IsFiniteSet(Removed(metadata, capacity))
          /\ Cardinality(Removed(metadata, capacity)) \in Nat
      BY <3>1, CountsAre
    <3> QED
      BY <3>2, <3>3
  <2>4. CASE \E x \in Removed(metadata, capacity) :
               Removed(metadata', capacity') = Removed(metadata, capacity) \ {x}
    <3>1. PICK x \in Removed(metadata, capacity) :
            Removed(metadata', capacity') = Removed(metadata, capacity) \ {x}
      BY <2>4
    <3>2. Cardinality(Removed(metadata, capacity) \ {x})
            = Cardinality(Removed(metadata, capacity)) - 1
      BY <2>3, FS_RemoveElement
    <3> QED
      BY <2>2, <2>3, <3>1, <3>2
  <2>5. CASE Removed(metadata', capacity') = Removed(metadata, capacity) /\ index' = index + 1
    BY <2>2, <2>3, <2>5
  <2> QED
    BY <2>1, <2>4, <2>5 DEF Settles
<1> QED
  BY <1>1, TableInvariant, PTL DEF Spec, CleanupAdvances
=============================================================================
