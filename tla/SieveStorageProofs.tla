------------------------- MODULE SieveStorageProofs -------------------------
(***************************************************************************)
(* Proofs about SieveStorage: through every rebuild of its table, of any   *)
(* capacity and with any hash codes, the cache keeps the list of its       *)
(* entries.                                                                *)
(*                                                                         *)
(* The invariant takes the table's from ScatterTableProofs and adds the    *)
(* links: head and tail, and prev and next of every slot, are those of the *)
(* sequence of elements that order remembers; while dropDeletes runs, the  *)
(* mapping takes every slot that had an element to the slot this element   *)
(* has now.  After a cleanup in place the list is patched in whatever      *)
(* order the slots come and may lose entries, so what is said of the list  *)
(* itself ends there, in the model as in the code.                         *)
(***************************************************************************)
EXTENDS SieveStorage, ScatterTableProofs

(***************************************************************************)
(* Lists of slots.                                                         *)
(***************************************************************************)

Node(C) == [prev : C \cup {NoSlot}, next : C \cup {NoSlot}]

\* The slot x, one of the slots O, has the n-th element of ord; beyond the ends
\* of ord it is NoSlot.
At(E, O, ord, n, x) == IF n \in DOMAIN ord THEN x \in O /\ E[x] = ord[n] ELSE x = NoSlot

\* The slot of the n-th element links to the ones of its neighbours.
LinksAt(E, O, ord, ns, n, x) ==
    /\ At(E, O, ord, n - 1, ns[x].prev)
    /\ At(E, O, ord, n + 1, ns[x].next)

\* From h to t the nodes ns link the slots O of the elements E in the order ord.
Chain(E, O, ord, ns, h, t) ==
    /\ At(E, O, ord, 1, h)
    /\ At(E, O, ord, Len(ord), t)
    /\ \A n \in DOMAIN ord : \A x \in O : E[x] = ord[n] => LinksAt(E, O, ord, ns, n, x)

OnChain(O, x) == x = NoSlot \/ x \in O

\* The mapping F takes the elements E in the slots O to the slots O2 of E2, and
\* their nodes ns, patched, to ns2.
Maps(F, E, O, ns, E2, O2, ns2) ==
    /\ \A i \in O : F[i] \in O2 /\ E2[F[i]] = E[i]
    /\ \A s \in O2 : \E i \in O : s = F[i] /\ ns2[s] = FixedNode(F, ns[i])

\* When the elements move to other slots and every link is patched with the
\* mapping of the slots, the list stays the same.
LEMMA ChainMoves ==
    ASSUME NEW E, NEW O, NEW ord, NEW ns, NEW h, NEW t, Chain(E, O, ord, ns, h, t),
           NoSlot \notin O, NEW F, NEW E2, NEW O2, NEW ns2, Maps(F, E, O, ns, E2, O2, ns2)
    PROVE  /\ Chain(E2, O2, ord, ns2, Fixed(F, h), Fixed(F, t))
           /\ \A x : OnChain(O, x) => OnChain(O2, Fixed(F, x))
<1>0. /\ \A i \in O : F[i] \in O2 /\ E2[F[i]] = E[i]
      /\ \A s \in O2 : \E i \in O : s = F[i] /\ ns2[s] = FixedNode(F, ns[i])
  BY DEF Maps
<1> USE <1>0
<1>1. ASSUME NEW n, NEW x, At(E, O, ord, n, x)
      PROVE  At(E2, O2, ord, n, Fixed(F, x))
  BY <1>1 DEF At, Fixed
<1>2. ASSUME NEW n \in DOMAIN ord, NEW s \in O2, E2[s] = ord[n]
      PROVE  LinksAt(E2, O2, ord, ns2, n, s)
  <2>1. PICK i \in O : s = F[i] /\ ns2[s] = FixedNode(F, ns[i])
    OBVIOUS
  <2>2. LinksAt(E, O, ord, ns, n, i)
    BY <1>2, <2>1 DEF Chain
  <2>3. ns2[s].prev = Fixed(F, ns[i].prev) /\ ns2[s].next = Fixed(F, ns[i].next)
    BY <2>1 DEF FixedNode
  <2> QED
    BY <1>1, <2>2, <2>3 DEF LinksAt
<1>3. Chain(E2, O2, ord, ns2, Fixed(F, h), Fixed(F, t))
  BY <1>1, <1>2 DEF Chain
<1>4. \A x : OnChain(O, x) => OnChain(O2, Fixed(F, x))
  BY DEF OnChain, Fixed
<1> QED
  BY <1>3, <1>4

\* What moveNodeToHead makes of the links.
LEMMA HeadMoves ==
    ASSUME NEW C, NoSlot \notin C, NEW ns \in [C -> Node(C)], NEW s \in C,
           NEW h \in C \cup {NoSlot}, NEW t \in C \cup {NoSlot}, MoveNodeToHead(s, ns, h, t)
    PROVE  /\ nodes' \in [C -> Node(C)]
           /\ head' = s /\ tail' = IF t = NoSlot THEN s ELSE t
           /\ h # s => /\ nodes'[s] = [prev |-> NoSlot, next |-> h]
                       /\ \A x \in C \ {s} : /\ nodes'[x].prev = IF x = h THEN s ELSE ns[x].prev
                                             /\ nodes'[x].next = ns[x].next
<1> DEFINE node == [prev |-> NoSlot, next |-> h]
           linked == [ns EXCEPT ![s] = node]
<1>1. node \in Node(C) /\ [EmptyNode EXCEPT !.next = h] = node
  BY DEF Node, EmptyNode
<1>2. /\ nodes' = IF h = NoSlot THEN linked ELSE [linked EXCEPT ![h].prev = s]
      /\ head' = s /\ tail' = IF t = NoSlot THEN s ELSE t
  BY <1>1 DEF MoveNodeToHead
<1>3. linked \in [C -> Node(C)] /\ \A x \in C : linked[x] = IF x = s THEN node ELSE ns[x]
  <2> HIDE DEF node
  <2> QED
    BY <1>1
<1> HIDE DEF linked
<1>4. CASE h = NoSlot
  <2>1. nodes' = linked
    BY <1>2, <1>4
  <2> QED
    BY <1>2, <1>3, <1>4, <2>1 DEF node
<1>5. CASE h # NoSlot
  <2>1. h \in C
    BY <1>5
  <2> DEFINE last == [linked[h] EXCEPT !.prev = s]
  <2>2. last \in Node(C) /\ last.prev = s /\ last.next = linked[h].next
    BY <1>3, <2>1 DEF Node
  <2>3. nodes' = [linked EXCEPT ![h] = last]
    BY <1>2, <1>5
  <2> HIDE DEF last
  <2>4. nodes' \in [C -> Node(C)] /\ \A x \in C : nodes'[x] = IF x = h THEN last ELSE linked[x]
    BY <1>3, <2>1, <2>2, <2>3
  <2> QED
    BY <1>2, <1>3, <2>1, <2>2, <2>4 DEF node
<1> QED
  BY <1>4, <1>5

\* The element e, put into slot s of the slots C, is new to the list.
IsNew(E, O, C, ord, ns, s, e, E2) ==
    /\ ord \in Seq(Elements) /\ e \in Elements
    /\ \A n \in DOMAIN ord : ord[n] # e
    /\ \A i, j \in DOMAIN ord : ord[i] = ord[j] => i = j
    /\ NoSlot \notin C /\ O \subseteq C /\ ns \in [C -> Node(C)]
    /\ \A x \in O : E[x] # e
    /\ \A i, j \in O : E[i] = E[j] => i = j
    /\ s \in C /\ s \notin O
    /\ \A i \in C : E2[i] = IF i = s THEN e ELSE E[i]

\* A new element at the head of the list.
LEMMA ChainGrows ==
    ASSUME NEW E, NEW O, NEW C, NEW ord, NEW ns, NEW h, NEW t, NEW s, NEW e, NEW E2,
           Chain(E, O, ord, ns, h, t), IsNew(E, O, C, ord, ns, s, e, E2),
           MoveNodeToHead(s, ns, h, t)
    PROVE  Chain(E2, O \cup {s}, <<e>> \o ord, nodes', head', tail')
<1>0. /\ ord \in Seq(Elements) /\ e \in Elements
      /\ \A n \in DOMAIN ord : ord[n] # e
      /\ \A i, j \in DOMAIN ord : ord[i] = ord[j] => i = j
      /\ NoSlot \notin C /\ O \subseteq C /\ ns \in [C -> Node(C)]
      /\ \A x \in O : E[x] # e
      /\ \A i, j \in O : E[i] = E[j] => i = j
      /\ s \in C /\ s \notin O
      /\ \A i \in C : E2[i] = IF i = s THEN e ELSE E[i]
  BY DEF IsNew
<1> USE <1>0
<1> DEFINE O2 == O \cup {s}
           ord2 == <<e>> \o ord
<1>1. /\ DOMAIN ord = 1 .. Len(ord) /\ Len(ord) \in Nat
      /\ DOMAIN ord2 = 1 .. Len(ord) + 1 /\ Len(ord2) = Len(ord) + 1
      /\ ord2[1] = e /\ \A n \in 2 .. Len(ord) + 1 : ord2[n] = ord[n - 1]
  OBVIOUS
<1>2. OnChain(O, h) /\ OnChain(O, t)
  BY DEF Chain, At, OnChain
<1>3. h \in C \cup {NoSlot} /\ t \in C \cup {NoSlot} /\ h # s
  BY <1>2 DEF OnChain
<1>4. /\ head' = s /\ tail' = IF t = NoSlot THEN s ELSE t
      /\ nodes'[s] = [prev |-> NoSlot, next |-> h]
      /\ \A x \in C \ {s} : /\ nodes'[x].prev = IF x = h THEN s ELSE ns[x].prev
                            /\ nodes'[x].next = ns[x].next
  BY <1>3, HeadMoves
<1> HIDE DEF ord2
<1>5. ASSUME NEW n \in 1 .. Len(ord) + 1, NEW x, At(E, O, ord, n, x)
      PROVE  At(E2, O2, ord2, n + 1, x)
  BY <1>1, <1>5 DEF At
<1>6. At(E2, O2, ord2, 1, s)
  BY <1>1 DEF At
<1>7. At(E2, O2, ord2, 1, head')
  BY <1>4, <1>6
<1>8. At(E2, O2, ord2, Len(ord2), tail')
  <2>1. CASE Len(ord) = 0
    <3>1. t = NoSlot
      BY <1>1, <2>1 DEF Chain, At
    <3> QED
      BY <1>1, <1>4, <1>6, <2>1, <3>1
  <2>2. CASE Len(ord) # 0
    <3>1. At(E, O, ord, Len(ord), t) /\ Len(ord) \in DOMAIN ord
      BY <1>1, <2>2 DEF Chain
    <3>2. t # NoSlot
      BY <3>1 DEF At
    <3>3. At(E2, O2, ord2, Len(ord) + 1, t)
      <4>1. Len(ord) \in 1 .. Len(ord) + 1
        BY <1>1, <2>2
      <4> QED
        BY <1>5, <3>1, <4>1
    <3> QED
      BY <1>1, <1>4, <3>2, <3>3
  <2> QED
    BY <2>1, <2>2
<1>9. LinksAt(E2, O2, ord2, nodes', 1, s)
  <2>1. At(E2, O2, ord2, 0, NoSlot)
    BY <1>1 DEF At
  <2>2. At(E2, O2, ord2, 2, h)
    <3>1. At(E, O, ord, 1, h) /\ 1 \in 1 .. Len(ord) + 1 /\ 1 + 1 = 2
      BY <1>1 DEF Chain
    <3> QED
      BY <1>5, <3>1
  <2> QED
    BY <1>4, <2>1, <2>2 DEF LinksAt
<1>10. ASSUME NEW n \in DOMAIN ord, NEW x \in O, E[x] = ord[n]
       PROVE  LinksAt(E2, O2, ord2, nodes', n + 1, x)
  <2>1. At(E, O, ord, n - 1, ns[x].prev) /\ At(E, O, ord, n + 1, ns[x].next)
    BY <1>10 DEF Chain, LinksAt
  <2>2. nodes'[x].prev = (IF x = h THEN s ELSE ns[x].prev) /\ nodes'[x].next = ns[x].next
    BY <1>4
  <2>3. At(E2, O2, ord2, n + 2, nodes'[x].next)
    <3>1. n + 1 \in 1 .. Len(ord) + 1 /\ (n + 1) + 1 = n + 2
      BY <1>1
    <3> QED
      BY <1>5, <2>1, <2>2, <3>1
  <2>4. At(E2, O2, ord2, n, nodes'[x].prev)
    <3>1. At(E, O, ord, 1, h) /\ 1 \in DOMAIN ord
      BY <1>1 DEF Chain
    <3>2. CASE n = 1
      <4>1. x = h
        BY <1>10, <3>1, <3>2 DEF At
      <4> QED
        BY <1>6, <2>2, <3>2, <4>1
    <3>3. CASE n # 1
      <4>1. x # h
        BY <1>10, <3>1, <3>3 DEF At
      <4>2. n - 1 \in 1 .. Len(ord) + 1 /\ (n - 1) + 1 = n
        BY <1>1, <3>3
      <4> QED
        BY <1>5, <2>1, <2>2, <4>1, <4>2
    <3> QED
      BY <3>2, <3>3
  <2>5. (n + 1) - 1 = n /\ (n + 1) + 1 = n + 2
    BY <1>1
  <2> QED
    BY <2>3, <2>4, <2>5 DEF LinksAt
<1>11. ASSUME NEW n \in DOMAIN ord2, NEW x \in O2, E2[x] = ord2[n]
       PROVE  LinksAt(E2, O2, ord2, nodes', n, x)
  <2>1. CASE n = 1
    <3>1. x = s
      BY <1>1, <1>11, <2>1
    <3> QED
      BY <1>9, <2>1, <3>1
  <2>2. CASE n # 1
    <3>1. n - 1 \in DOMAIN ord /\ ord2[n] = ord[n - 1] /\ (n - 1) + 1 = n
      BY <1>1, <2>2
    <3>2. x # s
      BY <1>11, <3>1
    <3>3. x \in O /\ E[x] = ord[n - 1]
      BY <1>11, <3>1, <3>2
    <3> QED
      BY <1>10, <3>1, <3>3
  <2> QED
    BY <2>1, <2>2
<1>12. Chain(E2, O2, ord2, nodes', head', tail')
  BY <1>7, <1>8, <1>11 DEF Chain
<1> QED
  BY <1>12 DEF ord2

\* The list without slot i: the neighbours of i link to each other.
Unlinks(ns, i) ==
    /\ \A x \in DOMAIN ns : x # i =>
         /\ nodes'[x].prev = IF x = ns[i].next THEN ns[i].prev ELSE ns[x].prev
         /\ nodes'[x].next = IF x = ns[i].prev THEN ns[i].next ELSE ns[x].next
    /\ head' = IF ns[i].prev = NoSlot THEN ns[i].next ELSE head
    /\ tail' = IF ns[i].next = NoSlot THEN ns[i].prev ELSE tail

\* What removeValueAt makes of the links.
LEMMA NodeGoes ==
    ASSUME NEW C, NoSlot \notin C, nodes \in [C -> Node(C)], NEW i \in C, NEW g,
           RemoveValueAt(i, g)
    PROVE  nodes' \in [C -> Node(C)] /\ Unlinks(nodes, i)
<1> DEFINE p == nodes[i].prev
           q == nodes[i].next
           n1 == IF p = NoSlot THEN nodes ELSE [nodes EXCEPT ![p].next = q]
           n2 == IF q = NoSlot THEN n1 ELSE [n1 EXCEPT ![q].prev = p]
<1>1. /\ nodes' = [n2 EXCEPT ![i] = EmptyNode]
      /\ head' = IF p = NoSlot THEN q ELSE head
      /\ tail' = IF q = NoSlot THEN p ELSE tail
  BY DEF RemoveValueAt
<1>2. p \in C \cup {NoSlot} /\ q \in C \cup {NoSlot} /\ EmptyNode \in Node(C)
  BY DEF Node, EmptyNode
<1> HIDE DEF p, q
<1>3. /\ n1 \in [C -> Node(C)]
      /\ \A x \in C : n1[x].prev = nodes[x].prev /\ n1[x].next = IF x = p THEN q ELSE nodes[x].next
  <2>1. CASE p = NoSlot
    BY <1>2, <2>1
  <2>2. CASE p # NoSlot
    <3> DEFINE node == [nodes[p] EXCEPT !.next = q]
    <3>1. p \in C
      BY <1>2, <2>2
    <3>2. node \in Node(C) /\ node.next = q /\ node.prev = nodes[p].prev
      BY <1>2, <3>1 DEF Node
    <3>3. n1 = [nodes EXCEPT ![p] = node]
      BY <2>2
    <3> HIDE DEF node, n1
    <3>4. n1 \in [C -> Node(C)] /\ \A x \in C : n1[x] = IF x = p THEN node ELSE nodes[x]
      BY <3>1, <3>2, <3>3
    <3> QED
      BY <3>2, <3>4
  <2> QED
    BY <2>1, <2>2
<1> HIDE DEF n1
<1>4. /\ n2 \in [C -> Node(C)]
      /\ \A x \in C : n2[x].next = n1[x].next /\ n2[x].prev = IF x = q THEN p ELSE n1[x].prev
  <2>1. CASE q = NoSlot
    BY <1>2, <1>3, <2>1
  <2>2. CASE q # NoSlot
    <3> DEFINE node == [n1[q] EXCEPT !.prev = p]
    <3>1. q \in C
      BY <1>2, <2>2
    <3>2. node \in Node(C) /\ node.prev = p /\ node.next = n1[q].next
      BY <1>2, <1>3, <3>1 DEF Node
    <3>3. n2 = [n1 EXCEPT ![q] = node]
      BY <2>2
    <3> HIDE DEF node, n2
    <3>4. n2 \in [C -> Node(C)] /\ \A x \in C : n2[x] = IF x = q THEN node ELSE n1[x]
      BY <1>3, <3>1, <3>2, <3>3
    <3> QED
      BY <3>2, <3>4
  <2> QED
    BY <2>1, <2>2
<1> HIDE DEF n2
<1>5. nodes' \in [C -> Node(C)] /\ \A x \in C : x # i => nodes'[x] = n2[x]
  BY <1>1, <1>2, <1>4
<1>6. \A x \in C : x # i =>
        /\ nodes'[x].prev = IF x = q THEN p ELSE nodes[x].prev
        /\ nodes'[x].next = IF x = p THEN q ELSE nodes[x].next
  BY <1>3, <1>4, <1>5
<1>7. DOMAIN nodes = C
  OBVIOUS
<1> QED
  BY <1>1, <1>5, <1>6, <1>7 DEF Unlinks, p, q

\* A sequence without its k-th element.
LEMMA TakenOut ==
    ASSUME NEW S, NEW ord \in Seq(S), NEW k \in 1 .. Len(ord)
    PROVE  LET r == SubSeq(ord, 1, k - 1) \o SubSeq(ord, k + 1, Len(ord)) IN
           /\ r \in Seq(S) /\ Len(r) = Len(ord) - 1 /\ DOMAIN r = 1 .. Len(ord) - 1
           /\ \A j \in 1 .. Len(ord) - 1 : r[j] = IF j < k THEN ord[j] ELSE ord[j + 1]
<1> DEFINE r == SubSeq(ord, 1, k - 1) \o SubSeq(ord, k + 1, Len(ord))
<1>1. r = SubSeq(ord, 1, k - 1) \o SubSeq(ord, k + 1, Len(ord))
  OBVIOUS
<1> HIDE DEF r
<1>2. r \in Seq(S)
  BY <1>1, SequenceWithout, Zenon
<1>3. Len(r) = Len(ord) - 1
  BY <1>1, SequenceWithout, Zenon
<1>4. r = [j \in 1 .. Len(ord) - 1 |-> IF j < k THEN ord[j] ELSE ord[j + 1]]
  BY <1>1, SequenceWithout, ZenonT(60)
<1>5. /\ DOMAIN r = 1 .. Len(ord) - 1
      /\ \A j \in 1 .. Len(ord) - 1 : r[j] = IF j < k THEN ord[j] ELSE ord[j + 1]
  BY <1>4
<1> QED
  BY <1>2, <1>3, <1>5 DEF r

\* The k-th element is in slot i of the slots C; nothing else moves.
IsListed(E, O, C, ord, ns, i, k, E2) ==
    /\ ord \in Seq(Elements) /\ k \in DOMAIN ord /\ i \in O /\ E[i] = ord[k]
    /\ \A a, b \in DOMAIN ord : ord[a] = ord[b] => a = b
    /\ NoSlot \notin C /\ O \subseteq C /\ ns \in [C -> Node(C)]
    /\ \A a, b \in O : E[a] = E[b] => a = b
    /\ \A x \in O \ {i} : E2[x] = E[x]

\* An element taken out of the list.
LEMMA ChainShrinks ==
    ASSUME NEW E, NEW O, NEW C, NEW ord, NEW ns, NEW i, NEW k, NEW E2,
           Chain(E, O, ord, ns, head, tail), IsListed(E, O, C, ord, ns, i, k, E2),
           Unlinks(ns, i)
    PROVE  /\ Chain(E2, O \ {i}, SubSeq(ord, 1, k - 1) \o SubSeq(ord, k + 1, Len(ord)),
                    nodes', head', tail')
           /\ OnChain(O \ {i}, ns[i].prev)
<1>0. /\ ord \in Seq(Elements) /\ k \in DOMAIN ord /\ i \in O /\ E[i] = ord[k]
      /\ \A a, b \in DOMAIN ord : ord[a] = ord[b] => a = b
      /\ NoSlot \notin C /\ O \subseteq C /\ ns \in [C -> Node(C)]
      /\ \A a, b \in O : E[a] = E[b] => a = b
      /\ \A x \in O \ {i} : E2[x] = E[x]
  BY DEF IsListed
<1> USE <1>0
<1> DEFINE O2 == O \ {i}
           ord2 == SubSeq(ord, 1, k - 1) \o SubSeq(ord, k + 1, Len(ord))
           N == Len(ord)
           p == ns[i].prev
           q == ns[i].next
<1>1. /\ N \in Nat /\ DOMAIN ord = 1 .. N /\ k \in 1 .. N
      /\ DOMAIN ord2 = 1 .. N - 1 /\ Len(ord2) = N - 1
      /\ \A j \in 1 .. N - 1 : ord2[j] = IF j < k THEN ord[j] ELSE ord[j + 1]
  <2>1. N \in Nat /\ DOMAIN ord = 1 .. N /\ k \in 1 .. N
    OBVIOUS
  <2>2. /\ Len(ord2) = N - 1 /\ DOMAIN ord2 = 1 .. N - 1
        /\ \A j \in 1 .. N - 1 : ord2[j] = IF j < k THEN ord[j] ELSE ord[j + 1]
    <3>1. k \in 1 .. Len(ord)
      BY <2>1
    <3> QED
      BY <3>1, TakenOut
  <2> HIDE DEF ord2, N
  <2> QED
    BY <2>1, <2>2
<1> HIDE DEF ord2, N
<1>2. ASSUME NEW n \in 0 .. k - 1, NEW x, At(E, O, ord, n, x)
      PROVE  At(E2, O2, ord2, n, x)
  <2>1. CASE n = 0
    BY <1>1, <1>2, <2>1 DEF At
  <2>2. CASE n # 0
    <3>1. n \in DOMAIN ord /\ n \in 1 .. N - 1 /\ n < k /\ n # k
      BY <1>1, <2>2
    <3>2. x \in O /\ E[x] = ord[n]
      BY <1>2, <3>1 DEF At
    <3>3. x # i
      BY <3>1, <3>2
    <3> QED
      BY <1>1, <3>1, <3>2, <3>3 DEF At
  <2> QED
    BY <2>1, <2>2
<1>3. ASSUME NEW n \in k .. N, NEW x, At(E, O, ord, n + 1, x)
      PROVE  At(E2, O2, ord2, n, x)
  <2>1. CASE n = N
    BY <1>1, <1>3, <2>1 DEF At
  <2>2. CASE n # N
    <3>1. n + 1 \in DOMAIN ord /\ n \in 1 .. N - 1 /\ ~(n < k) /\ n + 1 # k
      BY <1>1, <2>2
    <3>2. x \in O /\ E[x] = ord[n + 1]
      BY <1>3, <3>1 DEF At
    <3>3. x # i
      BY <3>1, <3>2
    <3> QED
      BY <1>1, <3>1, <3>2, <3>3 DEF At
  <2> QED
    BY <2>1, <2>2
<1>4. At(E, O, ord, k - 1, p) /\ At(E, O, ord, k + 1, q)
  BY DEF Chain, LinksAt
<1>5. At(E2, O2, ord2, k - 1, p) /\ At(E2, O2, ord2, k, q)
  <2>1. k - 1 \in 0 .. k - 1 /\ k \in k .. N
    BY <1>1
  <2> QED
    BY <1>2, <1>3, <1>4, <2>1
<1>6. /\ head' = IF p = NoSlot THEN q ELSE head
      /\ tail' = IF q = NoSlot THEN p ELSE tail
      /\ \A x \in O2 : /\ nodes'[x].prev = IF x = q THEN p ELSE ns[x].prev
                       /\ nodes'[x].next = IF x = p THEN q ELSE ns[x].next
  BY DEF Unlinks
<1>7. (p = NoSlot <=> k = 1) /\ (q = NoSlot <=> k = N)
  <2>1. k - 1 \in DOMAIN ord <=> k # 1
    BY <1>1
  <2>2. k + 1 \in DOMAIN ord <=> k # N
    BY <1>1
  <2> QED
    BY <1>4, <2>1, <2>2 DEF At
<1>8. At(E2, O2, ord2, 1, head')
  <2>1. CASE k = 1
    BY <1>5, <1>6, <1>7, <2>1
  <2>2. CASE k # 1
    <3>1. At(E, O, ord, 1, head) /\ 1 \in 0 .. k - 1
      BY <1>1, <2>2 DEF Chain
    <3> QED
      BY <1>2, <1>6, <1>7, <2>2, <3>1
  <2> QED
    BY <2>1, <2>2
<1>9. At(E2, O2, ord2, N - 1, tail')
  <2>1. CASE k = N
    BY <1>5, <1>6, <1>7, <2>1
  <2>2. CASE k # N
    <3>1. At(E, O, ord, N, tail)
      BY DEF Chain, N
    <3>2. N - 1 \in k .. N /\ (N - 1) + 1 = N
      BY <1>1, <2>2
    <3> QED
      BY <1>3, <1>6, <1>7, <2>2, <3>1, <3>2
  <2> QED
    BY <2>1, <2>2
<1>10. ASSUME NEW n \in DOMAIN ord2, NEW x \in O2, E2[x] = ord2[n]
       PROVE  LinksAt(E2, O2, ord2, nodes', n, x)
  <2>0. n \in 1 .. N - 1 /\ E[x] = ord2[n] /\ x \in O /\ n \in Nat
    BY <1>1, <1>10
  <2>1. CASE n < k
    <3>1. E[x] = ord[n] /\ n \in DOMAIN ord
      BY <1>1, <2>0, <2>1
    <3>2. At(E, O, ord, n - 1, ns[x].prev) /\ At(E, O, ord, n + 1, ns[x].next)
      BY <2>0, <3>1 DEF Chain, LinksAt
    <3>3. x # q
      <4>1. CASE k = N
        <5>1. NoSlot \notin O
          OBVIOUS
        <5> QED
          BY <1>7, <2>0, <4>1, <5>1
      <4>2. CASE k # N
        <5>1. k + 1 \in DOMAIN ord /\ n # k + 1
          BY <1>1, <2>0, <2>1, <4>2
        <5>2. E[q] = ord[k + 1]
          BY <1>4, <5>1 DEF At
        <5> QED
          BY <3>1, <5>1, <5>2
      <4> QED
        BY <4>1, <4>2
    <3>4. At(E2, O2, ord2, n - 1, nodes'[x].prev)
      <4>1. n - 1 \in 0 .. k - 1
        BY <1>1, <2>0, <2>1
      <4> QED
        BY <1>2, <1>6, <3>2, <3>3, <4>1
    <3>5. At(E2, O2, ord2, n + 1, nodes'[x].next)
      <4>1. CASE n + 1 = k
        <5>1. n = k - 1 /\ k - 1 \in DOMAIN ord
          BY <1>1, <2>0, <3>1, <4>1
        <5>2. p \in O /\ E[p] = ord[k - 1]
          BY <1>4, <5>1 DEF At
        <5>3. x = p
          BY <2>0, <3>1, <5>1, <5>2
        <5> QED
          BY <1>5, <1>6, <4>1, <5>3
      <4>2. CASE n + 1 # k
        <5>1. n + 1 \in 0 .. k - 1
          BY <1>1, <2>0, <2>1, <4>2
        <5>2. x # p
          <6>1. CASE k = 1
            BY <1>7, <2>0, <6>1
          <6>2. CASE k # 1
            <7>1. k - 1 \in DOMAIN ord /\ n # k - 1
              BY <1>1, <2>0, <4>2, <6>2
            <7>2. E[p] = ord[k - 1]
              BY <1>4, <7>1 DEF At
            <7> QED
              BY <3>1, <7>1, <7>2
          <6> QED
            BY <6>1, <6>2
        <5> QED
          BY <1>2, <1>6, <3>2, <5>1, <5>2
      <4> QED
        BY <4>1, <4>2
    <3> QED
      BY <3>4, <3>5 DEF LinksAt
  <2>2. CASE ~(n < k)
    <3>1. E[x] = ord[n + 1] /\ n + 1 \in DOMAIN ord /\ (n + 1) - 1 = n
      <4>1. n + 1 \in 1 .. N /\ (n + 1) - 1 = n
        BY <1>1, <2>0
      <4>2. E[x] = ord[n + 1]
        BY <1>1, <2>0, <2>2
      <4> QED
        BY <1>1, <4>1, <4>2
    <3>2. At(E, O, ord, n, ns[x].prev) /\ At(E, O, ord, (n + 1) + 1, ns[x].next)
      BY <2>0, <3>1 DEF Chain, LinksAt
    <3>3. x # p
      <4>1. CASE k = 1
        BY <1>7, <2>0, <4>1
      <4>2. CASE k # 1
        <5>1. k - 1 \in DOMAIN ord /\ n + 1 # k - 1
          BY <1>1, <2>0, <2>2, <4>2
        <5>2. E[p] = ord[k - 1]
          BY <1>4, <5>1 DEF At
        <5> QED
          BY <3>1, <5>1, <5>2
      <4> QED
        BY <4>1, <4>2
    <3>4. At(E2, O2, ord2, n + 1, nodes'[x].next)
      <4>1. n + 1 \in k .. N
        BY <1>1, <2>0, <2>2
      <4> QED
        BY <1>3, <1>6, <3>2, <3>3, <4>1
    <3>5. At(E2, O2, ord2, n - 1, nodes'[x].prev)
      <4>1. CASE n = k
        <5>1. k + 1 \in DOMAIN ord
          BY <3>1, <4>1
        <5>2. q \in O /\ E[q] = ord[k + 1]
          BY <1>4, <5>1 DEF At
        <5>3. x = q
          BY <2>0, <3>1, <4>1, <5>2
        <5> QED
          BY <1>5, <1>6, <4>1, <5>3
      <4>2. CASE n # k
        <5>1. n - 1 \in k .. N /\ (n - 1) + 1 = n
          BY <1>1, <2>0, <2>2, <4>2
        <5>2. x # q
          <6>1. CASE k = N
            BY <1>7, <2>0, <6>1
          <6>2. CASE k # N
            <7>1. k + 1 \in DOMAIN ord /\ n + 1 # k + 1
              BY <1>1, <2>0, <4>2, <6>2
            <7>2. E[q] = ord[k + 1]
              BY <1>4, <7>1 DEF At
            <7> QED
              BY <3>1, <7>1, <7>2
          <6> QED
            BY <6>1, <6>2
        <5> QED
          BY <1>3, <1>6, <3>2, <5>1, <5>2
      <4> QED
        BY <4>1, <4>2
    <3> QED
      BY <3>4, <3>5 DEF LinksAt
  <2> QED
    BY <2>0, <2>1, <2>2
<1>11. Chain(E2, O2, ord2, nodes', head', tail')
  BY <1>1, <1>8, <1>9, <1>10 DEF Chain
<1>12. OnChain(O2, p)
  BY <1>5 DEF At, OnChain
<1> QED
  BY <1>11, <1>12 DEF ord2, N

(***************************************************************************)
(* The inductive invariant.                                                *)
(***************************************************************************)

\* A link is a slot, whether the list is whole or not.
LinksAreSlots ==
    /\ nodes \in [Slots -> Node(Slots)]
    /\ head \in Slots \cup {NoSlot}
    /\ tail \in Slots \cup {NoSlot}
    /\ hand \in Slots \cup {NoSlot}

\* The order is one of the elements that are stored.
IsOrder ==
    /\ order \in Seq(Elements)
    /\ Len(order) = size
    /\ {order[n] : n \in DOMAIN order} = Stored
    /\ \A a, b \in DOMAIN order : order[a] = order[b] => a = b

\* The entries of the mapping of dropDeletes.
Mappings == [src : Slots \cup {NoSlot, Erased}, dst : Slots \cup {NoSlot}]

\* In dropDeletes a source is erased behind index only, and as long as no entry
\* has moved every entry looked at is mapped to its own slot.
IsMapping ==
    /\ mapping \in [Slots -> Mappings]
    /\ \A i \in Slots : mapping[i].src = Erased => i < index
    /\ ~dropped => /\ \A i \in Filled(metadata, capacity) : mapping[i].dst = i
                   /\ \A i \in Removed(metadata, capacity) : mapping[i] = InvalidMapping

\* The links are the list of the elements in their order.
IsList ==
    /\ Chain(elements, Occupied, order, nodes, head, tail)
    /\ OnChain(Occupied, hand)

StorageInv ==
    /\ TableInv
    /\ LinksAreSlots
    /\ IsOrder
    /\ pc = "drop" => IsMapping
    /\ ~dropped => IsList

\* The slots that hold an element.
LEMMA OccupiedIs ==
    /\ pc = "idle" => Occupied = Filled(metadata, capacity)
    /\ pc = "drop" => Occupied = Taken
    /\ pc' = "idle" => Occupied' = Filled(metadata', capacity')
    /\ pc' = "drop" => Occupied' = Taken'
BY DEF Occupied, Filled, Taken, Removed, Slots

\* The facts about the table that the steps use.
LEMMA StorageFacts ==
    ASSUME TableInv
    PROVE  /\ IsCapacity(capacity) /\ capacity \in Nat /\ NoSlot \notin Slots
           /\ Occupied \subseteq Slots
           /\ \A i \in Occupied : elements[i] \in Elements
           /\ \A i, j \in Occupied : elements[i] = elements[j] => i = j
<1>1. IsCapacity(capacity) /\ capacity \in Nat
  BY SizeFacts DEF TableInv
<1>2. /\ \A i \in Occupied : elements[i] \in Elements
      /\ \A i, j \in Occupied : elements[i] = elements[j] => i = j
  <2>1. CASE pc = "idle"
    <3>1. Holds(metadata, elements, capacity, h1)
      BY <2>1, IdleFacts
    <3> QED
      BY <2>1, <3>1, OccupiedIs DEF Holds
  <2>2. CASE pc = "drop"
    <3>1. DropInv
      BY <2>2, DropFacts
    <3> QED
      BY <2>2, <3>1, OccupiedIs DEF DropInv
  <2> QED
    BY <2>1, <2>2 DEF TableInv
<1>3. NoSlot \notin Slots /\ Occupied \subseteq Slots
  BY <1>1 DEF Slots, NoSlot, Occupied
<1> QED
  BY <1>1, <1>2, <1>3

\* A new element comes first in the order.
LEMMA OrderGrows ==
    ASSUME IsOrder, NEW e \in Elements, Contents!Add(e), size \in Nat, size' = size + 1,
           order' = <<e>> \o order
    PROVE  IsOrder'
<1>1. /\ order \in Seq(Elements) /\ Len(order) = size
      /\ {order[n] : n \in DOMAIN order} = Stored
      /\ \A a, b \in DOMAIN order : order[a] = order[b] => a = b
      /\ e \notin Stored /\ Stored' = Stored \cup {e}
  BY DEF IsOrder, Contents!Add
<1>2. /\ order' \in Seq(Elements) /\ Len(order') = Len(order) + 1
      /\ DOMAIN order = 1 .. Len(order) /\ DOMAIN order' = 1 .. Len(order) + 1
      /\ Len(order) \in Nat
      /\ order'[1] = e /\ \A n \in 2 .. Len(order) + 1 : order'[n] = order[n - 1]
  BY <1>1
<1>3. \A n \in DOMAIN order : order[n] # e
  BY <1>1
<1>4. {order'[n] : n \in DOMAIN order'} = Stored'
  <2>1. ASSUME NEW n \in DOMAIN order'
        PROVE  order'[n] \in Stored'
    <3>1. CASE n = 1
      BY <1>1, <1>2, <3>1
    <3>2. CASE n # 1
      <4>1. n - 1 \in DOMAIN order /\ order'[n] = order[n - 1]
        BY <1>2, <3>2
      <4> QED
        BY <1>1, <4>1
    <3> QED
      BY <3>1, <3>2
  <2>2. ASSUME NEW y \in Stored'
        PROVE  \E n \in DOMAIN order' : order'[n] = y
    <3>1. CASE y = e
      <4>1. 1 \in DOMAIN order'
        BY <1>2
      <4> QED
        BY <1>2, <3>1, <4>1
    <3>2. CASE y # e
      <4>1. PICK n \in DOMAIN order : order[n] = y
        BY <1>1, <3>2
      <4>2. n + 1 \in DOMAIN order' /\ n + 1 \in 2 .. Len(order) + 1 /\ (n + 1) - 1 = n
        BY <1>2
      <4> QED
        BY <1>2, <4>1, <4>2
    <3> QED
      BY <3>1, <3>2
  <2> QED
    BY <2>1, <2>2
<1>5. ASSUME NEW a \in DOMAIN order', NEW b \in DOMAIN order', order'[a] = order'[b]
      PROVE  a = b
  <2>1. \A n \in DOMAIN order' : n # 1 => n - 1 \in DOMAIN order /\ order'[n] = order[n - 1]
    BY <1>2
  <2>2. CASE a = 1 \/ b = 1
    BY <1>2, <1>3, <1>5, <2>1, <2>2
  <2>3. CASE a # 1 /\ b # 1
    <3>1. a - 1 = b - 1
      BY <1>1, <1>5, <2>1, <2>3
    <3>2. a \in Nat /\ b \in Nat
      BY <1>2
    <3> QED
      BY <3>1, <3>2
  <2> QED
    BY <2>2, <2>3
<1> QED
  BY <1>1, <1>2, <1>4, <1>5 DEF IsOrder

\* An element taken out of the order.
LEMMA OrderShrinks ==
    ASSUME IsOrder, NEW e, Contents!Remove(e), size \in Nat, size' = size - 1,
           order' = SubSeq(order, 1, Rank(e) - 1) \o SubSeq(order, Rank(e) + 1, Len(order))
    PROVE  IsOrder' /\ Rank(e) \in DOMAIN order /\ order[Rank(e)] = e
<1>1. /\ order \in Seq(Elements) /\ Len(order) = size
      /\ {order[n] : n \in DOMAIN order} = Stored
      /\ \A a, b \in DOMAIN order : order[a] = order[b] => a = b
      /\ e \in Stored /\ Stored' = Stored \ {e}
  BY DEF IsOrder, Contents!Remove
<1> DEFINE k == Rank(e)
           N == Len(order)
<1>2. k \in DOMAIN order /\ order[k] = e
  BY <1>1 DEF Rank
<1>3. DOMAIN order = 1 .. N /\ N \in Nat
  BY <1>1
<1> HIDE DEF k
<1>4. /\ order' \in Seq(Elements) /\ Len(order') = N - 1 /\ DOMAIN order' = 1 .. N - 1
      /\ \A j \in 1 .. N - 1 : order'[j] = IF j < k THEN order[j] ELSE order[j + 1]
  <2>1. k \in 1 .. Len(order)
    BY <1>2, <1>3
  <2>2. order' = SubSeq(order, 1, k - 1) \o SubSeq(order, k + 1, Len(order))
    BY DEF k
  <2> DEFINE r == SubSeq(order, 1, k - 1) \o SubSeq(order, k + 1, Len(order))
  <2>3. /\ r \in Seq(Elements) /\ Len(r) = N - 1 /\ DOMAIN r = 1 .. N - 1
        /\ \A j \in 1 .. N - 1 : r[j] = IF j < k THEN order[j] ELSE order[j + 1]
    BY <1>1, <2>1, TakenOut
  <2>4. order' = r
    BY <2>2
  <2> HIDE DEF r
  <2> QED
    BY <2>3, <2>4
<1> HIDE DEF N
<1>5. ASSUME NEW j \in 1 .. N - 1
      PROVE  \E a \in DOMAIN order : /\ a # k /\ order'[j] = order[a]
                                     /\ a = IF j < k THEN j ELSE j + 1
  <2>1. CASE j < k
    <3>1. j \in DOMAIN order /\ j # k
      BY <1>2, <1>3, <2>1
    <3> QED
      BY <1>4, <2>1, <3>1
  <2>2. CASE ~(j < k)
    <3>1. j + 1 \in DOMAIN order /\ j + 1 # k
      BY <1>2, <1>3, <2>2
    <3> QED
      BY <1>4, <2>2, <3>1
  <2> QED
    BY <2>1, <2>2
<1>6. {order'[n] : n \in DOMAIN order'} = Stored'
  <2>1. \A n \in DOMAIN order' : order'[n] \in Stored'
    <3> SUFFICES ASSUME NEW n \in 1 .. N - 1
                 PROVE  order'[n] \in Stored'
      BY <1>4
    <3>1. PICK a \in DOMAIN order : a # k /\ order'[n] = order[a]
      BY <1>5
    <3> QED
      BY <1>1, <1>2, <3>1
  <2>2. ASSUME NEW y \in Stored'
        PROVE  \E n \in DOMAIN order' : order'[n] = y
    <3>1. PICK a \in DOMAIN order : order[a] = y
      BY <1>1
    <3>2. a # k
      BY <1>1, <1>2, <3>1
    <3>3. CASE a < k
      <4>1. a \in 1 .. N - 1
        BY <1>2, <1>3, <3>3
      <4> QED
        BY <1>4, <3>1, <3>3, <4>1
    <3>4. CASE a > k
      <4>1. a - 1 \in 1 .. N - 1 /\ ~(a - 1 < k) /\ (a - 1) + 1 = a
        BY <1>2, <1>3, <3>4
      <4> QED
        BY <1>4, <3>1, <4>1
    <3>5. a < k \/ a > k
      BY <1>2, <1>3, <3>2
    <3> QED
      BY <3>3, <3>4, <3>5
  <2> QED
    BY <2>1, <2>2
<1>7. ASSUME NEW i \in DOMAIN order', NEW j \in DOMAIN order', order'[i] = order'[j]
      PROVE  i = j
  <2>0. i \in 1 .. N - 1 /\ j \in 1 .. N - 1 /\ k \in 1 .. N
    BY <1>2, <1>3, <1>4
  <2>1. PICK a \in DOMAIN order : order'[i] = order[a] /\ a = IF i < k THEN i ELSE i + 1
    BY <1>5, <2>0
  <2>2. PICK b \in DOMAIN order : order'[j] = order[b] /\ b = IF j < k THEN j ELSE j + 1
    BY <1>5, <2>0
  <2>3. a = b
    BY <1>1, <1>7, <2>1, <2>2
  <2>4. (IF i < k THEN i ELSE i + 1) = (IF j < k THEN j ELSE j + 1)
    BY <2>1, <2>2, <2>3
  <2> HIDE DEF k
  <2> QED
    BY <1>3, <2>0, <2>4
<1>8. Len(order') = size'
  BY <1>1, <1>4 DEF N
<1> QED
  BY <1>1, <1>2, <1>4, <1>6, <1>7, <1>8 DEF IsOrder, k

\* What a put makes of the links ns, h, t and g, patched when the table has been
\* resized or cleaned up.
LEMMA PutLinks ==
    ASSUME NEW e \in Elements, NEW m, NEW E, NEW c \in Nat, Inserts(e, m, E, c), pc' = "idle",
           NEW ns \in [0 .. c - 1 -> Node(0 .. c - 1)],
           NEW h \in (0 .. c - 1) \cup {NoSlot}, NEW t \in (0 .. c - 1) \cup {NoSlot},
           NEW g \in (0 .. c - 1) \cup {NoSlot},
           MoveNodeToHead(FindFirstAvailableSlot(m, c, h1[e]), ns, h, t), hand' = g,
           IsOrder, HeldIn(m, E, c) = Stored, e \notin Stored, order' = <<e>> \o order,
           \A i, j \in Filled(m, c) : E[i] = E[j] => i = j
    PROVE  /\ LinksAreSlots'
           /\ /\ Chain(E, Filled(m, c), order, ns, h, t)
              /\ OnChain(Filled(m, c), g)
              => IsList'
<1> DEFINE s == FindFirstAvailableSlot(m, c, h1[e])
           C == 0 .. c - 1
           O == Filled(m, c)
<1>1. capacity' = c /\ IsPut(s, metadata', elements', m, E, c, h1, e)
  BY DEF Inserts
<1>2. MoveNodeToHead(s, ns, h, t)
  OBVIOUS
<1> HIDE DEF s
<1>3. /\ s \in C /\ s \notin O /\ Filled(metadata', c) = O \cup {s}
      /\ \A i \in C : elements'[i] = IF i = s THEN e ELSE E[i]
  BY <1>1 DEF IsPut
<1>4. Slots' = C /\ Occupied' = O \cup {s} /\ NoSlot \notin C /\ O \subseteq C
  BY <1>1, <1>3, OccupiedIs DEF Slots, NoSlot, Filled
<1>5. nodes' \in [C -> Node(C)] /\ head' = s /\ tail' = IF t = NoSlot THEN s ELSE t
  BY <1>2, <1>3, <1>4, HeadMoves
<1>6. LinksAreSlots'
  BY <1>3, <1>4, <1>5 DEF LinksAreSlots
<1>7. ASSUME Chain(E, O, order, ns, h, t), OnChain(O, g)
      PROVE  IsList'
  <2>1. /\ order \in Seq(Elements) /\ \A n \in DOMAIN order : order[n] # e
        /\ \A a, b \in DOMAIN order : order[a] = order[b] => a = b
    BY DEF IsOrder
  <2>2. \A x \in O : E[x] # e
    BY DEF HeldIn
  <2>3. Chain(elements', O \cup {s}, <<e>> \o order, nodes', head', tail')
    <3>1. IsNew(E, O, C, order, ns, s, e, elements')
      BY <1>3, <1>4, <2>1, <2>2 DEF IsNew
    <3> HIDE DEF C, O
    <3> QED
      BY <1>2, <1>7, <3>1, ChainGrows
  <2>4. OnChain(O \cup {s}, g)
    BY <1>7 DEF OnChain
  <2> QED
    BY <1>4, <2>3, <2>4 DEF IsList
<1> QED
  BY <1>6, <1>7

\* An empty cache.
LEMMA InitStorage == SieveInit => StorageInv
<1> SUFFICES ASSUME SieveInit
             PROVE  StorageInv
  OBVIOUS
<1>1. /\ TableInv /\ Stored = {} /\ pc = "idle" /\ size = 0
      /\ nodes = [i \in Slots |-> EmptyNode]
      /\ head = NoSlot /\ tail = NoSlot /\ hand = NoSlot
      /\ order = <<>> /\ dropped = FALSE
  BY InitTable DEF SieveInit, Init
<1>2. LinksAreSlots
  BY <1>1 DEF LinksAreSlots, Node, EmptyNode
<1>3. IsOrder
  BY <1>1 DEF IsOrder
<1>4. Occupied = {}
  BY <1>1 DEF Stored
<1>5. IsList
  <2>1. DOMAIN order = {} /\ Len(order) = 0
    BY <1>1
  <2> QED
    BY <1>1, <1>4, <2>1 DEF IsList, Chain, At, OnChain
<1> QED
  BY <1>1, <1>2, <1>3, <1>5 DEF StorageInv

\* put, in a table that has room.
LEMMA PutAtOnceStep ==
    ASSUME StorageInv, NEW e \in Elements, PutAtOnce(e)
    PROVE  StorageInv'
<1> DEFINE m == metadata
           c == capacity
           s == FindFirstAvailableSlot(m, c, h1[e])
<1>1. /\ AddAtOnce(e) /\ MoveNodeToHead(s, nodes, head, tail)
      /\ hand' = hand /\ dropped' = dropped /\ order' = <<e>> \o order
  BY DEF PutAtOnce
<1>2. /\ TableInv /\ LinksAreSlots /\ IsOrder /\ (~dropped => IsList) /\ c \in Nat
      /\ \A i, j \in Occupied : elements[i] = elements[j] => i = j
  BY StorageFacts DEF StorageInv
<1>3. pc = "idle" /\ pc' = "idle" /\ size' = size + 1
  BY <1>1 DEF AddAtOnce, Insert, cleanup
<1>4. TableInv' /\ Contents!Add(e) /\ Inserts(e, m, elements, c)
  BY <1>1, <1>2, AddAtOnceStep
<1>5. /\ size \in Nat /\ Stored = HeldIn(m, elements, c) /\ Occupied = Filled(m, c)
      /\ e \notin Stored
  BY <1>2, <1>3, <1>4, IdleFacts, OccupiedIs DEF Contents!Add
<1>6. IsOrder'
  BY <1>1, <1>2, <1>3, <1>4, <1>5, OrderGrows
<1>7. /\ nodes \in [0 .. c - 1 -> Node(0 .. c - 1)]
      /\ head \in (0 .. c - 1) \cup {NoSlot} /\ tail \in (0 .. c - 1) \cup {NoSlot}
      /\ hand \in (0 .. c - 1) \cup {NoSlot}
  BY <1>2 DEF LinksAreSlots, Slots
<1>8. \A i, j \in Filled(m, c) : elements[i] = elements[j] => i = j
  BY <1>2, <1>5
<1>9. /\ LinksAreSlots'
      /\ /\ Chain(elements, Filled(m, c), order, nodes, head, tail)
         /\ OnChain(Filled(m, c), hand)
         => IsList'
  <2>1. MoveNodeToHead(FindFirstAvailableSlot(m, c, h1[e]), nodes, head, tail)
    BY <1>1
  <2> HIDE DEF m, c
  <2> QED
    BY <1>1, <1>2, <1>3, <1>4, <1>5, <1>7, <1>8, <2>1, PutLinks
<1>10. ~dropped' => IsList'
  BY <1>1, <1>2, <1>5, <1>9 DEF IsList
<1> QED
  BY <1>3, <1>4, <1>6, <1>9, <1>10 DEF StorageInv

\* The mapping of resizeStorage takes every entry to its slot in the new table,
\* and the links patched with it are slots of the new table.
LEMMA ResizeMoves ==
    ASSUME TableInv, LinksAreSlots, pc = "idle", NEW t, NEW n \in Nat, t.capacity = n,
           Holds(t.metadata, t.elements, n, h1), NoneElse(t.metadata, t.elements, n),
           HeldIn(t.metadata, t.elements, n) = Stored, n > 0
    PROVE  /\ Maps(ResizeMapping(t), elements, Occupied, nodes,
                   t.elements, Filled(t.metadata, n), ResizedNodes(t))
           /\ \A x \in Slots \cup {NoSlot} :
                Fixed(ResizeMapping(t), x) \in (0 .. n - 1) \cup {NoSlot}
           /\ ResizedNodes(t) \in [0 .. n - 1 -> Node(0 .. n - 1)]
<1> DEFINE F == ResizeMapping(t)
           w == t.metadata
           D == t.elements
           O == Occupied
           C == 0 .. n - 1
<1>1. /\ D \in [C -> Elements \cup {NoElement}] /\ NoElement \notin Elements
      /\ \A s \in Filled(w, n) : D[s] \in Elements /\ s \in C
      /\ \A a, b \in Filled(w, n) : D[a] = D[b] => a = b
      /\ \A s \in C : s \notin Filled(w, n) => D[s] = NoElement
  BY ScatterAssumption DEF Holds, NoneElse, Filled
<1>2. /\ O = Filled(metadata, capacity) /\ Stored = HeldIn(metadata, elements, capacity)
      /\ O \subseteq Slots /\ NoSlot \notin Slots
      /\ \A i \in O : elements[i] \in Elements
      /\ \A i, j \in O : elements[i] = elements[j] => i = j
      /\ \A i \in Slots : i \in O <=> metadata[i] = Full
  BY StorageFacts, IdleFacts, OccupiedIs DEF Filled, Slots
<1>3. ASSUME NEW i \in O
      PROVE  F[i] \in Filled(w, n) /\ D[F[i]] = elements[i]
  <2>1. elements[i] \in HeldIn(w, D, n)
    BY <1>2 DEF HeldIn
  <2>2. PICK s \in Filled(w, n) : D[s] = elements[i]
    BY <2>1 DEF HeldIn
  <2>3. DOMAIN D = C
    BY <1>1
  <2>4. F[i] = CHOOSE x \in DOMAIN D : D[x] = elements[i]
    BY <1>2 DEF ResizeMapping
  <2> HIDE DEF F, D, w, O
  <2>5. F[i] \in C /\ D[F[i]] = elements[i]
    BY <1>1, <2>2, <2>3, <2>4
  <2> QED
    BY <1>1, <1>2, <2>5
<1>4. \A i \in Slots : F[i] \in C
  <2>1. ASSUME NEW i \in Slots
        PROVE  F[i] \in C
    <3>1. CASE i \in O
      BY <1>1, <1>3, <3>1
    <3>2. CASE i \notin O
      <4>1. F[i] = 0
        BY <1>2, <3>2 DEF ResizeMapping
      <4> HIDE DEF F
      <4> QED
        BY <4>1
    <3> QED
      BY <3>1, <3>2
  <2> HIDE DEF F
  <2> QED
    BY <2>1
<1>5. \A x \in Slots \cup {NoSlot} : Fixed(F, x) \in C \cup {NoSlot}
  <2> HIDE DEF F
  <2> QED
    BY <1>4 DEF Fixed
<1>6. \A i \in Slots : FixedNode(F, nodes[i]) \in Node(C)
  <2>1. \A i \in Slots : /\ nodes[i].prev \in Slots \cup {NoSlot}
                         /\ nodes[i].next \in Slots \cup {NoSlot}
    BY DEF LinksAreSlots, Node
  <2> HIDE DEF F, C
  <2> QED
    BY <1>5, <2>1 DEF FixedNode, Node
<1>7. ASSUME NEW s \in Filled(w, n)
      PROVE  \E i \in O : s = F[i] /\ ResizedNodes(t)[s] = FixedNode(F, nodes[i])
  <2>1. D[s] \in HeldIn(metadata, elements, capacity)
    BY <1>2 DEF HeldIn
  <2>2. PICK i \in O : elements[i] = D[s]
    BY <1>2, <2>1 DEF HeldIn
  <2>3. F[i] = s
    <3> HIDE DEF F, D, w, O
    <3> QED
      BY <1>1, <1>3, <2>2
  <2> DEFINE j == CHOOSE x \in Slots : metadata[x] = Full /\ F[x] = s
  <2>4. j \in Slots /\ metadata[j] = Full /\ F[j] = s
    <3> HIDE DEF F
    <3> QED
      BY <1>2, <2>3
  <2>5. D[s] # NoElement /\ s \in DOMAIN D
    BY <1>1
  <2>6. ResizedNodes(t)[s] = FixedNode(F, nodes[j])
    BY <2>5 DEF ResizedNodes
  <2> HIDE DEF j, F
  <2> QED
    BY <1>2, <2>4, <2>6
<1>8. ResizedNodes(t) \in [C -> Node(C)]
  <2> DEFINE NodeAt(s) == IF D[s] = NoElement THEN EmptyNode
                          ELSE FixedNode(F, nodes[CHOOSE i \in Slots : metadata[i] = Full /\ F[i] = s])
  <2>1. ResizedNodes(t) = [s \in C |-> NodeAt(s)]
    BY <1>1 DEF ResizedNodes
  <2>2. ASSUME NEW s \in C
        PROVE  NodeAt(s) \in Node(C)
    <3>1. CASE D[s] = NoElement
      BY <3>1 DEF EmptyNode, Node
    <3>2. CASE D[s] # NoElement
      <4>1. s \in Filled(w, n)
        BY <1>1, <3>2
      <4>2. PICK i \in O : s = F[i] /\ ResizedNodes(t)[s] = FixedNode(F, nodes[i])
        BY <1>7, <4>1
      <4>3. ResizedNodes(t)[s] = NodeAt(s)
        BY <2>1
      <4>4. FixedNode(F, nodes[i]) \in Node(C)
        BY <1>2, <1>6
      <4> HIDE DEF NodeAt
      <4> QED
        BY <4>2, <4>3, <4>4
    <3> QED
      BY <3>1, <3>2
  <2> HIDE DEF NodeAt
  <2> QED
    BY <2>1, <2>2
<1> QED
  BY <1>3, <1>5, <1>7, <1>8 DEF Maps

\* put, after resizeStorage.
LEMMA PutAfterResizeStep ==
    ASSUME StorageInv, NEW e \in Elements, PutAfterResize(e)
    PROVE  StorageInv'
<1> DEFINE t == Resized(NextCapacity(capacity))
           n == StorageCapacity(NextCapacity(capacity))
           F == ResizeMapping(t)
           ns == ResizedNodes(t)
           h == Fixed(F, head)
           l == Fixed(F, tail)
           g == Fixed(F, hand)
           O == Filled(t.metadata, n)
<1>1. /\ AddAfterResize(e)
      /\ MoveNodeToHead(FindFirstAvailableSlot(t.metadata, t.capacity, h1[e]), ns, h, l)
      /\ hand' = g /\ dropped' = dropped /\ order' = <<e>> \o order
  BY DEF PutAfterResize
<1>2. TableInv /\ LinksAreSlots /\ IsOrder /\ (~dropped => IsList)
  BY DEF StorageInv
<1>3. /\ pc = "idle" /\ pc' = "idle" /\ size' = size + 1
      /\ NextCapacity(capacity) <= CapacityBound
  BY <1>1 DEF AddAfterResize, Insert, cleanup
<1>4. TableInv' /\ Contents!Add(e) /\ Inserts(e, t.metadata, t.elements, t.capacity)
  BY <1>1, <1>2, AddAfterResizeStep
<1>5. size \in Nat /\ size <= LoadedCapacity(capacity) /\ IsCapacity(capacity)
      /\ e \notin Stored /\ LoadedCapacity(capacity) \in Nat
  BY <1>2, <1>3, <1>4, IdleFacts DEF Contents!Add
<1>6. IsCapacity(n) /\ n > 0 /\ n \in Nat /\ size <= LoadedCapacity(n)
  <2>1. IsCapacity(n) /\ n > 0 /\ LoadedCapacity(capacity) < LoadedCapacity(n)
    BY <1>3, <1>5, GrownFacts
  <2>2. n \in Nat /\ LoadedCapacity(n) \in Nat
    BY <2>1, SizeFacts, LoadFacts
  <2> HIDE DEF n
  <2> QED
    BY <1>5, <2>1, <2>2
<1>7. /\ t.capacity = n /\ Holds(t.metadata, t.elements, n, h1)
      /\ NoneElse(t.metadata, t.elements, n)
      /\ HeldIn(t.metadata, t.elements, n) = Stored
  <2>1. n = StorageCapacity(NextCapacity(capacity))
    OBVIOUS
  <2> HIDE DEF n
  <2> QED
    BY <1>2, <1>3, <1>6, <2>1, ResizedIs
<1> HIDE DEF t, n
<1>8. /\ Maps(F, elements, Occupied, nodes, t.elements, O, ns)
      /\ \A x \in Slots \cup {NoSlot} : Fixed(F, x) \in (0 .. n - 1) \cup {NoSlot}
      /\ ns \in [0 .. n - 1 -> Node(0 .. n - 1)]
  BY <1>2, <1>3, <1>6, <1>7, ResizeMoves
<1> HIDE DEF F, ns
<1>9. /\ h \in (0 .. n - 1) \cup {NoSlot} /\ l \in (0 .. n - 1) \cup {NoSlot}
      /\ g \in (0 .. n - 1) \cup {NoSlot}
  BY <1>2, <1>8 DEF LinksAreSlots
<1>10. ~dropped => Chain(t.elements, O, order, ns, h, l) /\ OnChain(O, g)
  <2> SUFFICES ASSUME ~dropped
               PROVE  Chain(t.elements, O, order, ns, h, l) /\ OnChain(O, g)
    OBVIOUS
  <2>1. /\ Chain(elements, Occupied, order, nodes, head, tail) /\ OnChain(Occupied, hand)
        /\ NoSlot \notin Occupied
    BY <1>2, StorageFacts DEF IsList
  <2> HIDE DEF O
  <2> QED
    BY <1>8, <2>1, ChainMoves
<1>11. hand' = g /\ MoveNodeToHead(FindFirstAvailableSlot(t.metadata, t.capacity, h1[e]), ns, h, l)
  BY <1>1 DEF F, ns
<1> HIDE DEF h, l, g
<1>12. IsOrder'
  BY <1>1, <1>2, <1>3, <1>4, <1>5, OrderGrows
<1>13. \A i, j \in O : t.elements[i] = t.elements[j] => i = j
  BY <1>7 DEF Holds
<1>14. LinksAreSlots' /\ (Chain(t.elements, O, order, ns, h, l) /\ OnChain(O, g) => IsList')
  <2>1. /\ Inserts(e, t.metadata, t.elements, n)
        /\ MoveNodeToHead(FindFirstAvailableSlot(t.metadata, n, h1[e]), ns, h, l)
        /\ hand' = g /\ order' = <<e>> \o order
    BY <1>1, <1>4, <1>7, <1>11
  <2>2. ns \in [0 .. n - 1 -> Node(0 .. n - 1)]
    BY <1>8
  <2>3. HeldIn(t.metadata, t.elements, n) = Stored
    BY <1>7
  <2> QED
    BY <1>2, <1>3, <1>5, <1>6, <1>9, <1>13, <2>1, <2>2, <2>3, PutLinks
<1>15. ~dropped' => IsList'
  BY <1>1, <1>10, <1>14
<1> QED
  BY <1>3, <1>4, <1>12, <1>14, <1>15 DEF StorageInv

\* What is left alone when the entries stay where they are.
LEMMA LinksStay ==
    ASSUME StorageInv, TableInv', elements' = elements, capacity' = capacity, size' = size,
           Stored' = Stored, Occupied' = Occupied, UNCHANGED <<links, order, dropped>>,
           pc' = "drop" => IsMapping'
    PROVE  StorageInv'
<1>1. /\ nodes' = nodes /\ head' = head /\ tail' = tail /\ hand' = hand
      /\ order' = order /\ dropped' = dropped
  BY DEF links
<1>2. LinksAreSlots' /\ IsOrder' /\ (~dropped' => IsList')
  BY <1>1 DEF StorageInv, LinksAreSlots, IsOrder, IsList, Slots
<1> QED
  BY <1>2 DEF StorageInv

\* put enters dropDeletes.
LEMMA PutDropsDeletesStep ==
    ASSUME StorageInv, NEW e \in Elements, PutDropsDeletes(e)
    PROVE  StorageInv'
<1>1. /\ DropDeletes(e) /\ mapping' = Unmapped /\ UNCHANGED <<links, order, dropped>>
      /\ pc = "idle" /\ pc' = "drop" /\ TableInv
      /\ elements' = elements /\ capacity' = capacity /\ size' = size
  BY DEF PutDropsDeletes, DropDeletes, StorageInv
<1>2. /\ TableInv' /\ Stored' = Stored
      /\ Filled(metadata', capacity') = {} /\ Taken' = Filled(metadata, capacity)
  BY <1>1, DropDeletesStep
<1>3. Occupied' = Occupied
  BY <1>1, <1>2, OccupiedIs
<1>4. IsMapping'
  <2>1. InvalidMapping \in Mappings /\ InvalidMapping.src # Erased
    BY DEF InvalidMapping, Mapping, Mappings, Erased, NoSlot
  <2>2. /\ mapping' \in [Slots -> Mappings]
        /\ \A i \in Slots : mapping'[i] = InvalidMapping
    BY <1>1, <2>1 DEF Unmapped
  <2>3. Slots' = Slots /\ Mappings' = Mappings /\ Removed(metadata', capacity') \subseteq Slots
    BY <1>1 DEF Slots, Mappings, Removed
  <2> QED
    BY <1>2, <2>1, <2>2, <2>3 DEF IsMapping
<1> QED
  BY <1>1, <1>2, <1>3, <1>4, LinksStay

\* A turn of the loop that finds nothing to settle.
LEMMA SieveDropSkipsStep ==
    ASSUME StorageInv, SieveDropSkips
    PROVE  StorageInv'
<1>1. /\ DropSkips /\ mapping' = mapping /\ UNCHANGED <<links, order, dropped>>
      /\ pc = "drop" /\ pc' = "drop" /\ TableInv /\ IsMapping /\ index' = index + 1
      /\ metadata' = metadata /\ elements' = elements /\ capacity' = capacity /\ size' = size
      /\ dropped' = dropped
  BY DEF SieveDropSkips, DropSkips, Dropping, StorageInv, table
<1>2. TableInv' /\ Stored' = Stored
  BY <1>1, DropSkipsStep
<1>3. Occupied' = Occupied
  BY <1>1 DEF Occupied, Slots
<1>4. IsMapping'
  <2>1. /\ Slots' = Slots /\ Mappings' = Mappings /\ capacity \in Nat
        /\ index \in 0 .. capacity
    BY <1>1, DropFacts DEF Slots, Mappings
  <2>2. \A i \in Slots : i < index => i < index + 1
    BY <2>1 DEF Slots
  <2> QED
    BY <1>1, <2>1, <2>2 DEF IsMapping
<1> QED
  BY <1>1, <1>2, <1>3, <1>4, LinksStay

\* An entry that stays is mapped to its own slot.
LEMMA SieveDropKeepsStep ==
    ASSUME StorageInv, SieveDropKeeps
    PROVE  StorageInv'
<1>1. /\ DropKeeps /\ UNCHANGED <<links, order, dropped>>
      /\ mapping' = IF mapping[index] = InvalidMapping
                    THEN [mapping EXCEPT ![index] = Mapping(index, index)]
                    ELSE mapping
      /\ pc = "drop" /\ pc' = "drop" /\ TableInv /\ IsMapping /\ index' = index + 1
      /\ elements' = elements /\ capacity' = capacity /\ size' = size
      /\ dropped' = dropped /\ Dropping /\ metadata[index] = Deleted
  BY DEF SieveDropKeeps, DropKeeps, Dropping, StorageInv
<1>2. /\ TableInv' /\ Stored' = Stored /\ Taken' = Taken
      /\ Filled(metadata', capacity') = Filled(metadata, capacity) \cup {index}
      /\ Removed(metadata', capacity') = Removed(metadata, capacity) \ {index}
  BY <1>1, DropKeepsStep
<1>3. Occupied' = Occupied
  BY <1>1, <1>2, OccupiedIs
<1>4. IsMapping'
  <2>1. /\ index \in 0 .. capacity - 1 /\ index \in Removed(metadata, capacity)
        /\ capacity \in Nat
    BY <1>1, LooksAt, DropFacts
  <2>2. /\ mapping \in [Slots -> Mappings] /\ index \in Slots /\ Slots' = Slots
        /\ \A i \in Slots : mapping[i].src = Erased => i < index
    BY <1>1, <2>1 DEF IsMapping, Mappings, Slots
  <2>3. /\ Mapping(index, index) \in Mappings /\ Mapping(index, index).dst = index
        /\ Mapping(index, index).src = index
    BY <2>2 DEF Mappings, Mapping
  <2>4. /\ mapping' \in [Slots -> Mappings]
        /\ \A i \in Slots : i # index => mapping'[i] = mapping[i]
        /\ mapping[index] = InvalidMapping => mapping'[index] = Mapping(index, index)
        /\ mapping[index] # InvalidMapping => mapping'[index] = mapping[index]
    <3>1. CASE mapping[index] = InvalidMapping
      BY <1>1, <2>2, <2>3, <3>1
    <3>2. CASE mapping[index] # InvalidMapping
      BY <1>1, <2>2, <3>2
    <3> QED
      BY <3>1, <3>2
  <2>5. \A i \in Slots : mapping'[i].src = Erased => i < index'
    <3>1. index # Erased
      BY <2>1 DEF Erased
    <3>2. \A i \in Slots : i < index => i < index + 1
      BY <2>1 DEF Slots
    <3> QED
      BY <1>1, <2>1, <2>2, <2>3, <2>4, <3>1, <3>2
  <2>6. ASSUME ~dropped
        PROVE  /\ \A i \in Filled(metadata, capacity) \cup {index} : mapping'[i].dst = i
               /\ \A i \in Removed(metadata, capacity) \ {index} : mapping'[i] = InvalidMapping
    <3>1. /\ \A i \in Filled(metadata, capacity) : mapping[i].dst = i /\ i # index /\ i \in Slots
          /\ \A i \in Removed(metadata, capacity) : mapping[i] = InvalidMapping /\ i \in Slots
      BY <1>1, <2>1, <2>6, BytesDiffer DEF IsMapping, Filled, Removed, Slots
    <3> QED
      BY <2>1, <2>3, <2>4, <3>1
  <2> QED
    BY <1>1, <1>2, <2>2, <2>4, <2>5, <2>6 DEF IsMapping, Mappings
<1> QED
  BY <1>1, <1>2, <1>3, <1>4, LinksStay

\* What a turn of the loop that moves entries does, however it maps them.
LEMMA EntriesMove ==
    ASSUME StorageInv, TableInv', Stored' = Stored, capacity' = capacity, size' = size,
           pc = "drop", pc' = "drop", dropped' = TRUE,
           UNCHANGED <<head, tail, hand, order>>,
           nodes' \in [Slots -> Node(Slots)],
           mapping' \in [Slots -> Mappings],
           \A i \in Slots : mapping'[i].src = Erased => i < index'
    PROVE  StorageInv'
<1>1. Slots' = Slots /\ Mappings' = Mappings
  BY DEF Slots, Mappings
<1>2. LinksAreSlots' /\ IsOrder' /\ IsMapping'
  BY <1>1 DEF StorageInv, LinksAreSlots, IsOrder, IsMapping
<1> QED
  BY <1>2 DEF StorageInv

\* The facts about an entry that moves.
LEMMA MovesFrom ==
    ASSUME StorageInv, Dropping, metadata[index] = Deleted
    PROVE  /\ TableInv /\ LinksAreSlots /\ pc = "drop" /\ capacity \in Nat
           /\ index \in Slots /\ Target \in Slots /\ index \in Nat /\ Slots \subseteq Nat
           /\ mapping \in [Slots -> Mappings]
           /\ \A i \in Slots : mapping[i].src = Erased => i < index
           /\ mapping[index].src \in Slots \cup {NoSlot}
           /\ \A i \in Slots : mapping[i].src \in Slots \cup {NoSlot, Erased}
<1>1. TableInv /\ LinksAreSlots /\ pc = "drop" /\ IsMapping
  BY DEF StorageInv, Dropping
<1>2. index \in Slots /\ Target \in Slots
  BY <1>1, LooksAt DEF Slots
<1>3. capacity \in Nat /\ index \in Nat /\ Slots \subseteq Nat
  BY <1>1, <1>2, DropFacts DEF Slots
<1>4. /\ mapping \in [Slots -> Mappings]
      /\ \A i \in Slots : mapping[i].src = Erased => i < index
  BY <1>1 DEF IsMapping
<1>5. \A i \in Slots : mapping[i].src \in Slots \cup {NoSlot, Erased}
  BY <1>4 DEF Mappings
<1>6. mapping[index].src # Erased
  BY <1>2, <1>3, <1>4
<1> QED
  BY <1>1, <1>2, <1>3, <1>4, <1>5, <1>6

\* What the loop writes into the mapping M: dst of slot x, where the entry comes
\* from, and src of slot i, where it is.
IsPatched(left, M, x, d, i, y) ==
    /\ M \in [Slots -> Mappings]
    /\ i \in Slots /\ x \in Slots /\ d \in Slots /\ y \in Slots \cup {NoSlot, Erased}
    /\ left = [M EXCEPT ![x].dst = d, ![i].src = y]

\* The mapping keeps its type, and only this src is written.
LEMMA MappingIsPatched ==
    ASSUME NEW left, NEW M, NEW x, NEW d, NEW i, NEW y, IsPatched(left, M, x, d, i, y)
    PROVE  /\ left \in [Slots -> Mappings]
           /\ \A j \in Slots : left[j].src = IF j = i THEN y ELSE M[j].src
<1> DEFINE one == [M[x] EXCEPT !.dst = d]
           first == [M EXCEPT ![x] = one]
           two == [first[i] EXCEPT !.src = y]
           all == [first EXCEPT ![i] = two]
<1>0. /\ M \in [Slots -> Mappings]
      /\ i \in Slots /\ x \in Slots /\ d \in Slots /\ y \in Slots \cup {NoSlot, Erased}
  BY DEF IsPatched
<1> USE <1>0
<1>1. one \in Mappings /\ one.src = M[x].src
  BY DEF Mappings
<1> HIDE DEF one
<1>2. first \in [Slots -> Mappings] /\ \A j \in Slots : first[j].src = M[j].src
  BY <1>1
<1> HIDE DEF first
<1>3. two \in Mappings /\ two.src = y
  BY <1>2 DEF Mappings
<1> HIDE DEF two
<1>4. all \in [Slots -> Mappings] /\ \A j \in Slots : all[j].src = IF j = i THEN y ELSE M[j].src
  BY <1>2, <1>3
<1>5. left = all
  BY DEF IsPatched, first, one, two
<1> QED
  BY <1>4, <1>5

\* An entry moves to a free slot.
LEMMA SieveDropMovesStep ==
    ASSUME StorageInv, SieveDropMoves
    PROVE  StorageInv'
<1> DEFINE src == mapping[index].src
           left == IF src # NoSlot
                   THEN [mapping EXCEPT ![src].dst = Target, ![index].src = Erased]
                   ELSE [mapping EXCEPT ![index] = Mapping(NoSlot, Target)]
<1>1. /\ DropMoves /\ Dropping /\ metadata[index] = Deleted
      /\ nodes' = [nodes EXCEPT ![Target] = nodes[index], ![index] = EmptyNode]
      /\ mapping' = [left EXCEPT ![Target] = Mapping(index, NoSlot)]
      /\ dropped' = TRUE /\ UNCHANGED <<head, tail, hand, order>>
      /\ pc' = pc /\ index' = index + 1 /\ capacity' = capacity /\ size' = size
  BY DEF SieveDropMoves, DropMoves
<1>2. /\ TableInv /\ LinksAreSlots /\ pc = "drop" /\ capacity \in Nat
      /\ index \in Slots /\ Target \in Slots /\ index \in Nat /\ Slots \subseteq Nat
      /\ mapping \in [Slots -> Mappings]
      /\ \A i \in Slots : mapping[i].src = Erased => i < index
      /\ src \in Slots \cup {NoSlot}
  BY <1>1, MovesFrom
<1> HIDE DEF src
<1>3. TableInv' /\ Stored' = Stored
  BY <1>1, <1>2, DropMovesStep
<1>4. nodes' \in [Slots -> Node(Slots)]
  BY <1>1, <1>2 DEF LinksAreSlots, Node, EmptyNode
<1>5. /\ left \in [Slots -> Mappings]
      /\ \A i \in Slots : left[i].src = Erased => i < index + 1
  <2>1. CASE src # NoSlot
    <3>1. IsPatched(left, mapping, src, Target, index, Erased) /\ src \in Slots
      BY <1>2, <2>1 DEF IsPatched
    <3>2. /\ left \in [Slots -> Mappings]
          /\ \A j \in Slots : left[j].src = IF j = index THEN Erased ELSE mapping[j].src
      <4> HIDE DEF left
      <4> QED
        BY <3>1, MappingIsPatched
    <3>3. \A i \in Slots : i <= index => i < index + 1
      BY <1>2
    <3> HIDE DEF left
    <3> QED
      BY <1>2, <3>2, <3>3
  <2>2. CASE src = NoSlot
    <3>1. /\ left = [mapping EXCEPT ![index] = Mapping(NoSlot, Target)]
          /\ Mapping(NoSlot, Target) \in Mappings /\ Mapping(NoSlot, Target).src # Erased
      BY <1>2, <2>2 DEF Mapping, Mappings, NoSlot, Erased
    <3>2. \A i \in Slots : i < index => i < index + 1
      BY <1>2
    <3> HIDE DEF left
    <3> QED
      BY <1>2, <3>1, <3>2
  <2> QED
    BY <2>1, <2>2
<1> HIDE DEF left
<1>6. /\ mapping' \in [Slots -> Mappings]
      /\ \A i \in Slots : mapping'[i].src = Erased => i < index'
  <2>1. /\ Mapping(index, NoSlot) \in Mappings /\ Mapping(index, NoSlot).src # Erased
    BY <1>2 DEF Mapping, Mappings, Erased
  <2> QED
    BY <1>1, <1>2, <1>5, <2>1
<1> QED
  BY <1>1, <1>2, <1>3, <1>4, <1>6, EntriesMove

\* Two entries change places.
LEMMA SieveDropSwapsStep ==
    ASSUME StorageInv, SieveDropSwaps
    PROVE  StorageInv'
<1> DEFINE src == mapping[index].src
           left == IF src # NoSlot
                   THEN [mapping EXCEPT ![src].dst = Target, ![index].src = Target]
                   ELSE [mapping EXCEPT ![index] = Mapping(Target, Target)]
           from == IF src # NoSlot THEN src ELSE index
<1>1. /\ DropSwaps /\ Dropping /\ metadata[index] = Deleted
      /\ nodes' = [nodes EXCEPT ![Target] = nodes[index], ![index] = nodes[Target]]
      /\ mapping' = [left EXCEPT ![Target] = Mapping(from, index)]
      /\ dropped' = TRUE /\ UNCHANGED <<head, tail, hand, order>>
      /\ pc' = pc /\ index' = index /\ capacity' = capacity /\ size' = size
  BY DEF SieveDropSwaps, DropSwaps, cleanup
<1>2. /\ TableInv /\ LinksAreSlots /\ pc = "drop" /\ capacity \in Nat
      /\ index \in Slots /\ Target \in Slots /\ index \in Nat /\ Slots \subseteq Nat
      /\ mapping \in [Slots -> Mappings]
      /\ \A i \in Slots : mapping[i].src = Erased => i < index
      /\ src \in Slots \cup {NoSlot}
  BY <1>1, MovesFrom
<1> HIDE DEF src
<1>3. TableInv' /\ Stored' = Stored
  BY <1>1, <1>2, DropSwapsStep
<1>4. nodes' \in [Slots -> Node(Slots)]
  BY <1>1, <1>2 DEF LinksAreSlots
<1>5. /\ left \in [Slots -> Mappings]
      /\ \A i \in Slots : left[i].src = Erased => i < index
  <2>0. Target # Erased
    BY <1>2 DEF Erased
  <2>1. CASE src # NoSlot
    <3>1. IsPatched(left, mapping, src, Target, index, Target) /\ src \in Slots
      BY <1>2, <2>1 DEF IsPatched
    <3>2. /\ left \in [Slots -> Mappings]
          /\ \A j \in Slots : left[j].src = IF j = index THEN Target ELSE mapping[j].src
      <4> HIDE DEF left
      <4> QED
        BY <3>1, MappingIsPatched
    <3> HIDE DEF left
    <3> QED
      BY <1>2, <2>0, <3>2
  <2>2. CASE src = NoSlot
    <3>1. /\ left = [mapping EXCEPT ![index] = Mapping(Target, Target)]
          /\ Mapping(Target, Target) \in Mappings /\ Mapping(Target, Target).src # Erased
      BY <1>2, <2>0, <2>2 DEF Mapping, Mappings
    <3> HIDE DEF left
    <3> QED
      BY <1>2, <3>1
  <2> QED
    BY <2>1, <2>2
<1> HIDE DEF left
<1>6. /\ mapping' \in [Slots -> Mappings]
      /\ \A i \in Slots : mapping'[i].src = Erased => i < index'
  <2>1. from \in Slots
    BY <1>2
  <2>2. /\ Mapping(from, index) \in Mappings /\ Mapping(from, index).src # Erased
    <3> HIDE DEF from
    <3> QED
      BY <1>2, <2>1 DEF Mapping, Mappings, Erased
  <2> HIDE DEF from
  <2> QED
    BY <1>1, <1>2, <1>5, <2>2
<1> QED
  BY <1>1, <1>2, <1>3, <1>4, <1>6, EntriesMove

\* fixupNodes at the end of dropDeletes, and the put.
LEMMA SieveDropEndsStep ==
    ASSUME StorageInv, SieveDropEnds
    PROVE  StorageInv'
<1> DEFINE m == metadata
           E == elements
           c == capacity
           C == 0 .. c - 1
           e == pending
           F == [i \in Slots |-> mapping[i].dst]
           ns == [i \in Slots |-> FixedNode(F, nodes[i])]
           h == Fixed(F, head)
           l == Fixed(F, tail)
           g == Fixed(F, hand)
           O == Filled(m, c)
<1>1. /\ DropEnds /\ hand' = g /\ dropped' = dropped /\ order' = <<e>> \o order
      /\ MoveNodeToHead(FindFirstAvailableSlot(m, c, h1[e]), ns, h, l)
  BY DEF SieveDropEnds
<1>2. /\ pc = "drop" /\ pc' = "idle" /\ size' = size + 1
  BY <1>1 DEF DropEnds, Insert
<1>3. /\ TableInv /\ LinksAreSlots /\ IsOrder /\ IsMapping /\ (~dropped => IsList)
      /\ c \in Nat /\ size \in Nat
  BY <1>2, DropFacts DEF StorageInv
<1>4. /\ TableInv' /\ Contents!Add(e) /\ e \in Elements /\ Inserts(e, m, E, c) /\ Taken = O
      /\ e \notin Stored
  BY <1>1, <1>3, DropEndsStep DEF Contents!Add
<1>5. /\ Occupied = O /\ HeldIn(m, E, c) = Stored
      /\ \A i, j \in O : E[i] = E[j] => i = j
      /\ NoSlot \notin O /\ O \subseteq Slots
  BY <1>2, <1>3, <1>4, OccupiedIs, StorageFacts, StoredIs DEF HeldIn
<1>6. IsOrder'
  BY <1>1, <1>2, <1>3, <1>4, OrderGrows
<1>7. F \in [Slots -> Slots \cup {NoSlot}] /\ Slots = C
  BY <1>3 DEF IsMapping, Mappings, Slots
<1> HIDE DEF F
<1>8. \A x \in Slots \cup {NoSlot} : Fixed(F, x) \in Slots \cup {NoSlot}
  BY <1>7 DEF Fixed
<1>9. /\ ns \in [C -> Node(C)]
      /\ h \in C \cup {NoSlot} /\ l \in C \cup {NoSlot} /\ g \in C \cup {NoSlot}
  <2>1. \A i \in Slots : /\ nodes[i].prev \in Slots \cup {NoSlot}
                         /\ nodes[i].next \in Slots \cup {NoSlot}
    BY <1>3 DEF LinksAreSlots, Node
  <2>2. \A i \in Slots : FixedNode(F, nodes[i]) \in Node(Slots)
    BY <1>8, <2>1 DEF FixedNode, Node
  <2> QED
    BY <1>3, <1>7, <1>8, <2>2 DEF LinksAreSlots
<1>10. ~dropped => Chain(E, O, order, ns, h, l) /\ OnChain(O, g)
  <2> SUFFICES ASSUME ~dropped
               PROVE  Chain(E, O, order, ns, h, l) /\ OnChain(O, g)
    OBVIOUS
  <2>1. Chain(E, O, order, nodes, head, tail) /\ OnChain(O, hand)
    BY <1>3, <1>5 DEF IsList
  <2>2. \A i \in O : F[i] = i
    BY <1>3, <1>5 DEF IsMapping, F
  <2>3. Maps(F, E, O, nodes, E, O, ns)
    BY <1>5, <2>2 DEF Maps
  <2> HIDE DEF O, ns, E
  <2> QED
    BY <1>5, <2>1, <2>3, ChainMoves
<1>11. /\ hand' = g /\ MoveNodeToHead(FindFirstAvailableSlot(m, c, h1[e]), ns, h, l)
  BY <1>1 DEF F
<1> HIDE DEF h, l, g, ns
<1>12. LinksAreSlots' /\ (Chain(E, O, order, ns, h, l) /\ OnChain(O, g) => IsList')
  <2> HIDE DEF m, E, c, e
  <2> QED
    BY <1>1, <1>2, <1>3, <1>4, <1>5, <1>9, <1>11, PutLinks
<1>13. ~dropped' => IsList'
  BY <1>1, <1>10, <1>12
<1> QED
  BY <1>2, <1>4, <1>6, <1>12, <1>13 DEF StorageInv

\* The search for the element of a Full slot finds this slot.
LEMMA FindsSlot ==
    ASSUME TableInv, pc = "idle", NEW i \in Filled(metadata, capacity)
    PROVE  elements[i] \in Elements /\ Find(elements[i], {Empty}) = i
<1>1. /\ IsCapacity(capacity) /\ h1 \in [Elements -> Nat]
      /\ Holds(metadata, elements, capacity, h1)
  BY IdleFacts
<1>2. elements[i] \in Elements /\ elements[i] \in HeldIn(metadata, elements, capacity)
  BY <1>1 DEF Holds, HeldIn
<1>3. /\ Find(elements[i], {Empty}) \in Filled(metadata, capacity)
      /\ elements[Find(elements[i], {Empty})] = elements[i]
  BY <1>1, <1>2, FindIs
<1> QED
  BY <1>1, <1>2, <1>3 DEF Holds

\* removeValueAt, with the hand at g.
LEMMA RemoveValueAtStep ==
    ASSUME StorageInv, pc = "idle", NEW i \in Filled(metadata, capacity),
           NEW g \in Slots \cup {NoSlot}, ~dropped => OnChain(Occupied, g),
           RemoveValueAt(i, g)
    PROVE  StorageInv'
<1> DEFINE e == elements[i]
           k == Rank(e)
           O == Occupied
<1>1. /\ Remove(e) /\ dropped' = dropped
      /\ hand' = IF g = i THEN nodes[i].prev ELSE g
      /\ order' = SubSeq(order, 1, k - 1) \o SubSeq(order, k + 1, Len(order))
  BY DEF RemoveValueAt
<1>2. /\ TableInv /\ LinksAreSlots /\ IsOrder /\ (~dropped => IsList)
      /\ e \in Elements /\ Find(e, {Empty}) = i
  BY FindsSlot DEF StorageInv
<1>3. pc' = "idle" /\ size' = size - 1
  BY <1>1 DEF Remove, cleanup
<1>4. TableInv' /\ Contents!Remove(e) /\ Vacates(i)
  BY <1>1, <1>2, RemoveStep
<1>5. /\ size \in Nat /\ O = Filled(metadata, capacity) /\ Occupied' = O \ {i} /\ i \in O
      /\ capacity' = capacity /\ \A x \in O \ {i} : elements'[x] = elements[x]
  BY <1>2, <1>3, <1>4, IdleFacts, OccupiedIs DEF Vacates
<1>6. /\ O \subseteq Slots /\ NoSlot \notin Slots /\ Slots' = Slots
      /\ \A a, b \in O : elements[a] = elements[b] => a = b
  BY <1>2, <1>5, StorageFacts DEF Slots
<1>7. IsOrder' /\ k \in DOMAIN order /\ order[k] = e
  BY <1>1, <1>2, <1>3, <1>4, <1>5, OrderShrinks
<1> HIDE DEF k
<1>8. nodes' \in [Slots -> Node(Slots)] /\ Unlinks(nodes, i)
  BY <1>2, <1>5, <1>6, NodeGoes DEF LinksAreSlots
<1>9. nodes[i].prev \in Slots \cup {NoSlot} /\ nodes[i].next \in Slots \cup {NoSlot}
  BY <1>2, <1>5, <1>6 DEF LinksAreSlots, Node
<1>10. LinksAreSlots'
  BY <1>1, <1>2, <1>6, <1>8, <1>9 DEF LinksAreSlots, Unlinks
<1>11. ASSUME ~dropped
       PROVE  IsList'
  <2>1. Chain(elements, O, order, nodes, head, tail) /\ OnChain(O, g)
    BY <1>2, <1>11 DEF IsList
  <2>2. IsListed(elements, O, Slots, order, nodes, i, k, elements')
    BY <1>2, <1>5, <1>6, <1>7 DEF IsListed, IsOrder, LinksAreSlots
  <2>3. /\ Chain(elements', O \ {i}, SubSeq(order, 1, k - 1) \o SubSeq(order, k + 1, Len(order)),
                 nodes', head', tail')
        /\ OnChain(O \ {i}, nodes[i].prev)
    <3> HIDE DEF O
    <3> QED
      BY <1>8, <2>1, <2>2, ChainShrinks
  <2>4. OnChain(O \ {i}, hand')
    BY <1>1, <2>1, <2>3 DEF OnChain
  <2>5. order' = SubSeq(order, 1, k - 1) \o SubSeq(order, k + 1, Len(order))
    BY <1>1 DEF k
  <2> QED
    BY <1>5, <2>3, <2>4, <2>5 DEF IsList
<1> QED
  BY <1>1, <1>3, <1>4, <1>7, <1>10, <1>11 DEF StorageInv

\* remove.
LEMMA RemoveKeyStep ==
    ASSUME StorageInv, NEW e \in Elements, RemoveKey(e)
    PROVE  StorageInv'
<1> DEFINE i == Find(e, {Empty})
<1>1. pc = "idle" /\ i # NoSlot /\ RemoveValueAt(i, hand)
  BY DEF RemoveKey
<1>2. TableInv /\ LinksAreSlots /\ (~dropped => IsList)
  BY DEF StorageInv
<1>3. /\ IsCapacity(capacity) /\ h1 \in [Elements -> Nat]
      /\ Holds(metadata, elements, capacity, h1)
  BY <1>1, <1>2, IdleFacts
<1>4. i \in Filled(metadata, capacity)
  BY <1>1, <1>3, FindIs
<1> HIDE DEF i
<1>5. hand \in Slots \cup {NoSlot} /\ (~dropped => OnChain(Occupied, hand))
  BY <1>2 DEF LinksAreSlots, IsList
<1> QED
  BY <1>1, <1>4, <1>5, RemoveValueAtStep

\* An eviction.
LEMMA EvictOneStep ==
    ASSUME StorageInv, EvictOne
    PROVE  StorageInv'
<1> DEFINE candidate == IF hand # NoSlot THEN hand ELSE tail
           g == nodes[candidate].prev
<1>1. /\ pc = "idle" /\ candidate # NoSlot /\ metadata[candidate] = Full
      /\ RemoveValueAt(candidate, g)
  BY DEF EvictOne
<1>2. TableInv /\ LinksAreSlots /\ IsOrder /\ (~dropped => IsList)
  BY DEF StorageInv
<1>3. candidate \in Slots
  BY <1>1, <1>2 DEF LinksAreSlots
<1> HIDE DEF candidate
<1>4. candidate \in Filled(metadata, capacity) /\ Occupied = Filled(metadata, capacity)
  BY <1>1, <1>3, OccupiedIs DEF Filled, Slots
<1>5. g \in Slots \cup {NoSlot}
  BY <1>2, <1>3 DEF LinksAreSlots, Node
<1>6. ASSUME ~dropped
      PROVE  OnChain(Occupied, g)
  <2>1. elements[candidate] \in Stored
    BY <1>4 DEF Stored
  <2>2. PICK n \in DOMAIN order : order[n] = elements[candidate]
    BY <1>2, <2>1 DEF IsOrder
  <2>3. LinksAt(elements, Occupied, order, nodes, n, candidate)
    BY <1>2, <1>4, <1>6, <2>2 DEF IsList, Chain
  <2> QED
    BY <2>3 DEF LinksAt, At, OnChain
<1> HIDE DEF g
<1> QED
  BY <1>1, <1>4, <1>5, <1>6, RemoveValueAtStep

\* Every step keeps the invariant.
LEMMA StorageKeeps ==
    ASSUME StorageInv, [SieveNext]_vars
    PROVE  StorageInv'
<1>1. CASE UNCHANGED vars
  <2>1. /\ UNCHANGED <<metadata, elements, capacity, growthLimit, size, h1, pc, index, pending>>
        /\ UNCHANGED <<links, order, dropped>> /\ mapping' = mapping /\ dropped' = dropped
        /\ UNCHANGED tableVars
    BY <1>1 DEF vars, tableVars, table, cleanup
  <2>2. TableInv' /\ Stored' = Stored /\ Occupied' = Occupied
    <3>1. TableInv'
      BY <2>1, NextKeeps DEF StorageInv
    <3> QED
      BY <2>1, <3>1 DEF Stored, Occupied, Slots
  <2>3. pc' = "drop" => IsMapping'
    BY <2>1 DEF StorageInv, IsMapping, Mappings, Slots
  <2> QED
    BY <2>1, <2>2, <2>3, LinksStay
<1>2. ASSUME NEW e \in Elements, PutAtOnce(e)
      PROVE  StorageInv'
  BY <1>2, PutAtOnceStep
<1>3. ASSUME NEW e \in Elements, PutAfterResize(e)
      PROVE  StorageInv'
  BY <1>3, PutAfterResizeStep
<1>4. ASSUME NEW e \in Elements, PutDropsDeletes(e)
      PROVE  StorageInv'
  BY <1>4, PutDropsDeletesStep
<1>5. ASSUME NEW e \in Elements, RemoveKey(e)
      PROVE  StorageInv'
  BY <1>5, RemoveKeyStep
<1>6. CASE EvictOne
  BY <1>6, EvictOneStep
<1>7. CASE SieveDropSkips
  BY <1>7, SieveDropSkipsStep
<1>8. CASE SieveDropKeeps
  BY <1>8, SieveDropKeepsStep
<1>9. CASE SieveDropMoves
  BY <1>9, SieveDropMovesStep
<1>10. CASE SieveDropSwaps
  BY <1>10, SieveDropSwapsStep
<1>11. CASE SieveDropEnds
  BY <1>11, SieveDropEndsStep
<1> QED
  BY <1>1, <1>2, <1>3, <1>4, <1>5, <1>6, <1>7, <1>8, <1>9, <1>10, <1>11
  DEF SieveNext, SieveDrop

(***************************************************************************)
(* The theorems.                                                           *)
(***************************************************************************)

\* A slot at a place of the order is the one that is at this place.
LEMMA AtIsNth ==
    ASSUME TableInv, pc = "idle", IsOrder, NEW n, NEW x, At(elements, Occupied, order, n, x)
    PROVE  x = Nth(n)
<1>1. CASE n \in DOMAIN order
  <2>1. x \in Occupied /\ elements[x] = order[n]
    BY <1>1 DEF At
  <2>2. /\ \A a, b \in Occupied : elements[a] = elements[b] => a = b
        /\ \A i \in Slots : i \in Occupied <=> metadata[i] = Full
        /\ Occupied \subseteq Slots
    BY StorageFacts DEF Occupied
  <2>3. SlotOf(order[n]) = x
    BY <2>1, <2>2 DEF SlotOf
  <2> QED
    BY <1>1, <2>3 DEF Nth
<1>2. CASE n \notin DOMAIN order
  BY <1>2 DEF At, Nth
<1> QED
  BY <1>1, <1>2

\* The invariant implies that the list is the order.
LEMMA ListIs ==
    ASSUME StorageInv, pc = "idle", ~dropped
    PROVE  ListIsOrder
<1>1. TableInv /\ LinksAreSlots /\ IsOrder /\ IsList
  BY DEF StorageInv
<1>2. head = Nth(1) /\ tail = Nth(Len(order))
  BY <1>1, AtIsNth DEF IsList, Chain
<1>3. ASSUME NEW n \in DOMAIN order
      PROVE  nodes[Nth(n)] = [prev |-> Nth(n - 1), next |-> Nth(n + 1)]
  <2>1. order[n] \in Stored
    BY <1>1 DEF IsOrder
  <2>2. PICK x \in Occupied : elements[x] = order[n]
    BY <2>1 DEF Stored
  <2>3. x = Nth(n)
    <3>1. At(elements, Occupied, order, n, x)
      BY <2>2 DEF At
    <3> QED
      BY <1>1, <3>1, AtIsNth
  <2>4. nodes[x].prev = Nth(n - 1) /\ nodes[x].next = Nth(n + 1)
    <3>1. LinksAt(elements, Occupied, order, nodes, n, x)
      BY <1>1, <2>2 DEF IsList, Chain
    <3>2. /\ At(elements, Occupied, order, n - 1, nodes[x].prev)
          /\ At(elements, Occupied, order, n + 1, nodes[x].next)
      BY <3>1 DEF LinksAt
    <3> QED
      BY <1>1, <3>2, AtIsNth
  <2>5. x \in Slots /\ nodes[x] \in Node(Slots)
    BY <1>1, StorageFacts DEF LinksAreSlots
  <2>6. nodes[x] = [prev |-> nodes[x].prev, next |-> nodes[x].next]
    BY <2>5 DEF Node
  <2> QED
    BY <2>3, <2>4, <2>6
<1>4. hand # NoSlot => metadata[hand] = Full
  BY <1>1 DEF IsList, OnChain, Occupied
<1> QED
  BY <1>2, <1>3, <1>4 DEF ListIsOrder

\* No call and no turn of dropDeletes leaves the inductive invariant.
THEOREM StorageInvariant == SieveSpec => []StorageInv
<1>1. SieveInit => StorageInv
  BY InitStorage
<1>2. StorageInv /\ [SieveNext]_vars => StorageInv'
  BY StorageKeeps
<1> QED
  BY <1>1, <1>2, PTL DEF SieveSpec

\* Through puts, removals, evictions and any number of resizes of the table, the
\* list has the entries in the order they were put in, forwards and backwards,
\* and the hand is on it, until dropDeletes moves an entry: fixupNodes patches
\* the links of resizeStorage right, and those of a dropDeletes that moves none.
THEOREM ListOutlivesResize == SieveSpec => []ListSurvivesResize
<1>1. StorageInv => ListSurvivesResize
  BY ListIs DEF ListSurvivesResize
<1> QED
  BY <1>1, StorageInvariant, PTL

\* The entries of the table are those put and not removed, each once and each
\* found, in every state between calls, also after dropDeletes has cut the list.
THEOREM TableHasOrder ==
    ASSUME FindStops = {Empty}
    PROVE  SieveSpec => []TableIsOrder
<1>1. StorageInv => TableIsOrder
  BY FindsIs, SoundIs DEF StorageInv, IsOrder, TableIsOrder, TableIsSound
<1> QED
  BY <1>1, StorageInvariant, PTL

\* dropDeletes never takes the mark of eraseSrcMapping for a slot: it erases the
\* source of slots behind index only.
THEOREM SourceStaysIndex == SieveSpec => []SourceIsIndex
<1>1. StorageInv => SourceIsIndex
  <2> SUFFICES ASSUME StorageInv, Dropping, metadata[index] = Deleted
               PROVE  mapping[index].src # Erased
    BY DEF SourceIsIndex
  <2>1. mapping[index].src \in Slots \cup {NoSlot} /\ Slots \subseteq Nat
    BY MovesFrom
  <2> QED
    BY <2>1 DEF Erased, NoSlot
<1> QED
  BY <1>1, StorageInvariant, PTL
=============================================================================
