----------------------------- MODULE SieveCache -----------------------------
(***************************************************************************)
(* androidx.collection.SieveCache: the doubly-linked list of nodes, its    *)
(* hand and the eviction loop, over a hash table of which only the         *)
(* occupancy is kept (SieveStorage has the table itself).  A node is named *)
(* by its key instead of by the slot the key is in; count is the number of *)
(* entries; the table reuses a removed slot or takes an empty one, as the  *)
(* hashes have it.  Which links a clean-up of the table in place loses is  *)
(* decided by the hashes too, and is any choice here.                      *)
(*                                                                         *)
(* The list may be left broken by such a clean-up, and the calls go on     *)
(* with it.  The naming by keys ends where a removal leaves a link to the  *)
(* slot of the entry it has removed: then the list is torn, and what later *)
(* calls do with a link to a slot that is free, or reused by another key,  *)
(* is not modelled.                                                        *)
(*                                                                         *)
(* A call is one action up to its first callback; each turn of the loops   *)
(* of trimToSize and findEvictionCandidate is an action of its own.        *)
(***************************************************************************)
EXTENDS Integers, FiniteSets, Functions

CONSTANTS
    Keys, NoKey,
    Values, NoValue,
    SizeOf,            \* sizeOf: the size of each value
    InitialMaxSize,    \* the constructor's argument
    MaxSizes,          \* the arguments resize is called with
    InitialCapacity,   \* the capacity the constructor gives the table
    CapacityBound      \* bounds the capacity the table grows to

IsCapacity(c) == c \in {0} \cup {2 ^ i - 1 : i \in 3 .. 30}

ASSUME SieveAssumption ==
    /\ NoKey \notin Keys
    /\ NoValue \notin Values
    /\ SizeOf \in [Values -> Nat]
    /\ InitialMaxSize \in Nat \ {0}
    /\ MaxSizes \subseteq Nat \ {0}
    /\ IsCapacity(InitialCapacity)
    /\ CapacityBound \in 0 .. 2 ^ 30 - 1

VARIABLES
    entries,                    \* the value of each key, or NoValue
    nodes, head, tail, hand,    \* the list
    size, maxSize,
    capacity, growthLimit,
    tombstones,                 \* the number of Deleted slots
    pc, limit, candidate, linking,
    unspared,                   \* keys read since the hand last passed them
    broken                      \* a clean-up of the table has lost links

list == <<nodes, head, tail, hand>>
table == <<capacity, growthLimit, tombstones>>
call == <<pc, limit, candidate, linking>>
history == <<unspared, broken>>
vars == <<entries, list, size, maxSize, table, call, history>>

-----------------------------------------------------------------------------
Present == {k \in Keys : entries[k] # NoValue}

SizeOfEntry(k) == IF k \in Present THEN SizeOf[entries[k]] ELSE 0

EmptyNode == [prev |-> NoKey, next |-> NoKey, visited |-> FALSE]

\* Mutation of LoadedCapacity: a table of 7 slots may be filled.
LoadedCapacityOfAll(c) == c - c \div 8

LoadedCapacity(c) == IF c = 7 THEN 6 ELSE c - c \div 8

\* Mutation of NextCapacity: the capacity is not of the form 2^n - 1.
NextCapacityEven(c) == IF c = 0 THEN 7 ELSE 2 * c

\* nextCapacity and normalizeCapacity of initializeStorage.
NextCapacity(c) == IF c = 0 THEN 7 ELSE 2 * c + 1

\* adjustStorage drops the Deleted slots in place instead of growing.
DropsDeletes == capacity > 8 /\ Cardinality(Present) * 32 <= capacity * 25

\* fixupNodes after resizeStorage: createLinks shifts (node and NodeMetaMask)
\* out together with the previous link, so that every node loses its visited
\* bit.
Unvisited(ns) == [k \in Keys |-> [ns[k] EXCEPT !.visited = FALSE]]

\* fixupNodes after dropDeletes, whose mapping has no destination for the slots
\* the entries of lost were in.
Kept(link, lost) == IF link \in lost THEN NoKey ELSE link

Patched(ns, lost) ==
    [k \in Keys |-> [prev |-> Kept(ns[k].prev, lost),
                     next |-> Kept(ns[k].next, lost),
                     visited |-> FALSE]]

-----------------------------------------------------------------------------
Init ==
    /\ entries = [k \in Keys |-> NoValue]
    /\ nodes = [k \in Keys |-> EmptyNode]
    /\ head = NoKey /\ tail = NoKey /\ hand = NoKey
    /\ size = 0
    /\ maxSize = InitialMaxSize
    /\ capacity = InitialCapacity
    /\ growthLimit = LoadedCapacity(InitialCapacity)
    /\ tombstones = 0
    /\ pc = "idle" /\ limit = 0 /\ candidate = NoKey /\ linking = NoKey
    /\ unspared = {} /\ broken = FALSE

\* trimToSize(max) is entered; a new key is linked when it returns.
StartTrim(max, key) ==
    /\ pc' = "trim" /\ limit' = max /\ linking' = key
    /\ UNCHANGED candidate

\* get of a present key: markNodeVisited.
GetHit(k) ==
    /\ pc = "idle"
    /\ k \in Present
    /\ nodes' = [nodes EXCEPT ![k].visited = TRUE]
    /\ unspared' = unspared \cup {k}
    /\ UNCHANGED <<entries, head, tail, hand, size, maxSize, table, call, broken>>

\* Mutation of Replace: the size of the value replaced is kept.
ReplaceWithoutSubtracting(k, v) ==
    /\ pc = "idle"
    /\ k \in Present
    /\ entries' = [entries EXCEPT ![k] = v]
    /\ size' = size + SizeOf[v]
    /\ StartTrim(maxSize, NoKey)
    /\ UNCHANGED <<list, maxSize, table, history>>

\* Mutation of Replace: only a new key is followed by trimToSize.
ReplaceWithoutTrim(k, v) ==
    /\ pc = "idle"
    /\ k \in Present
    /\ entries' = [entries EXCEPT ![k] = v]
    /\ size' = size + SizeOf[v] - SizeOfEntry(k)
    /\ UNCHANGED <<list, maxSize, table, call, history>>

\* put of a present key.
Replace(k, v) ==
    /\ pc = "idle"
    /\ k \in Present
    /\ entries' = [entries EXCEPT ![k] = v]
    /\ size' = size + SizeOf[v] - SizeOfEntry(k)
    /\ StartTrim(maxSize, NoKey)
    /\ UNCHANGED <<list, maxSize, table, history>>

\* The part of put of a new key, or of get whose value is created, up to
\* trimToSize; the callers differ in the way the table makes room for the key.
AddEntry(k, v) ==
    /\ pc = "idle"
    /\ k \notin Present
    /\ entries' = [entries EXCEPT ![k] = v]
    /\ size' = size + SizeOf[v]
    /\ StartTrim(maxSize, k)
    /\ UNCHANGED maxSize

\* findInsertIndex found a Deleted slot first.
InsertInTombstone(k, v) ==
    /\ tombstones > 0
    /\ tombstones' = tombstones - 1
    /\ AddEntry(k, v)
    /\ UNCHANGED <<capacity, growthLimit, list, history>>

\* It found an Empty slot first, and the table may take it.
InsertInEmpty(k, v) ==
    /\ growthLimit > 0
    /\ growthLimit' = growthLimit - 1
    /\ AddEntry(k, v)
    /\ UNCHANGED <<capacity, tombstones, list, history>>

\* It found an Empty slot first and the table must be rebuilt: adjustStorage.
RebuildTable(c) ==
    /\ growthLimit = 0
    /\ capacity' = c
    /\ growthLimit' = LoadedCapacity(c) - Cardinality(Present) - 1
    /\ tombstones' = 0

\* resizeStorage maps every slot, so that the links go with the entries.
InsertAfterGrowth(k, v) ==
    /\ ~DropsDeletes
    /\ NextCapacity(capacity) <= CapacityBound
    /\ RebuildTable(NextCapacity(capacity))
    /\ nodes' = Unvisited(nodes)
    /\ AddEntry(k, v)
    /\ UNCHANGED <<head, tail, hand, history>>

\* dropDeletes overwrites the destination of a slot an entry has left when it
\* moves another entry there; the slot the last one left is not taken again.
InsertAfterCleanup(k, v, lost) ==
    /\ DropsDeletes
    /\ RebuildTable(capacity)
    /\ nodes' = Patched(nodes, lost)
    /\ head' = Kept(head, lost)
    /\ tail' = Kept(tail, lost)
    /\ hand' = Kept(hand, lost)
    /\ broken' = (broken \/ lost # {})
    /\ AddEntry(k, v)
    /\ UNCHANGED unspared

\* The entries whose links a clean-up may lose.
Losses == {lost \in SUBSET Present : lost = {} \/ lost # Present}

\* removeNode.
UnlinkNode(ns, k) ==
    LET prev == ns[k].prev
        next == ns[k].next
        n1   == IF prev = NoKey THEN ns ELSE [ns EXCEPT ![prev].next = next]
        n2   == IF next = NoKey THEN n1 ELSE [n1 EXCEPT ![next].prev = prev]
    IN  [n2 EXCEPT ![k] = EmptyNode]

\* Mutation of HandAfter: the hand stays on the removed entry.
HandKept(h, k) == h

HandAfter(h, k) == IF h = k THEN nodes[k].prev ELSE h

\* removeValueAt of k, when the hand is at h.
RemoveValue(k, h) ==
    /\ entries' = [entries EXCEPT ![k] = NoValue]
    /\ size' = size - SizeOfEntry(k)
    /\ tombstones' = tombstones + 1
    /\ nodes' = UnlinkNode(nodes, k)
    /\ head' = IF nodes[k].prev = NoKey THEN nodes[k].next ELSE head
    /\ tail' = IF nodes[k].next = NoKey THEN nodes[k].prev ELSE tail
    /\ hand' = HandAfter(h, k)
    /\ unspared' = unspared \ {k}
    /\ UNCHANGED <<maxSize, capacity, growthLimit, broken>>

\* After the removal of k something still links to its slot.
LeftLinked(k) ==
    \/ k \in {head', tail', hand'}
    \/ \E j \in Keys : k \in {nodes'[j].prev, nodes'[j].next}

\* remove(key), and each removal of removeIf and of remove(key, value).
Remove(k) ==
    /\ pc = "idle"
    /\ k \in Present
    /\ RemoveValue(k, hand)
    /\ pc' = IF LeftLinked(k) THEN "torn" ELSE "idle"
    /\ UNCHANGED <<limit, candidate, linking>>

Resize(n) ==
    /\ pc = "idle"
    /\ maxSize' = n
    /\ StartTrim(n, NoKey)
    /\ UNCHANGED <<entries, list, size, table, history>>

\* A call of trimToSize; evictAll is trimToSize(-1).
TrimToSize(n) ==
    /\ pc = "idle"
    /\ StartTrim(n, NoKey)
    /\ UNCHANGED <<entries, list, size, maxSize, table, history>>

\* Mutation of MoveNodeToHead: the head is not told its new neighbour.
MoveNodeToHeadOnly(k) ==
    /\ nodes' = [nodes EXCEPT ![k] = [EmptyNode EXCEPT !.next = head]]
    /\ head' = k
    /\ tail' = IF tail = NoKey THEN k ELSE tail

\* Mutation of MoveNodeToHead: the first node does not become the tail.
MoveNodeToHeadWithoutTail(k) ==
    LET linked == [nodes EXCEPT ![k] = [EmptyNode EXCEPT !.next = head]] IN
    /\ nodes' = IF head = NoKey THEN linked ELSE [linked EXCEPT ![head].prev = k]
    /\ head' = k
    /\ UNCHANGED tail

MoveNodeToHead(k) ==
    LET linked == [nodes EXCEPT ![k] = [EmptyNode EXCEPT !.next = head]] IN
    /\ nodes' = IF head = NoKey THEN linked ELSE [linked EXCEPT ![head].prev = k]
    /\ head' = k
    /\ tail' = IF tail = NoKey THEN k ELSE tail

\* Mutation of TrimDone: an entry of size 0 is not evicted by evictAll.
TrimDoneAtZero == size <= limit \/ size = 0

TrimDone == size <= limit \/ Present = {}

\* trimToSize returns; put links its new entry.
TrimReturns ==
    /\ pc = "trim"
    /\ TrimDone
    /\ pc' = "idle" /\ limit' = 0 /\ linking' = NoKey
    /\ IF linking = NoKey THEN UNCHANGED <<nodes, head, tail>> ELSE MoveNodeToHead(linking)
    /\ UNCHANGED <<entries, hand, size, maxSize, table, candidate, history>>

\* findEvictionCandidate starts at the hand, or at the tail.
Search ==
    /\ pc = "trim"
    /\ ~TrimDone
    /\ pc' = "scan"
    /\ candidate' = IF hand # NoKey THEN hand ELSE tail
    /\ UNCHANGED <<entries, list, size, maxSize, table, limit, linking, history>>

\* Mutation of Spare: the visited bit stays set.
SpareForever ==
    LET previous == nodes[candidate].prev IN
    /\ pc = "scan"
    /\ candidate # NoKey
    /\ nodes[candidate].visited
    /\ candidate' = IF previous # NoKey THEN previous ELSE tail
    /\ UNCHANGED <<entries, list, size, maxSize, table, pc, limit, linking, history>>

\* The candidate was visited: it is spared once.
Spare ==
    LET previous == nodes[candidate].prev IN
    /\ pc = "scan"
    /\ candidate # NoKey
    /\ nodes[candidate].visited
    /\ nodes' = [nodes EXCEPT ![candidate].visited = FALSE]
    /\ unspared' = unspared \ {candidate}
    /\ candidate' = IF previous # NoKey THEN previous ELSE tail
    /\ UNCHANGED <<entries, head, tail, hand, size, maxSize, table, pc, limit, linking, broken>>

\* The candidate was not visited: the hand moves past it and it is removed.
Evict ==
    /\ pc = "scan"
    /\ candidate # NoKey
    /\ ~nodes[candidate].visited
    /\ RemoveValue(candidate, nodes[candidate].prev)
    /\ pc' = IF LeftLinked(candidate) THEN "torn" ELSE "trim"
    /\ candidate' = NoKey
    /\ UNCHANGED <<limit, linking>>

\* The list is empty, or its tail is lost: nodes[NodeInvalidLink] is out of bounds, the call ends
\* and a new entry stays in the table without a place in the list.  Later calls
\* on such a cache are not modelled.
ScanFails ==
    /\ pc = "scan"
    /\ candidate = NoKey
    /\ pc' = "crashed"
    /\ UNCHANGED <<entries, list, size, maxSize, table, limit, candidate, linking, history>>

-----------------------------------------------------------------------------
Call ==
    \/ \E k \in Keys :
          \/ GetHit(k)
          \/ Remove(k)
          \/ \E v \in Values : \/ Replace(k, v)
                               \/ InsertInTombstone(k, v)
                               \/ InsertInEmpty(k, v)
                               \/ InsertAfterGrowth(k, v)
                               \/ \E lost \in Losses : InsertAfterCleanup(k, v, lost)
    \/ \E n \in MaxSizes : Resize(n)
    \/ \E n \in MaxSizes \cup {-1} : TrimToSize(n)

Trim == TrimReturns \/ Search \/ Spare \/ Evict \/ ScanFails

Next == Call \/ Trim

Spec == Init /\ [][Next]_vars

\* A call that has begun runs on.
FairSpec == Spec /\ WF_vars(Trim)

-----------------------------------------------------------------------------
(* Properties *)

Nodes == [prev : Keys \cup {NoKey}, next : Keys \cup {NoKey}, visited : BOOLEAN]

\* The types of the fields and of the locals of the call in progress.
TypeOK ==
    /\ entries \in [Keys -> Values \cup {NoValue}]
    /\ nodes \in [Keys -> Nodes]
    /\ {head, tail, hand, candidate, linking} \subseteq Keys \cup {NoKey}
    /\ size \in Int
    /\ maxSize \in MaxSizes \cup {InitialMaxSize}
    /\ IsCapacity(capacity)
    /\ growthLimit \in Nat /\ tombstones \in Nat
    /\ pc \in {"idle", "trim", "scan", "crashed", "torn"}
    /\ limit \in Int
    /\ unspared \subseteq Keys
    /\ broken \in BOOLEAN

\* The table accounts for every slot it has handed out, and keeps at least one
\* Empty slot, on which every probe for a missing key ends.
TableHasRoom ==
    /\ growthLimit + Cardinality(Present) + tombstones = LoadedCapacity(capacity)
    /\ capacity > 0 => Cardinality(Present) + tombstones < capacity

\* The units of size of the entries, an entry of size n having n of them.
Units == UNION {{k} \X (1 .. SizeOfEntry(k)) : k \in Present}

\* size is the sum of the sizes of the entries, also in the middle of a trim
\* and after a call that failed.
SizeIsSum == size = Cardinality(Units)

\* The entries in the list: all but the one put is about to link.
Listed == Present \ {linking}

\* The sequences of keys without repetitions.
Orders == UNION {Bijection(1 .. Cardinality(S), S) : S \in SUBSET Keys}

\* The list is q, head first, and can be walked both ways.
Linked(q) ==
    LET n == Cardinality(Listed) IN
    /\ Range(q) = Listed
    /\ head = IF n = 0 THEN NoKey ELSE q[1]
    /\ tail = IF n = 0 THEN NoKey ELSE q[n]
    /\ \A i \in 1 .. n :
          /\ nodes[q[i]].prev = IF i = 1 THEN NoKey ELSE q[i - 1]
          /\ nodes[q[i]].next = IF i = n THEN NoKey ELSE q[i + 1]

Queue == CHOOSE q \in Orders : Linked(q)

\* As long as no clean-up of the table has lost links, the list is acyclic,
\* holds exactly the entries of the table but the one put is about to link, can
\* be walked both ways between head and tail, and the hand is on it.
ListIsSound ==
    ~broken => /\ \E q \in Orders : Linked(q)
               /\ hand \in Listed \cup {NoKey}

\* A call leaves the cache within its maximum.
WithinMaxWhenIdle == pc = "idle" => size <= maxSize

\* evictAll empties the cache, entries of size 0 included.
EvictAllEmpties ==
    [][pc = "trim" /\ limit = -1 /\ pc' = "idle" => Present' = {}]_vars

\* As long as no clean-up of the table has lost links, there is an entry to
\* evict while the cache is too large, and the search for one never runs off the
\* list, but in the put of a value larger than maxSize, when every other entry
\* has been evicted; and no removal leaves a link to what it has removed.
OnlyOversizedFails ==
    ~broken => /\ pc = "crashed" => linking # NoKey /\ SizeOfEntry(linking) > maxSize
               /\ pc # "torn"

\* "reading a value using get prevents that entry from becoming an eviction
\* candidate" (55-56): an entry that was read is evicted only after the hand
\* has passed it once.
ReadIsSpared ==
    [][\A k \in Keys : k \in unspared /\ pc = "scan" /\ entries'[k] = NoValue
                          => entries[k] = NoValue]_vars

\* The loops of trimToSize and findEvictionCandidate end, by returning or by
\* failing, although the scan wraps around, entries of size 0 free nothing and a
\* clean-up may have broken the list; only an eviction that tears it is not
\* followed any further.
TrimEnds == pc \in {"trim", "scan"} ~> pc \notin {"trim", "scan"}

\* The linked nodes implement the queue of the SIEVE policy.
Policy == INSTANCE SieveQueue WITH
    queue <- Queue,
    visited <- {k \in Keys : nodes[k].visited}

\* The steps at which the code leaves the policy: the put that rebuilds the
\* table forgets what was read, and keeps the order and the hand.
ForgetsVisits ==
    /\ growthLimit = 0
    /\ \E k \in Keys \ Present : entries'[k] # NoValue
    /\ Policy!Forget

\* As long as no clean-up of the table has lost links, every insertion, hit,
\* removal and turn of the search is the one of the SIEVE policy (44-57), but
\* for the visits that a rebuild forgets.
FollowsPolicy ==
    /\ Policy!Init
    /\ [][~broken' => \/ Policy!Next
                      \/ ForgetsVisits
                      \/ UNCHANGED Policy!vars]_vars
=============================================================================
