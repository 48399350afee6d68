------------------------------ MODULE ArraySet ------------------------------
(***************************************************************************)
(* androidx.collection.ArraySet: the elements in an array, in the order of *)
(* their hashes, and the hashes in another.  Elements with one hash are a  *)
(* run, which is searched from where the binary search falls.  The arrays  *)
(* grow and shrink with the set.  Behind the elements the hashes are never *)
(* read, and 0 here.                                                       *)
(*                                                                         *)
(* An IndexBasedArrayIterator keeps an index and a size of its own; any    *)
(* change of the set but through it ends its use.                          *)
(***************************************************************************)
EXTENDS ContainerHelpers, FiniteSets, Sequences

CONSTANTS
    Elements,          \* may have Null among them
    Null,              \* what fills the array of elements
    HashOf,            \* the hash of each element, 0 for Null
    BaseSize,          \* ARRAY_SET_BASE_SIZE: 4 in the code
    InitialCapacity,   \* the argument of the constructor
    Capacities,        \* the arguments ensureCapacity is called with
    Others             \* the contents, in order, of sets given to addAll

\* A sequence that an ArraySet may hold.
IsContents(s) ==
    /\ s \in Seq(Elements)
    /\ \A i, j \in 1 .. Len(s) : i < j => HashOf[s[i]] <= HashOf[s[j]] /\ s[i] # s[j]

ASSUME ArraySetAssumption ==
    /\ HashOf \in [Elements -> Int]
    /\ Null \in Elements => HashOf[Null] = 0
    /\ BaseSize \in Nat \ {0}
    /\ InitialCapacity \in Nat /\ Capacities \subseteq Nat
    /\ \A s \in Others : IsContents(s)

VARIABLES
    hashes, array, size,
    it,         \* the iterator in use: its size, index and canRemove
    visited,    \* what it has returned, in order
    toVisit     \* the elements of the set when it was made

fields == <<hashes, array, size>>
iteration == <<it, visited, toVisit>>
vars == <<fields, iteration>>

-----------------------------------------------------------------------------
Capacity == Cardinality(DOMAIN hashes)

Contents == {array[i] : i \in 0 .. size - 1}

\* Mutation of RunAt: only the part of the run after the index.
RunAfter(hash, index) ==
    {j \in index .. size - 1 : \A i \in index .. j : hashes[i] = hash}

\* The indices around index that hold hash.
RunAt(hash, index) ==
    {j \in 0 .. size - 1 : \A i \in (index .. j) \cup (j .. index) : hashes[i] = hash}

\* indexOf: the index of e, or the complement of the end of the run of its
\* hash, where it belongs.
IndexOf(e) ==
    LET hash == HashOf[e]
        index == BinarySearch(hashes, size, hash)
        run == RunAt(hash, index)
        found == {j \in run : array[j] = e}
    IN  IF index < 0 THEN index
        ELSE IF found # {} THEN CHOOSE j \in found : TRUE
        ELSE Inv(index + Cardinality({j \in run : j >= index}))

NoIterator == [on |-> FALSE, size |-> 0, index |-> 0, canRemove |-> FALSE]

\* The set is changed other than through the iterator.
EndIteration ==
    /\ it' = NoIterator
    /\ visited' = <<>>
    /\ toVisit' = {}

\* Mutation of GrownFrom: a half more, also of next to nothing.
GrownByHalf(n) == n + n \div 2

\* The length of the arrays when a full set of n elements takes one more.
GrownFrom(n) ==
    IF n >= 2 * BaseSize THEN n + n \div 2
    ELSE IF n >= BaseSize THEN 2 * BaseSize
    ELSE BaseSize

\* Their length when one of n elements is removed.
ShrunkFrom(n, capacity) ==
    IF capacity > 2 * BaseSize /\ n < capacity \div 3
      THEN IF n > 2 * BaseSize THEN n + n \div 2 ELSE 2 * BaseSize
      ELSE capacity

\* Mutation of Removed: one element too few moves down.
RemovedShort(f, index, n, filler) ==
    [j \in 0 .. n - 1 |-> IF j < index THEN f[j]
                          ELSE IF j < size - 2 THEN f[j + 1]
                          ELSE filler]

\* The elements of f before index and after it, in a length of n.
Removed(f, index, n, filler) ==
    [j \in 0 .. n - 1 |-> IF j < index THEN f[j]
                          ELSE IF j < size - 1 THEN f[j + 1]
                          ELSE filler]

-----------------------------------------------------------------------------
Init ==
    /\ hashes = [i \in 0 .. InitialCapacity - 1 |-> 0]
    /\ array = [i \in 0 .. InitialCapacity - 1 |-> Null]
    /\ size = 0
    /\ it = NoIterator /\ visited = <<>> /\ toVisit = {}

\* Mutation of Add: the place of the element is taken before the run.
AddAtStart(e) ==
    LET n == IF size >= Capacity THEN GrownFrom(size) ELSE Capacity IN
    /\ IndexOf(e) < 0
    /\ hashes' = Inserted(CopyOf(hashes, n, 0), 0, size, HashOf[e])
    /\ array' = Inserted(CopyOf(array, n, Null), 0, size, e)
    /\ size' = size + 1
    /\ EndIteration

\* add of an element that is not in the set; each turn of addAll.
Add(e) ==
    LET index == Inv(IndexOf(e))
        n == IF size >= Capacity THEN GrownFrom(size) ELSE Capacity
    IN
    /\ IndexOf(e) < 0
    /\ hashes' = Inserted(CopyOf(hashes, n, 0), index, size, HashOf[e])
    /\ array' = Inserted(CopyOf(array, n, Null), index, size, e)
    /\ size' = size + 1
    /\ EndIteration

\* ensureCapacity.
EnsureCapacity(n) ==
    /\ Capacity < n
    /\ hashes' = CopyOf(hashes, n, 0)
    /\ array' = CopyOf(array, n, Null)
    /\ UNCHANGED size
    /\ EndIteration

\* addAll of another ArraySet to an empty one copies its arrays.  To a set that
\* is not empty it is ensureCapacity and add for each element.
AddAllToEmpty(s) ==
    LET n == IF Capacity < Len(s) THEN Len(s) ELSE Capacity IN
    /\ size = 0 /\ s # <<>>
    /\ hashes' = [i \in 0 .. n - 1 |-> IF i < Len(s) THEN HashOf[s[i + 1]] ELSE 0]
    /\ array' = [i \in 0 .. n - 1 |-> IF i < Len(s) THEN s[i + 1] ELSE Null]
    /\ size' = Len(s)
    /\ EndIteration

\* clear(): the arrays are dropped.
Clear == hashes' = <<>> /\ array' = <<>> /\ size' = 0

\* The fields after removeAt.
RemoveIndex(index) ==
    LET n == ShrunkFrom(size, Capacity) IN
    IF size <= 1 THEN Clear
    ELSE /\ hashes' = Removed(hashes, index, n, 0)
         /\ array' = Removed(array, index, n, Null)
         /\ size' = size - 1

\* removeAt; each removal of retainAll.
RemoveAt(i) == RemoveIndex(i) /\ EndIteration

\* remove of an element of the set; each removal of removeAll, but for
\* removeAll(Collection) on JS and native, which only calls itself.
Remove(e) == IndexOf(e) >= 0 /\ RemoveIndex(IndexOf(e)) /\ EndIteration

ClearAll == size > 0 /\ Clear /\ EndIteration

\* iterator().
Iterate ==
    /\ it' = [on |-> TRUE, size |-> size, index |-> 0, canRemove |-> FALSE]
    /\ visited' = <<>>
    /\ toVisit' = Contents
    /\ UNCHANGED fields

HasNext == it.index < it.size

\* next() of the iterator.
IteratorNext ==
    /\ it.on
    /\ HasNext
    /\ visited' = Append(visited, array[it.index])
    /\ it' = [it EXCEPT !.index = @ + 1, !.canRemove = TRUE]
    /\ UNCHANGED <<fields, toVisit>>

\* Mutation of IteratorRemove: the index is not taken back.
IteratorRemoveAhead ==
    /\ it.on
    /\ it.canRemove
    /\ RemoveIndex(it.index - 1)
    /\ it' = [it EXCEPT !.size = @ - 1, !.canRemove = FALSE]
    /\ UNCHANGED <<visited, toVisit>>

\* Mutation of IteratorRemove: it may be called twice.
IteratorRemoveTwice ==
    /\ it.on
    /\ it.index > 0
    /\ RemoveIndex(it.index - 1)
    /\ it' = [it EXCEPT !.index = @ - 1, !.size = @ - 1]
    /\ UNCHANGED <<visited, toVisit>>

\* remove() of the iterator.
IteratorRemove ==
    /\ it.on
    /\ it.canRemove
    /\ RemoveIndex(it.index - 1)
    /\ it' = [it EXCEPT !.index = @ - 1, !.size = @ - 1, !.canRemove = FALSE]
    /\ UNCHANGED <<visited, toVisit>>

Call ==
    \/ \E e \in Elements : Add(e) \/ Remove(e)
    \/ \E i \in 0 .. size - 1 : RemoveAt(i)
    \/ \E n \in Capacities : EnsureCapacity(n)
    \/ \E s \in Others : AddAllToEmpty(s)
    \/ ClearAll

Next == Call \/ Iterate \/ IteratorNext \/ IteratorRemove

Spec == Init /\ [][Next]_vars

-----------------------------------------------------------------------------
(* Properties *)

\* The fields have their types, the arrays one length, and the set fits.
TypeOK ==
    LET Places == DOMAIN array IN
    /\ Places = 0 .. Cardinality(Places) - 1
    /\ array \in [Places -> Elements \cup {Null}]
    /\ hashes \in [Places -> Int]
    /\ size \in 0 .. Cardinality(Places)
    /\ it \in [on : BOOLEAN, size : Nat, index : Nat, canRemove : BOOLEAN]
    /\ visited \in Seq(Elements)
    /\ toVisit \subseteq Elements

\* Each element is with its hash, and the hashes ascend: what binary search
\* and the search of runs rely on, after any mix of insertions, removals,
\* growth and shrinking.
HashesAscend ==
    /\ \A i \in 0 .. size - 1 : hashes[i] = HashOf[array[i]]
    /\ \A i \in 1 .. size - 1 : hashes[i - 1] <= hashes[i]

\* An element is found where it is, from wherever in the run of its hash the
\* binary search falls, and is there once.
FindsExactly ==
    /\ \A e \in Elements :
          IF e \in Contents THEN IndexOf(e) >= 0 /\ array[IndexOf(e)] = e
                            ELSE IndexOf(e) < 0
    /\ Cardinality(Contents) = size

\* What has been removed is not kept alive.
ReleasesElements == \A i \in DOMAIN array : i >= size => array[i] = Null

\* Both, after any mix of calls.
ArraysAreSound == HashesAscend /\ ReleasesElements

\* The iterator returns every element that was in the set when it was made,
\* and none twice, whichever of them it has removed on the way.
IteratesEachOnce ==
    LET returned == {visited[i] : i \in DOMAIN visited}
        ahead == {array[i] : i \in it.index .. it.size - 1}
    IN  it.on => /\ toVisit = returned \cup ahead
                 /\ Len(visited) + it.size - it.index = Cardinality(toVisit)

\* It removes the element it returned last.
RemovesReturned ==
    [][IteratorRemove => Contents' = Contents \ {visited[Len(visited)]}]_vars

\* The arrays implement the set.
Set == INSTANCE SetContract WITH contents <- Contents

ImplementsSet == Set!Spec
=============================================================================
