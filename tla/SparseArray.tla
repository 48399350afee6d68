----------------------------- MODULE SparseArray -----------------------------
(***************************************************************************)
(* androidx.collection.SparseArrayCompat: a map in two parallel arrays,    *)
(* keys in ascending order, in which removing only marks the value         *)
(* Deleted.  The arrays are compacted later: when put or append finds them *)
(* full, and at the beginning of every call that uses an index, but for    *)
(* removeAt and removeAtRange.                                             *)
(***************************************************************************)
EXTENDS ContainerHelpers, FiniteSets, Sequences

CONSTANTS
    Keys,             \* no more than an array can hold
    Values,           \* those the caller puts
    Null, Deleted,    \* what fills the array of values, and marks a removal
    InitialCapacity   \* the argument of the constructor

ASSUME SparseAssumption ==
    /\ Keys \subseteq Int
    /\ IsFiniteSet(Keys) /\ Cardinality(Keys) <= LongestArray
    /\ Deleted \notin Values \cup {Null}
    /\ InitialCapacity \in 0 .. LongestArray

VARIABLES
    self,   \* the fields keys, values, garbage and size
    shown   \* the keys, in order, as the last call that compacts left them;
            \* empty once a put may have moved them

vars == <<self, shown>>

-----------------------------------------------------------------------------
Capacity(a) == Cardinality(DOMAIN a.keys)

Live(a) == {i \in 0 .. a.size - 1 : a.values[i] # Deleted}

\* What gc() moves down, in order: the elements of f at the live indices, each
\* to the index that counts the live ones before it.
MovedDown(f, live) ==
    LET From(o) == CHOOSE i \in live : Cardinality({j \in live : j < i}) = o
    IN  [o \in DOMAIN f |-> IF o < Cardinality(live) THEN f[From(o)] ELSE f[o]]

\* The places moved elements leave behind become null.
Vacated(f, live) ==
    [i \in DOMAIN f |-> IF i \in live /\ i >= Cardinality(live) THEN Null ELSE f[i]]

Gc(a) ==
    LET live == Live(a) IN
    [keys    |-> MovedDown(a.keys, live),
     values  |-> Vacated(MovedDown(a.values, live), live),
     garbage |-> FALSE,
     size    |-> Cardinality(live)]

Compacted(a) == IF a.garbage THEN Gc(a) ELSE a

\* put and append compact before they grow.
Full(a) == a.garbage /\ a.size >= Capacity(a)

\* Mutation of Grown: the array of values is forgotten.
GrownKeysOnly(a) ==
    IF a.size < Capacity(a) THEN a
    ELSE [a EXCEPT !.keys = CopyOf(a.keys, IdealIntArraySize(a.size + 1), 0)]

Grown(a) ==
    LET n == IdealIntArraySize(a.size + 1) IN
    IF a.size < Capacity(a) THEN a
    ELSE [a EXCEPT !.keys = CopyOf(a.keys, n, 0), !.values = CopyOf(a.values, n, Null)]

InsertAt(a, i, k, v) ==
    [a EXCEPT !.keys = Inserted(a.keys, i, a.size, k),
              !.values = Inserted(a.values, i, a.size, v),
              !.size = a.size + 1]

\* internalGet with the default null.
Get(a, k) ==
    LET i == BinarySearch(a.keys, a.size, k)
    IN  IF i < 0 \/ a.values[i] = Deleted THEN Null ELSE a.values[i]

\* Mutation of WithPut: the index is not searched for again after gc.
WithPutAtOldIndex(a, k, v) ==
    LET i == BinarySearch(a.keys, a.size, k) IN
    IF i >= 0 THEN [a EXCEPT !.values[i] = v]
    ELSE IF Inv(i) < a.size /\ a.values[Inv(i)] = Deleted
      THEN [a EXCEPT !.keys[Inv(i)] = k, !.values[Inv(i)] = v]
    ELSE IF Full(a) THEN InsertAt(Grown(Gc(a)), Inv(i), k, v)
    ELSE InsertAt(Grown(a), Inv(i), k, v)

\* put: over the value of the key, over a Deleted one where the key belongs,
\* or in between.
WithPut(a, k, v) ==
    LET i == BinarySearch(a.keys, a.size, k) IN
    IF i >= 0 THEN [a EXCEPT !.values[i] = v]
    ELSE IF Inv(i) < a.size /\ a.values[Inv(i)] = Deleted
      THEN [a EXCEPT !.keys[Inv(i)] = k, !.values[Inv(i)] = v]
    ELSE IF Full(a)
      THEN LET b == Gc(a)
           IN  InsertAt(Grown(b), Inv(BinarySearch(b.keys, b.size, k)), k, v)
    ELSE InsertAt(Grown(a), Inv(i), k, v)

\* Mutation of WithAppended: a key that is mapped last is appended again.
WithAppendedAgain(a, k, v) ==
    IF a.size # 0 /\ k < a.keys[a.size - 1] THEN WithPut(a, k, v)
    ELSE LET b == IF Full(a) THEN Gc(a) ELSE a
         IN  InsertAt(Grown(b), b.size, k, v)

\* append.
WithAppended(a, k, v) ==
    IF a.size # 0 /\ k <= a.keys[a.size - 1] THEN WithPut(a, k, v)
    ELSE LET b == IF Full(a) THEN Gc(a) ELSE a
         IN  InsertAt(Grown(b), b.size, k, v)

\* removeAt, and the end of remove: the value is only marked.
WithoutAt(a, i) ==
    IF a.values[i] = Deleted THEN a
    ELSE [a EXCEPT !.values[i] = Deleted, !.garbage = TRUE]

\* The caller has seen the array as it is after compaction.
Shows(b) == shown' = [i \in 1 .. b.size |-> b.keys[i - 1]]

-----------------------------------------------------------------------------
Init ==
    LET n == IF InitialCapacity = 0 THEN 0 ELSE IdealIntArraySize(InitialCapacity) IN
    /\ self = [keys |-> [i \in 0 .. n - 1 |-> 0], values |-> [i \in 0 .. n - 1 |-> Null],
               garbage |-> FALSE, size |-> 0]
    /\ shown = <<>>

\* put; each turn of the loop of putAll.
Put(k, v) == self' = WithPut(self, k, v) /\ shown' = <<>>

PutIfAbsent(k, v) ==
    /\ Get(self, k) = Null
    /\ Put(k, v)

AppendMapping(k, v) == self' = WithAppended(self, k, v) /\ shown' = <<>>

\* remove(key).
Remove(k) ==
    LET i == BinarySearch(self.keys, self.size, k) IN
    /\ i >= 0
    /\ self' = WithoutAt(self, i)
    /\ UNCHANGED shown

\* remove(key, value): indexOfKey compacts first.
RemoveMapped(k, v) ==
    LET b == Compacted(self)
        i == BinarySearch(b.keys, b.size, k)
    IN
    /\ self' = IF i >= 0 /\ b.values[i] = v THEN WithoutAt(b, i) ELSE b
    /\ Shows(b)

\* replace(key, value).
Replace(k, v) ==
    LET b == Compacted(self)
        i == BinarySearch(b.keys, b.size, k)
    IN
    /\ self' = IF i >= 0 THEN [b EXCEPT !.values[i] = v] ELSE b
    /\ Shows(b)

\* replace(key, oldValue, newValue).
ReplaceMapped(k, old, v) ==
    LET b == Compacted(self)
        i == BinarySearch(b.keys, b.size, k)
    IN
    /\ self' = IF i >= 0 /\ b.values[i] = old THEN [b EXCEPT !.values[i] = v] ELSE b
    /\ Shows(b)

\* Mutation of RemoveAt: the arrays are compacted first, as the calls that
\* read at an index do.
RemoveAtCompacted(i) ==
    LET b == Compacted(self) IN
    /\ i < b.size
    /\ self' = WithoutAt(b, i)
    /\ UNCHANGED shown

\* removeAt(index): the arrays are not compacted first.
RemoveAt(i) ==
    /\ i < self.size
    /\ self' = WithoutAt(self, i)
    /\ UNCHANGED shown

\* removeAtRange(index, size): the loop ends at min(size, index + size), in
\* which the parameter size hides the field.
RemoveAtRange(i, n) ==
    LET Removed == {j \in i .. n - 1 : self.values[j] # Deleted} IN
    /\ i + n <= self.size
    /\ self' = [self EXCEPT !.values = [j \in DOMAIN @ |-> IF j \in Removed THEN Deleted ELSE @[j]],
                            !.garbage = @ \/ Removed # {}]
    /\ UNCHANGED shown

SetValueAt(i, v) ==
    LET b == Compacted(self) IN
    /\ i < b.size
    /\ self' = [b EXCEPT !.values[i] = v]
    /\ Shows(b)

\* size, keyAt, valueAt, indexOfKey, indexOfValue and what calls them.
Look == self' = Compacted(self) /\ Shows(Compacted(self))

Clear ==
    /\ self' = [self EXCEPT !.values = [i \in DOMAIN @ |-> IF i < self.size THEN Null ELSE @[i]],
                            !.size = 0, !.garbage = FALSE]
    /\ shown' = <<>>

Indices == 0 .. self.size - 1

Next ==
    \/ \E k \in Keys, v \in Values :
          \/ Put(k, v) \/ PutIfAbsent(k, v) \/ AppendMapping(k, v)
          \/ RemoveMapped(k, v) \/ Replace(k, v)
          \/ \E old \in Values : ReplaceMapped(k, old, v)
    \/ \E k \in Keys : Remove(k)
    \/ \E i \in Indices :
          \/ RemoveAt(i)
          \/ \E n \in 1 .. self.size : RemoveAtRange(i, n)
          \/ \E v \in Values : SetValueAt(i, v)
    \/ Look
    \/ Clear

Spec == Init /\ [][Next]_vars

-----------------------------------------------------------------------------
(* Properties *)

\* The fields have their types and the arrays the same length.
TypeOK ==
    LET Places == DOMAIN self.keys IN
    /\ Places = 0 .. Cardinality(Places) - 1
    /\ self.keys \in [Places -> Int]
    /\ self.values \in [Places -> Values \cup {Null, Deleted}]
    /\ self.garbage \in BOOLEAN
    /\ self.size \in 0 .. Cardinality(Places)
    /\ shown \in Seq(Keys)

\* The mappings the arrays stand for.
Contents == {<<self.keys[i], self.values[i]>> : i \in Live(self)}

\* The keys ascend strictly, the removed ones included, which the binary
\* search relies on: through put into a Deleted place, append behind a removed
\* key, compaction and growth.
KeysAscend == \A i \in 1 .. self.size - 1 : self.keys[i - 1] < self.keys[i]

\* get finds what is mapped and nothing else.
FindsExactly ==
    \A k \in Keys :
       LET mapped == {m \in Contents : m[1] = k}
       IN  IF mapped = {} THEN Get(self, k) = Null ELSE mapped = {<<k, Get(self, k)>>}

\* What is removed is compacted before any call reads at an index, so that no
\* such call returns the mark.
RemovedIsGarbage == Cardinality(Live(self)) < self.size => self.garbage

\* Behind the mappings no value is kept alive that was removed or moved.
ReleasesValues ==
    \A i \in DOMAIN self.values : i >= self.size => self.values[i] \in {Null, Deleted}

\* The three together, after any mix of calls.
ArraysAreSound == KeysAscend /\ RemovedIsGarbage /\ ReleasesValues

\* "Removes the mapping at the specified index" (88): a caller that has looked
\* at the indices may remove at several of them, and by key, one after the
\* other: each index still means the key it was seen with.
RemovesShown ==
    [][\A i \in Indices : RemoveAt(i) /\ i < Len(shown)
          => Contents' = {m \in Contents : m[1] # shown[i + 1]}]_vars

\* "Remove a range of mappings as a batch. index Index to begin at, size
\* Number of mappings to remove" (91-95), when no removal is pending.
RangeIsRemoved ==
    [][\A i \in Indices, n \in 1 .. self.size :
          RemoveAtRange(i, n) /\ ~self.garbage
             => Cardinality(Contents') = Cardinality(Contents) - n]_vars

\* The arrays implement the map.
Map == INSTANCE MapContract WITH contents <- Contents

ImplementsMap == Map!Spec
=============================================================================
