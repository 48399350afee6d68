# androidx.collection in TLA+

Specifications of the collections in `src/commonMain/kotlin/androidx/collection`
of this repository (a Kotlin Multiplatform build of `androidx.collection` with
QuickJS builtins for the JS target): modules, model-checked instances and
machine-checked proofs.  Paths below are relative to the repository's source
root; line numbers refer to the files as they are there.

Contents

1. The system: components, state, operations, interactions
2. Which module models what
3. What the runs check and show
4. Bounds, fairness
5. Proofs
6. What disagrees with the documentation
7. What is not modelled
8. Plan

## 1. The system

| Component | State | Operations | What makes it correct |
|---|---|---|---|
| `LruCache` | a map in access order, `size`, `maxSize`, five counters, a lock | `get` (with `create`), `put`, `remove`, `resize`, `trimToSize`, `evictAll` | back within `maxSize` when all calls have returned; `size` is the sum of the sizes; each value that leaves is reported once by `entryRemoved`; every call returns, unless other threads fill the cache for ever |
| `LruHashMap` | entries in access order (a `LinkedHashMap` on the JVM, two Kotlin maps elsewhere) | `get` (moves to the end), `put`, `remove`, `entries` | the first entry is the least recently used one |
| `Lock` | a platform mutex | `synchronized` | mutual exclusion |
| `SieveCache` | a flat hash table, a doubly-linked list through its slots (packed in a `LongArray`), `head`, `tail`, `hand`, visited bits, `_size`, `_count`, `maxSize` | `get`, `put`, `remove`, `removeIf`, `resize`, `trimToSize`, `evictAll` | the list holds exactly the entries, in both directions, and the SIEVE policy (until a clean-up of the table loses links, see 6); within `maxSize` after each call; every scan ends |
| Scatter tables: `IntSet`, `ScatterSet`, `ScatterMap`, `OrderedScatterSet`, the maps and sets generated for primitive types | metadata bytes (Empty, Deleted, 7 hash bits, Sentinel, a copy of the first bytes), slots, `growthLimit`, `_size` | add, remove, contains, clear, trim; inside: `adjustStorage`, `dropDeletes`, `resizeStorage` | finds exactly what is in it after any sequence of calls; every probe ends; nothing is lost or doubled when the storage is rebuilt |
| `CollectionIntrinsics` | none of its own: it works on the arrays of the table | find, find-slot, remove for `IntSet`, `ScatterSet`, `ScatterMap`, `IntObjectMap`; Kotlin on JVM and native, C++ (`native-test/IntSetBuiltins.cpp`) under QuickJS | the same answers on every platform |
| `SparseArrayCompat`, `LongSparseArray` | sorted keys, values some of which are `DELETED`, `garbage`, `size` | `put`, `append`, `remove`, `removeAt`, `removeAtRange`, index-based reads, which compact (`gc`) | a sorted map; indices mean what the last compaction made them mean |
| `SimpleArrayMap`, `ArrayMap`, `ArraySet` | sorted hashes, a parallel array of keys and values | `put`, `remove`, `removeAt`, index-based reads, iterators | runs of equal hashes stay findable; iterators remove what they returned |
| `CircularArray`, `CircularIntArray` | a power-of-two ring, `head`, `tail` | add and pop at both ends, remove ranges | a deque; never full, so that `head == tail` means empty |
| `ObjectList`, `IntList`, `LongList`, `FloatList`, `DoubleList` | an array and its used length | list operations; `ObjectList` also sub-lists and list iterators | views keep their bounds |
| Pairs, packed values, exceptions, templates, scripts | none | | |

Interactions.  `LruCache` calls `LruHashMap` inside its lock and the user's
`create`, `entryRemoved` and `sizeOf` (the first two outside the lock).
`SieveCache` calls the user's three callbacks in the middle of its calls.  The
tables share `group`, `writeMetadata`, `convertMetadataForCleanup` and the
capacity functions of `ScatterMap.kt`, and delegate their searches to the
intrinsics of the platform.  The views (`asMap`, `asMutableSet`, ...) and the
iterators work on the fields of the collection they wrap.

What is hard here:

* `LruCache` is the one class meant for several threads.  Each method takes the
  lock more than once, calls the user in between, and reads the field `maxSize`
  without the lock to hand it to `trimToSize`.
* `SieveCache.put` enters its entry into the table before it trims and into the
  list afterwards: everything in between sees an entry that is in one and not in
  the other.  Links are slots, and growing and `dropDeletes` move the slots.
* The tables live on an accounting of tombstones, on copies of the first bytes
  that one operation writes and another leaves stale, and on a loop that
  permutes the entries in place.
* The same search is written three times (Kotlin twice, C++ once).
* Deferred compaction, wrapping indices and iterators that keep an index into
  something that shrinks.

Nothing is persisted and nothing is sent: there are no crashes to recover from,
no messages, no timeouts.  `PROJECT.json` lists the hazards one by one, each at
its line, with the properties that would catch it.

## 2. Modules

    LruHashMap <- LruCache <- MCLruCache          SetContract
                  |      ^                            ^ (INSTANCE)
           CacheContract LruCacheProofs           ScatterTable <- MCScatterTable
              (INSTANCE)                           ^        ^
                                          SieveStorage   ScatterTableProofs
                                           ^        ^         ^
                                MCSieveStorage   SieveStorageProofs

    SieveQueue <- SieveCache <- MCSieveCache
        (INSTANCE)    ^
               SieveCacheProofs

    ContainerHelpers <- SparseArray <- MCSparseArray    Deque <- CircularArray
               ^        |    ^                         (INSTANCE)     ^
               |  MapContract SparseArrayProofs             CircularArrayProofs
               |  (INSTANCE)
           ArraySet <- MCArraySet
             |   ^
    SetContract ArraySetProofs
    (INSTANCE)

`ProofFacts`, on `ContainerHelpers`, has the lemmas that the proof modules share;
`LruCacheProofs`, `SieveCacheProofs`, `ScatterTableProofs`, `SparseArrayProofs` and
`ArraySetProofs` extend it.

**LruHashMap** has the operators of the map: a sequence of entries, the eldest
first, `Lookup`, `Touched` (what `get` leaves), `With`, `Without`, `Eldest`.

**LruCache** models the concurrent cache.  A `lock.synchronized` block is one
action: `Resize`, `GetHit`, `GetMiss`, `CreateKept` or `CreateConflict` (the second block
of `get`), `Put`, `Remove`, `TrimEvicts`, `TrimReturns` or `TrimFails` (one turn of the
loop of `trimToSize`).  What happens
between two blocks is the thread's `frame`: in `create`, about to call
`entryRemoved`, about to read `maxSize`, or trimming to a limit.  The unlocked
read of `maxSize` is a data race with `resize`; it returns any value the field
has had since the reader's last locked block (`seen`).  Exceptions of
`safeSizeOf` and of the check in `trimToSize` end the call with the fields as
they are then, and are recorded in `faults`; `size` is an `Int` of width
`IntMax`.  A callback that calls the cache is a call of another member of
`Threads`, because nothing is locked while a callback runs.  The values are tokens, each
handed in once; `MCLruCache` adds the owner's `HandBack`, which makes a value that
`entryRemoved` was called with one to hand in anew, so that threads can fill the cache for
ever (`RefillSpec`).

**CacheContract** is what the owner of the values is promised: a value is in the
cache, on its way out, or gone; a value that leaves is given to `entryRemoved`
once and only after it left, before the owner hands it in again (`Reuse`).  `Spec` is its safety part, `FairSpec` adds that what is on
its way out does get there.

**SieveCache** models `SieveCache` with the list as links from entry to entry and
the table as counts of Empty and Deleted slots (growing, rebuilding, reuse of
tombstones are choices of `InsertInEmpty`, `InsertInTombstone`,
`InsertAfterGrowth`, `InsertAfterCleanup`).  A put is the actions `AddEntry` or `Replace`,
then the turns of the scan (`Spare`, `Evict`) and `TrimReturns`, which links the entry.
`createLinks` is modelled as it computes: the meta bits do not survive a
rebuild.  A clean-up in place loses the links, `head`, `tail` or `hand` to any set of entries but
all of them (`lost`): which ones the code loses is decided by the hashes, which are
not here (`SieveStorage` has them).  From then on `broken` holds, and the calls
go on with the links there are: a scan may run off the list (`ScanFails`, `pc = "crashed"`), and
a removal may leave a link to the slot it has freed (`LeftLinked`, `pc = "torn"`), where the
naming of slots by keys ends and the behaviour is not followed further.  Until then
everything the code does with a broken list is in the model.  **SieveQueue** is the
policy: a queue, a visited set and a hand.  Its `Forget` is no step of the policy; it says
what the code's one departure does.

**ScatterTable** models the table of `MutableIntSet` byte by byte: the metadata
with the sentinel and the copies, groups read at any offset, triangular
probing, the exact formulas of the capacities.  A call is one action; each turn
of the loop of `dropDeletes` is an action of its own.  Two constants stand for
the platform: `FindStops`, the bytes at which its find gives up, and `Mirrors`,
whether its remove writes the copy.  `resizeStorage` goes through the old slots in their
order: `Placed(n, k)` is the new table after `k` of them, `Place` one turn of the loop.
**SetContract** is the set it implements.

**SieveStorage** extends `ScatterTable` with the links of `SieveCache` as slots,
the index mapping of `dropDeletes` and the two `fixupNodes`.  `order`, which is no variable of
the code, is what the list should be: the entries, the latest put first.

**ContainerHelpers** has the binary search, the array lengths, copying and
insertion in an array, as operators on functions from `0 .. n - 1`.  The loop of the
search is a recursive function of the number of turns (`Narrowed`): after as many turns
as there are elements it is over.  Array lengths stop at `LongestArray`, the last need
whose bytes `idealIntArraySize` can count in an Int.

**SparseArray** models `SparseArrayCompat`: `self` is the record of its fields, and
every operation that writes is an action, the compaction it begins with included
(`Look` is any call that compacts and then only reads).  `gc` is modelled by what
its loop leaves: the live element with `o` live ones before it is at `o`, and where one was
moved from behind the new size is null; the marks there stay.  The variable `shown` is
what a caller knows: the keys in the order of the last call that compacted, until a
put may have moved them.  **MapContract** is the map it implements: a put is exact, while
`Erase` lets any mappings go in one step, so that what a removal takes out is checked by
`FindsExactly` and `RemovesShown` more than by the refinement.

**CircularArray** models the ring with its masked indices; `Added` is the end of an
add, with the doubling when the ends have met and its failure at `MaxCapacity`.
**Deque** is the deque it implements.  It says of a failed add what the code leaves:
`head = tail`, an empty deque (`Overflow`).  The contract has that loss, it does not refute it.

**ArraySet** models the elements with their sorted hashes, the search of the run
around the index the binary search falls on, growth and shrinking, and the
`IndexBasedArrayIterator` with its own `size` and `index`.  `visited` and `toVisit`
record what the iterator has returned and what there was to return; any other change
of the set ends its use.  `SetContract` is the set it implements, too.

The operators whose comment begins with "Mutation of" change one definition each
the way a slip in the code would; no specification uses them.  They are there to
show that each property can fail: with that definition put in place, TLC finds
the property violated.

## 3. Runs

| Run | Question | Answer |
|---|---|---|
| `lru_threads` | three threads, two keys, every interleaving of locked blocks and racy reads, a negative `sizeOf`, sums that overflow | a cache over its maximum always has a call under way that will trim it (`NeverLeftOverMax`); within the maximum when quiet; the counters agree with the callbacks; `size` stays the sum modulo 2^w after every exception; "inconsistent results" is thrown only when a sum has overflowed |
| `lru_contract` | with legal sizes and threads that may fill the cache for ever: do calls return, does the cache come back, is every value accounted for | a call returns unless another thread goes on filling for ever: a trim may chase it, as TLC finds when that is left out of `CallsReturn`; the cache is within its maximum again and again; `LruCache` refines `CacheContract`, the fairness part included |
| `sieve_cache` | through growth, rebuilds, clean-ups that lose any links, eviction, removal under the hand: is the list sound and the size right; when does a call fail; does it follow the queue, do scans end, does `evictAll` empty | always: the size and the account of the table are right, a call that returns leaves the cache within its maximum (`evictAll`: empty), scans end, if only by failing. Until a clean-up has lost a link: the list is sound (`ListIsSound`), only the put of a value that alone is over the maximum fails (`OnlyOversizedFails`), and the steps are those of the queue, but that a rebuild unmarks all (`FollowsPolicy`) |
| `sieve_forgets` | is an entry that was read spared once, in a table that grows | no: the visited bits are lost |
| `sieve_storage` | do growing and `dropDeletes` keep links and entries | growing does; `dropDeletes` keeps the entries |
| `sieve_cleanup` | does `dropDeletes` keep the links, at the real group width | no |
| `scatter_table` | adds, removals, growth, clean-up, clear, trim | the table finds exactly what is stored, keeps its accounting and its copies (`TableIsSound`), never runs out of Empty bytes, settles each element once in a clean-up, implements the set |
| `scatter_js` | the search of the QuickJS builtins | misses elements behind a tombstone |
| `sparse_map` | any mix of put, append, removals by key and index, replacement and compacting reads | the keys ascend, get finds exactly what is mapped, the arrays refine the map, no removed value is kept alive, an index means the key it was seen with (`RemovesShown`) |
| `sparse_range` | does `removeAtRange` remove as many mappings as it is told | no |
| `circular_array` | the ring at every capacity and every position of the head | holds exactly its elements and refines the deque |
| `array_set` | runs of equal hashes, null, growth, shrinking, the iterator removing on its way | every element is found and nothing else, the iterator returns each once and removes what it returned, the arrays refine the set |

## 4. Bounds and fairness

*LruCache.*  Three threads let a `resize` fall between the locked block and the
racy read of a second thread while a third one fills the cache.  Two keys give
the conflict of `create` with `put`, and an eviction of another key than the one
put.  In `lru_contract` the values have sizes 0, 1 and 2 with maxima 1 and 2, so
there are evictions of none, one and several entries and a value that alone is too
large; `trimToSize(n)` of the caller is left to `lru_threads`, since it promises
nothing about the maximum.  In `lru_threads` sizes are -1, 1, 2 and 3 and `IntMax`
is 4, so that `safeSizeOf` throws and two values overflow `size`.  `LookupBound` bounds
`hitCount + missCount`, in `lru_contract` between two `HandBack`s, so that lookups never
end.  In `lru_threads` each value is handed in once, which bounds the puts; in
`lru_contract` nothing does, and the states are finite because the view `View` leaves out the
counters but for the bounded one, and whether a value was evicted or removed, which
neither a guard nor a property of that run reads.

*SieveCache.*  Three keys are the smallest number for which the hand can be at the
head, in the middle and at the tail; sizes 0, 1 and 3 with the maximum 2 give
entries that never fill the cache, an eviction per put, and a value that alone is
too large.  Once the list is broken the run lets the keys that are put have hashes that lead to
removed slots (`ReusesSlots`), which bounds how often the table is rebuilt after it; the
steps on the list are all there.  The view `WithoutUnspared` leaves out what only
`sieve_forgets` looks at.  TLC reaches a call that runs off a broken list with no
value too large, a removal that leaves a link behind, and an idle cache with entries and no tail.
`sieve_forgets` has seven keys, the smallest that make a table of 7 grow.

*ScatterTable.*  Groups of 4 bytes in place of 8 keep every proportion (the
smallest table has `GroupWidth - 1` slots, the load factor is
`1 - 1/GroupWidth`, the copies are `GroupWidth - 1` bytes) and make a table of 7
slots play the part of 15, the first that `dropDeletes` cleans up.  With such groups a
table has at most 15 slots (`ScatterAssumption`): in a larger one the 25/32 at which
`dropDeletes` is chosen would exceed its load factor, which with groups of 8 it never does.  The hash
codes put probes at the start, across the copies and at the end of the table.
The elements with one hash code are interchangeable: the view `HashesInSlots`
identifies the states that differ by a permutation of them, and every property
is invariant under it.  The two runs whose violation depends on the layout use
the real width, 8.  `CapacityBound` ends the growth.  An element is known by its
number: the seven bits `h2` only save comparisons, since the code compares the
element after every match.

*SieveStorage.*  The table of 7 slots takes 6 entries; the seventh, put after a removal,
is the one that makes `dropDeletes` run.  Two entries have the hash code 3, the others
6, so that clean-ups keep, move and swap entries.  `sieve_cleanup` follows one order of
puts and removals (`InTurn`) at the real width.

*SparseArray.*  The lengths are those of the code: a first put into no arrays makes 1
place, then 5, then 13.  Six keys fill 5 places and take the sixth, so that every
growth happens, with and without garbage, and a compaction with a put in front, in
the middle and behind.  One value and null (which the code accepts) are enough,
since values are only compared with the mark and with an expected value.  The view
`Used` leaves out keys behind the size, which nothing reads.

*CircularArray.*  From capacity 1 to `MaxCapacity`, 8 for 2^30: the ring doubles three
times with the head at any place, and the fourth doubling fails.  Two elements tell
neighbours apart.

*ArraySet.*  `BaseSize` 2 for 4 keeps the proportions of growth (2, 4, then a half
more) and lets six elements pass through each length; `ensureCapacity(12)` makes
arrays long enough to shrink.  Two elements and null have the hash 0, which
is also that of an empty place, so that a run of three stands between others.

*Fairness.*  `Fairness` of `LruCache` assumes for each thread that a call which has
begun goes on: the thread is scheduled, gets the lock, and the callbacks return.
Nothing obliges anyone to begin a call, and nobody is obliged to let a trim catch up: a thread
may put as often as it likes between two turns of another's loop.  Weak fairness is
enough because nothing disables a thread's next step.  `FairSpec` of `SieveCache` (and
`ReusingSpec`, its bounded form) assumes that the scan of a call in progress goes on: one thread runs it and nothing interrupts it.

*Deadlock* is checked in all runs but `sieve_cache`, where the failure of put, or a
torn list, ends the behaviour.

## 5. Proofs

`LruCacheProofs` proves, from `CacheAssumption` alone (the preconditions of the
constructor and of `resize`, `IntMax \in Nat`, sizes within `Int`), for any
threads, keys, values and sizes:

* `TypeCorrect`: `Spec => []TypeOK`.  The conjunct `FrameOK`, that a call has at
  each of its points the locals the next step needs, makes it inductive.
* `TrimIsNeverLost`: `Spec => []NeverLeftOverMax`.  The invariant is inductive
  together with `TypeOK`: an action that makes the cache larger leaves its own
  thread with a trim ahead (`WillTrim`), `Resize` either does the same or does
  not lower the maximum under a pending one, and a thread loses its `WillTrim`
  only when it has found `size <= limit` under the lock.  The set `seen` of the
  racy read is what the argument needs: a resize that happens before the read
  is in it.
* `QuietCacheIsWithinMax`: `Spec => []WithinMaxWhenQuiet`, from the former: a
  thread that is in no call, or in `create`, is not one that will trim.

And what the cache owes its caller, from the same assumption:

* `ContractIsKept`: `Spec => Contract!Spec` when no value has a negative size
  (`LegalSizes`; with one, a put drops its value when `safeSizeOf` throws).  Every step
  is a step of `CacheContract` or leaves its variables alone (`StepIsMove`).  The
  invariant is `MapOK`, that no key is twice in the map, with `Apart`: no value is in two
  of the places it can be in, the map, the frame of a thread, the released and the fresh.
* `CountersAreRight`: `Spec => []CountersAgree`.
* `SizeIsRight` and `TrimReportsOverflowsOnly`: `Spec => []SizeIsSum` and
  `Spec => []SizesNeverInconsistent`.  `size` and the sum of the sizes are congruent
  modulo 2^w after every step, the failed ones too, and equal until an overflow
  (`SumInv`).  The sum is the number of units in the cache (`Units`: as many pairs of a key
  and a number as the size of its value says), so that a change of one entry is a
  fact about the cardinality of a union, and no induction over the entries is needed.

The lemmas before them say what the operators of `LruHashMap` return and preserve.

`SieveCacheProofs` proves, from `SieveAssumption` alone, for any keys, sizes and maxima,
every safety property of the run:

* `TypeCorrect`, `TableKeepsRoom`, `SizeCorrect`, `ListStaysSound`, `CallsEndWithinMax`,
  `OnlyOversizedCrash`, `EvictAllLeavesNothing`.  They hold together: the inductive
  invariant `IInv` is `TypeOK` with `RoomInv` (the slots are accounted for and one is
  Empty), `SumInv` (`_size` is the number of units), `CallInv` (what a scan in progress
  still has to do), `LinkInv` and `SoundInv`.  `LinkInv` holds of broken lists, too: a link,
  `head`, `tail`, `hand` or the candidate leads to an entry that is linked, or nowhere, unless
  the list is torn; so a removal takes out an entry, and `size` and the counts
  follow.  `SoundInv` is `~broken => ListInv /\ SearchInv`: the entries but the one being linked
  are laid out as a sequence that the links follow both ways, and a search has found one.
  `ListInv` says `\E`: the sequence is not a variable of the code, and each action shows
  the one it leaves.  `TypeCorrect`, `TableKeepsRoom`, `SizeCorrect`, `CallsEndWithinMax` and
  `EvictAllLeavesNothing` use nothing of `SoundInv` and hold of broken lists;
  `ListStaysSound` and `OnlyOversizedCrash` are `SoundInv`, under the hypothesis
  `~broken` in the properties themselves.
* `ListIsQueue`: `Spec => FollowsPolicy`, steps that leave the list broken excepted.  The
  refinement mapping chooses the queue among the orders that the links follow (`Queue`); that
  it is the sequence of `ListInv` needs its uniqueness, which is shown at the first place
  where two differ.

`CircularArrayProofs` proves, from `RingAssumption` alone (the preconditions of the
constructor: the rounded capacity is positive and at most `MaxCapacity`), for any
elements and capacities:

* `TypeCorrect`: `Spec => []TypeOK`, which is inductive as it stands once `i % (mask + 1)`
  is replaced by the case split on one lap more or less (`MaskedIs`): no index the code
  computes is further than a lap away.
* `HoldsExactly`: `Spec => []HoldsItsElements`.  The lemmas `RemovesFromStart` and
  `RemovesFromEnd` bring the two-part removals of the code to one form, "the first n
  places from head on, around the end, become null", which the pops share; adds go
  through `AddedHolds`, whose case of doubling is the permutation of `Doubled`.
* `RingIsDeque`: `Spec => ImplementsDeque`.  `LaidOut(f, c, first, n)` is the sequence a
  reader of the array sees; one lemma each says what storing in front or behind,
  taking from the start or the end, and doubling do to it.

`SparseArrayProofs` proves, from `SparseAssumption` alone (the keys are Ints, no more than
an array can hold, and the mark is no value of the caller), for any keys, values and
capacities, every property of `sparse_map`:

* `TypeCorrect`, `ArraysStaySound`, `FindsWhatIsMapped`.  The invariant `Sound` adds to
  `ArraysAreSound` that the keys up to the size are those of callers: with their ascending
  order there are then never more than `Keys` has, so that an array that must
  grow has a length to grow to (`NoMoreThan`, `RoomForOne`).  It is stated of a record of
  fields, and each operator has a lemma that it takes sound fields to sound fields and what
  it does to the mappings (`GcSound`, `GrownSound`, `InsertSound`, `StoreSound`, `MarkedSound`);
  put and append are their compositions.
* `RemovesWhatWasShown`: `Spec => RemovesShown`, with `ShownInv`: what was shown is still at
  its index, marked or not.
* `ArraysAreMap`: `Spec => ImplementsMap`.

`ArraySetProofs` proves, from `ArraySetAssumption` alone (hashes are Ints, that of null is 0,
what is added as a whole is the contents of a set), for any elements, hashes and
capacities, every property of `array_set`:

* `TypeCorrect`, `ArraysStaySound`, `FindsWhatIsThere`.  The inductive `Sound` adds that no
  element is there twice.  `IndexLands` says what `indexOf` returns: in ascending hashes the
  run around the index is all of that hash, so it does not matter where in it the binary
  search falls, and its end is the least index beyond of another hash.
* `EachIsReturnedOnce`, `IteratorRemovesReturned`.  `IteratorInv` adds to
  `IteratesEachOnce` that the iterator's size is the set's, and that what it may remove is at
  `index - 1` and was returned last.
* `ArraysAreSet`: `Spec => ImplementsSet`.

`ScatterTableProofs` proves, from `ScatterAssumption` alone (groups of 8 with any capacity up to
the `2^30 - 1` of the code, or of 4 up to 15 slots; any hash codes, which are new in each table),
every property of `scatter_table`:

* `TableInvariant`: `Spec => []TableInv`.  Between calls every element is in one Full slot, the
  account of `growthLimit` is exact, and the slot is `Reached`: the probe of the element comes
  to it before it meets a group with an Empty byte.  In the loop of `dropDeletes` a slot
  with a Deleted byte holds an element that is not settled, and a settled one is reached
  before any group with an Empty or a Deleted byte, which is why moving the others cannot
  hide it.  Every step of the loop, and every turn of `resizeStorage` (`Placed`), has a
  lemma that says which slots it fills and which it leaves.
* `EveryProbeEnds`: `Spec => []ProbesEnd`.  `growthLimit` leaves an Empty byte, and the probe
  comes to it: the triangular numbers up to `q` take every remainder modulo a power of
  two `q`.  Two equal ones would make `2q` divide the product of an odd number
  and one below `2q`; that as many distinct remainders as there are leave none out is counting.
* `TableSound`, `CleanupMovesOn`, `TableIsASet`: `[]TableIsSound`, `CleanupAdvances`,
  `ImplementsSet`.  They hold for every `FindStops` and both values of `Mirrors`.
* `StoredIsFound`: `[]FindsExactly` if `FindStops = {Empty}`, as in the Kotlin search.  The
  hypothesis is needed: `scatter_js` refutes the property for the search of the
  builtins, which gives up at Deleted bytes, too.

`SieveStorageProofs` proves, from the same assumption, every property of `sieve_storage`:

* `StorageInvariant`: `SieveSpec => []StorageInv`.  It adds to `TableInv` that every link is a
  slot or `NoSlot`, that `order` holds each element once, what the mapping of `dropDeletes`
  may contain (a source is erased behind `index` only), and, until a clean-up in place, that
  head, tail, prev and next follow `order` (`Chain`).  The table's steps come from
  `ScatterTableProofs`.  Of the list three lemmas are all that is used: `ChainMoves` (slots
  renamed one to one: growing), `ChainGrows` (put) and `ChainShrinks` (removal).
* `ListOutlivesResize`: `[]ListSurvivesResize`.
* `TableHasOrder`: `[]TableIsOrder` if `FindStops = {Empty}`.  Here clean-ups in place are
  included: they lose links (`sieve_cleanup`) but no entry.
* `SourceStaysIndex`: `[]SourceIsIndex`, from the part on the mapping.

`ProofFacts` has facts of none of the components.  `SearchLands` is the binary search in a
weakly ascending array: it returns an index of the value, or the complement of the place
between the smaller and the greater.  `SmallerOnes` and `InOrder` enumerate a finite set of
numbers in order, which is what `gc` does.  Where induction would be used, the proofs
take the least counterexample (`LeastNumber`, from the well-foundedness of the strict subset
relation): the library's induction theorems have an operator as parameter.

Every invariant and every action property of a passing run is proved, and every
refinement but for fairness.  Only model-checked: liveness (`CallsReturn`, `BackWithinMax`,
`TrimEnds`, and the fairness part of `KeepsContract`), which the prover cannot do.  `HandBack` is
of `lru_contract` only: `ContractIsKept` is about values handed in once.  What the
violation runs refute is false of the code and has no theorem: of the visited bits, of
the links after a clean-up in place, of the search of the builtins and of `removeAtRange`.

## 6. Disagreements with the documentation

Each is a run that TLC is expected to refute; `PROJECT.json` quotes the lines.

1. `SieveCache.createLinks`: `shl` and `or` are infix functions of one precedence;
   the visited bits are shifted out at every rebuild (`sieve_forgets`).
2. `SieveCache.dropDeletes` overwrites in `indexMapping` where an entry went when
   another one takes its slot (`sieve_cleanup`).  `SieveCache` has the consequences: entries that are
   never evicted, calls that fail with an index out of bounds although no value is too
   large, links to free slots.
3. The finds of `IntSetBuiltins.cpp` stop at a tombstone (`scatter_js`).
4. `SparseArrayCompat.removeAtRange(index, size)` removes `size - index` mappings
   (`sparse_range`).

No run is spent on these, which the models contain:

* `LruCache`: two values of legal size can overflow `size` before `trimToSize` evicts,
  which then reports inconsistent sizes (the bounds of `lru_contract` keep out of it,
  those of `lru_threads` do not).
* `SieveCache.put` of a value larger than `maxSize` evicts everything and then indexes
  `nodes` with the invalid link; `OnlyOversizedFails` says that nothing else fails until a
  clean-up has lost a link.
* `SparseArrayCompat.removeAt(index)` does not compact: after a removal by key and no read
  at an index, it refers to the array as it was before that removal.
* `CircularArray`: an add that fails for want of a longer array leaves the ring empty.
* `LruCache`: an exception of `safeSizeOf` after `map.put` or `map.remove` leaves the replaced
  or removed value unreported and the cache untrimmed; `size` alone is kept right.

And these, which no model contains:

* `ArraySet.removeAll(Collection)` on JS and native calls itself
  (`jsMain/kotlin/androidx/collection/ArraySet.kt:258`, `nativeMain` the same) and never reaches
  `removeAllInternal`.

`SieveCache.count()` is documented as the number of entries and returns `size`, the
sum of the sizes; no run is spent on it.

## 7. What is not modelled

* Of `SieveCache`: callbacks that call the cache in the middle of a call, overflow of
  `_size`, the iterators (`forEach` and its variants only read), calls on a cache whose list
  links to free slots or whose put has failed.
* Of the tables: the bit tricks by which a byte is found in a group, the packing of
  a group into two 32-bit words, concurrent use (the documentation excludes it).
* `ScatterMap`, `ScatterSet`, `OrderedScatterSet`, `SimpleArrayMap`, `ArrayMap` and the
  lists: planned, see below.
* `LongSparseArray` and `CircularIntArray` have the algorithms of `SparseArrayCompat` and
  `CircularArray` over another type; they are not mapped line by line.
* Of `ArraySet`: a change in the middle of a call, which the code answers with
  `ConcurrentModificationException` where it notices, and the `removeAll` that calls itself (6).  Of `SparseArrayCompat`: indices
  beyond the size, on which the class promises nothing.
* The generated maps and sets of primitive types are copies of one algorithm over
  other element types; the table they share is modelled once.
* Pairs and packed values are immutable; templates, scripts, test drivers and the
  vendored QuickJS have no behaviour of the library.
* Memory and the limits of arrays: allocation never fails here.  `ArraySet` has no limit
  at all (the code's lengths are Ints), `SparseArray` the one of `LongestArray`.

## 8. Plan

1. `SimpleArrayMap` and `ArrayMap`: the operators of `ArraySet` with a value beside each
   key, and the views that share its iterator, refining `MapContract`.
2. `ScatterMap`: `compute` and `getOrPut` around a caller's function that uses or
   breaks the map; the lazy iterators of the wrappers and `hasNext` between `next`
   and `remove`.
3. `OrderedScatterSet`: insertion order across `dropDeletes` and `trim`, on
   `SieveStorage`'s links.
4. `SieveCache` with callbacks that call it back.
5. `ObjectList`: sub-lists and list iterators over a list that changes.
6. Proofs: what the links of `SieveStorage` still are after a clean-up in place (slots of
   the table, proved; a list that can be walked without going round, not known; that a link is
   right or lost and never wrong, which `SieveCache` takes from the loop).

The order follows what the library promises and tests reach least: the concurrent
cache first, then the cache whose structure is the most intricate, then the table
everything rests on, then the array collections with the most index arithmetic; those
are done.
