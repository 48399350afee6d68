------------------------------ MODULE LruCache ------------------------------
(***************************************************************************)
(* androidx.collection.LruCache under concurrent callers.                  *)
(*                                                                         *)
(* Every lock.synchronized block is one action.  Between two blocks the    *)
(* code runs unlocked: there it calls create and entryRemoved, which may   *)
(* run arbitrarily long and call the cache again (a nested call on the     *)
(* same thread is a call of another member of Threads here), and there put *)
(* and get read the plain field maxSize to pass it to trimToSize.  That    *)
(* read races with resize: it returns any value the field has had since    *)
(* the reader's own last locked block.                                     *)
(*                                                                         *)
(* The values are tokens: each is handed in once, by a put or by a create, *)
(* so that entryRemoved's calls with it can be told apart; MCLruCache also *)
(* has an owner who hands in again what it got back.                       *)
(***************************************************************************)
EXTENDS Integers, FiniteSets, LruHashMap

CONSTANTS
    Threads,
    Keys,
    Values,
    SizeOf,         \* sizeOf: the size of each value, the same at every call
    InitialMaxSize, \* the constructor's argument
    MaxSizes,       \* the arguments resize is called with
    TrimSizes,      \* the arguments trimToSize is called with; evictAll's -1
    IntMax,         \* Int.MAX_VALUE
    LookupBound     \* bounds hitCount + missCount

IsPositiveInt(n) == n \in 1 .. IntMax

ASSUME CacheAssumption ==
    /\ NoValue \notin Values
    /\ IntMax \in Nat
    /\ SizeOf \in [Values -> -(IntMax + 1) .. IntMax]
    /\ IsPositiveInt(InitialMaxSize)             \* init's requirePrecondition
    /\ \A n \in MaxSizes : IsPositiveInt(n)      \* resize's requirePrecondition
    /\ TrimSizes \subseteq Int
    /\ LookupBound \in Nat

VARIABLES
    map, size, maxSize,
    hitCount, missCount, createCount, putCount, evictionCount,
    frame,    \* where each thread's call stands, with its locals
    fresh,    \* the values not handed to the cache yet
    gone,     \* for each value, how entryRemoved was called with it
    faults    \* what has gone wrong so far: exceptions thrown, overflows of size

counters == <<hitCount, missCount, createCount, putCount, evictionCount>>
vars == <<map, size, maxSize, counters, frame, fresh, gone, faults>>

-----------------------------------------------------------------------------
\* No call.
Idle == [pc |-> "idle", then |-> "idle", key |-> NoValue, old |-> NoValue,
         evicted |-> FALSE, limit |-> 0, seen |-> {}]

\* create is running for key, outside the lock.
Creating(key) ==
    [pc |-> "create", then |-> "idle", key |-> key, old |-> NoValue,
     evicted |-> FALSE, limit |-> 0, seen |-> {}]

\* Mutation of ReadingMaxSize: put and a get that creates do not trim.
NotReadingMaxSize == Idle

\* The argument maxSize of trimToSize is about to be read, outside the lock.
ReadingMaxSize ==
    [pc |-> "read", then |-> "read", key |-> NoValue, old |-> NoValue,
     evicted |-> FALSE, limit |-> 0, seen |-> {maxSize}]

\* Mutation of Trimming: the field maxSize taken for the parameter that
\* shadows it.
TrimmingToField(limit) ==
    [Idle EXCEPT !.pc = "trim", !.then = "trim", !.limit = maxSize]

\* trimToSize(limit) is about to enter its next locked block.
Trimming(limit) ==
    [pc |-> "trim", then |-> "trim", key |-> NoValue, old |-> NoValue,
     evicted |-> FALSE, limit |-> limit, seen |-> {}]

\* Mutation of Notifying: the call ends with its first callback, so that at
\* most one entry is evicted.
NotifyingLast(evicted, old, f) ==
    [Idle EXCEPT !.pc = "notify", !.evicted = evicted, !.old = old]

\* Mutation of Notifying: an eviction reported like a removal.
NotifyingRemoval(evicted, old, f) ==
    [f EXCEPT !.pc = "notify", !.evicted = FALSE, !.old = old]

\* entryRemoved(evicted, _, old, _) is due; the call then goes on as f says.
Notifying(evicted, old, f) ==
    [f EXCEPT !.pc = "notify", !.evicted = evicted, !.old = old]

Goto(t, f) == frame' = [frame EXCEPT ![t] = f]

\* Arithmetic of Int.
Int32(n) ==
    IF n > IntMax THEN n - 2 * (IntMax + 1)
    ELSE IF n < -(IntMax + 1) THEN n + 2 * (IntMax + 1)
    ELSE n

Overflow(n) == IF Int32(n) = n THEN {} ELSE {"overflow"}

\* Mutation of BadSize: no check.
AnySize(v) == FALSE

\* safeSizeOf throws for a negative size.
BadSize(v) == v # NoValue /\ SizeOf[v] < 0

\* Mutation of SizeOrZero: the size of a replaced value is not subtracted.
SizeForgotten(v) == 0

\* The size put gives back for the value it replaces, if any.
SizeOrZero(v) == IF v = NoValue THEN 0 ELSE SizeOf[v]

\* Mutation of PutUndone: the conflicting put stays.
PutKept(k, v) == With(map, k, v)

\* Mutation of PutUndone: the value put back is read after it was replaced.
PutUndoneLate(k, v) == With(With(map, k, v), k, Lookup(Without(map, k), k))

\* get puts a created value and, having found a conflict, the mapped one back.
PutUndone(k, v) == With(With(map, k, v), k, Lookup(map, k))

Fault(f) == faults' = faults \cup {f}

-----------------------------------------------------------------------------
Init ==
    /\ map = <<>>
    /\ size = 0
    /\ maxSize = InitialMaxSize
    /\ hitCount = 0 /\ missCount = 0 /\ createCount = 0
    /\ putCount = 0 /\ evictionCount = 0
    /\ frame = [t \in Threads |-> Idle]
    /\ fresh = Values
    /\ gone = [v \in Values |-> "no"]
    /\ faults = {}

\* The locked block of resize.  A read of maxSize under way may see the old
\* value or this one.
Resize(t, n) ==
    /\ frame[t].pc = "idle"
    /\ maxSize' = n
    /\ frame' = [u \in Threads |->
                   IF u = t THEN Trimming(n)
                   ELSE IF frame[u].seen = {} THEN frame[u]
                   ELSE [frame[u] EXCEPT !.seen = @ \cup {n}]]
    /\ UNCHANGED <<map, size, counters, fresh, gone, faults>>

\* trimToSize(n) as a caller may call it; evictAll is trimToSize(-1).
TrimToSize(t, n) ==
    /\ frame[t].pc = "idle"
    /\ Goto(t, Trimming(n))
    /\ UNCHANGED <<map, size, maxSize, counters, fresh, gone, faults>>

\* The first locked block of get.
GetHit(t, k) ==
    /\ frame[t].pc = "idle"
    /\ hitCount + missCount < LookupBound
    /\ k \in KeysOf(map)
    /\ map' = Touched(map, k)
    /\ hitCount' = hitCount + 1
    /\ UNCHANGED <<size, maxSize, missCount, createCount, putCount,
                   evictionCount, frame, fresh, gone, faults>>

GetMiss(t, k) ==
    /\ frame[t].pc = "idle"
    /\ hitCount + missCount < LookupBound
    /\ k \notin KeysOf(map)
    /\ missCount' = missCount + 1
    /\ Goto(t, Creating(k))
    /\ UNCHANGED <<map, size, maxSize, hitCount, createCount, putCount,
                   evictionCount, fresh, gone, faults>>

\* create returned null.
CreateNothing(t) ==
    /\ frame[t].pc = "create"
    /\ Goto(t, Idle)
    /\ UNCHANGED <<map, size, maxSize, counters, fresh, gone, faults>>

\* create returned v; the second locked block of get.
CreateKept(t, v) ==
    LET k == frame[t].key IN
    /\ frame[t].pc = "create"
    /\ v \in fresh
    /\ k \notin KeysOf(map)
    /\ createCount' = createCount + 1
    /\ map' = With(map, k, v)
    /\ fresh' = fresh \ {v}
    /\ IF BadSize(v)
         THEN /\ Fault("negative")
              /\ Goto(t, Idle)
              /\ UNCHANGED size
         ELSE /\ size' = Int32(size + SizeOf[v])
              /\ Goto(t, ReadingMaxSize)
              /\ faults' = faults \cup Overflow(size + SizeOf[v])
    /\ UNCHANGED <<maxSize, hitCount, missCount, putCount, evictionCount, gone>>

\* As above, but k has been mapped meanwhile: the put of v is undone, which
\* leaves the entry at the end, and v is released.
CreateConflict(t, v) ==
    LET k == frame[t].key IN
    /\ frame[t].pc = "create"
    /\ v \in fresh
    /\ k \in KeysOf(map)
    /\ createCount' = createCount + 1
    /\ map' = PutUndone(k, v)
    /\ fresh' = fresh \ {v}
    /\ Goto(t, Notifying(FALSE, v, Idle))
    /\ UNCHANGED <<size, maxSize, hitCount, missCount, putCount,
                   evictionCount, gone, faults>>

\* The locked block of put: safeSizeOf(value) comes before the map changes,
\* safeSizeOf(previous) after it.
Put(t, k, v) ==
    LET previous == Lookup(map, k)
        grown == Int32(size + SizeOf[v])
    IN
    /\ frame[t].pc = "idle"
    /\ v \in fresh
    /\ putCount' = putCount + 1
    /\ fresh' = fresh \ {v}
    /\ IF BadSize(v)
         THEN /\ Fault("negative")
              /\ UNCHANGED <<map, size, frame>>
         ELSE /\ map' = With(map, k, v)
              /\ IF BadSize(previous)
                   THEN /\ size' = grown
                        /\ faults' = faults \cup {"negative"} \cup Overflow(size + SizeOf[v])
                        /\ UNCHANGED frame
                   ELSE /\ size' = Int32(grown - SizeOrZero(previous))
                        /\ faults' = faults \cup Overflow(size + SizeOf[v])
                                            \cup Overflow(grown - SizeOrZero(previous))
                        /\ Goto(t, IF previous = NoValue
                                     THEN ReadingMaxSize
                                     ELSE Notifying(FALSE, previous, ReadingMaxSize))
    /\ UNCHANGED <<maxSize, hitCount, missCount, createCount, evictionCount, gone>>

\* The locked block of remove; without an entry for k it changes nothing.
Remove(t, k) ==
    LET previous == Lookup(map, k) IN
    /\ frame[t].pc = "idle"
    /\ previous # NoValue
    /\ map' = Without(map, k)
    /\ IF BadSize(previous)
         THEN /\ Fault("negative")
              /\ UNCHANGED <<size, frame>>
         ELSE /\ size' = Int32(size - SizeOf[previous])
              /\ Goto(t, Notifying(FALSE, previous, Idle))
              /\ faults' = faults \cup Overflow(size - SizeOf[previous])
    /\ UNCHANGED <<maxSize, counters, fresh, gone>>

\* put and get read maxSize for trimToSize.
ReadMaxSize(t, n) ==
    /\ frame[t].pc = "read"
    /\ n \in frame[t].seen
    /\ Goto(t, Trimming(n))
    /\ UNCHANGED <<map, size, maxSize, counters, fresh, gone, faults>>

\* The locked block of trimToSize: its precondition, its return, one eviction.
Inconsistent == size < 0 \/ (map = <<>> /\ size # 0)

TrimFails(t) ==
    /\ frame[t].pc = "trim"
    /\ Inconsistent
    /\ Fault("inconsistent")
    /\ Goto(t, Idle)
    /\ UNCHANGED <<map, size, maxSize, counters, fresh, gone>>

\* Mutation of TrimReturns: an empty map is not looked for.
TrimReturnsBySize(t) ==
    /\ frame[t].pc = "trim"
    /\ size >= 0
    /\ size <= frame[t].limit
    /\ Goto(t, Idle)
    /\ UNCHANGED <<map, size, maxSize, counters, fresh, gone, faults>>

TrimReturns(t) ==
    /\ frame[t].pc = "trim"
    /\ ~Inconsistent
    /\ size <= frame[t].limit \/ map = <<>>
    /\ Goto(t, Idle)
    /\ UNCHANGED <<map, size, maxSize, counters, fresh, gone, faults>>

TrimEvicts(t) ==
    LET toEvict == Eldest(map) IN
    /\ frame[t].pc = "trim"
    /\ ~Inconsistent
    /\ size > frame[t].limit /\ map # <<>>
    /\ map' = Without(map, toEvict.key)
    /\ IF BadSize(toEvict.value)
         THEN /\ Fault("negative")
              /\ Goto(t, Idle)
              /\ UNCHANGED <<size, evictionCount>>
         ELSE /\ size' = Int32(size - SizeOf[toEvict.value])
              /\ evictionCount' = evictionCount + 1
              /\ Goto(t, Notifying(TRUE, toEvict.value, frame[t]))
              /\ faults' = faults \cup Overflow(size - SizeOf[toEvict.value])
    /\ UNCHANGED <<maxSize, hitCount, missCount, createCount, putCount, fresh, gone>>

\* entryRemoved is called, outside the lock.
EntryRemoved(t) ==
    LET f == frame[t] IN
    /\ f.pc = "notify"
    /\ gone' = [gone EXCEPT ![f.old] = IF f.evicted THEN "evicted" ELSE "removed"]
    /\ Goto(t, [f EXCEPT !.pc = f.then, !.old = NoValue, !.evicted = FALSE])
    /\ UNCHANGED <<map, size, maxSize, counters, fresh, faults>>

-----------------------------------------------------------------------------
Call(t) ==
    \/ \E n \in MaxSizes : Resize(t, n)
    \/ \E n \in TrimSizes \cup {-1} : TrimToSize(t, n)
    \/ \E k \in Keys : \/ GetHit(t, k)
                       \/ GetMiss(t, k)
                       \/ Remove(t, k)
                       \/ \E v \in Values : Put(t, k, v)

Continue(t) ==
    \/ CreateNothing(t)
    \/ \E v \in Values : CreateKept(t, v) \/ CreateConflict(t, v)
    \/ \E n \in frame[t].seen : ReadMaxSize(t, n)
    \/ TrimFails(t)
    \/ TrimReturns(t)
    \/ TrimEvicts(t)
    \/ EntryRemoved(t)

Next == \E t \in Threads : Call(t) \/ Continue(t)

Spec == Init /\ [][Next]_vars

\* A call that has begun goes on: the thread is scheduled, gets the lock, and
\* the callbacks return.
Fairness == \A t \in Threads : WF_vars(Continue(t))

-----------------------------------------------------------------------------
(* Properties *)

EntrySet == [key : Keys, value : Values]

Frames == [pc : {"idle", "create", "notify", "read", "trim"},
           then : {"idle", "read", "trim"},
           key : Keys \cup {NoValue},
           old : Values \cup {NoValue},
           evicted : BOOLEAN,
           limit : Int,
           seen : SUBSET (MaxSizes \cup {InitialMaxSize})]

\* The locals of a call at each of its points.
FrameOK(f) ==
    /\ f.pc \in {"idle", "trim", "read"} => f.then = f.pc
    /\ f.pc = "create" => f.then = "idle" /\ f.key \in Keys
    /\ f.pc = "notify" => f.old \in Values
    /\ f.then = "read" <=> f.seen # {}

\* The types of the cache's fields and of the calls in progress, each of which
\* has the locals its next step needs.
TypeOK ==
    /\ map \in Seq(EntrySet)
    /\ size \in -(IntMax + 1) .. IntMax
    /\ maxSize \in MaxSizes \cup {InitialMaxSize}
    /\ hitCount \in Nat /\ missCount \in Nat /\ createCount \in Nat
    /\ putCount \in Nat /\ evictionCount \in Nat
    /\ frame \in [Threads -> Frames]
    /\ \A t \in Threads : FrameOK(frame[t])
    /\ fresh \subseteq Values
    /\ gone \in [Values -> {"no", "evicted", "removed"}]
    /\ faults \subseteq {"negative", "inconsistent", "overflow"}

\* A call that will still trim the cache to the current maximum or below it,
\* whatever its racy read of maxSize returns.
WillTrim(t) ==
    LET f == frame[t] IN
    \/ f.then = "trim" /\ f.limit <= maxSize
    \/ f.then = "read" /\ \A n \in f.seen : n <= maxSize

\* The cache is over its maximum only while some call is on its way to bring
\* it back: no interleaving of put, get and resize, and no outcome of the
\* unlocked read of maxSize in get (128) and put (153), leaves the cache over
\* its maximum with nobody to trim it.
NeverLeftOverMax ==
    faults = {} /\ size > maxSize => \E t \in Threads : WillTrim(t)

\* Once all calls have returned the cache is within its maximum ("the maximum
\* sum of the sizes of the entries in this cache", 54-56).
WithinMaxWhenQuiet ==
    faults = {} /\ (\A t \in Threads : frame[t].pc \in {"idle", "create"})
        => size <= maxSize

\* One unit of room for every unit of the size of an entry; a value whose
\* sizeOf is negative takes none.
Units == UNION {{k} \X (1 .. SizeOf[Lookup(map, k)]) : k \in KeysOf(map)}

SumOfSizes == Cardinality(Units)

\* size() is the sum of the sizes of the entries (264-267) modulo the width of
\* Int, also after a sizeOf that threw in the middle of a locked block and
\* after size overflowed.
SizeIsSum == size % (2 * (IntMax + 1)) = SumOfSizes % (2 * (IntMax + 1))

\* trimToSize reports "inconsistent results" (170-172) only after size has
\* overflowed: here sizeOf returns the same size for a value at every call, and
\* no interleaving and no exception of sizeOf in the middle of a block spoils
\* size.
SizesNeverInconsistent == "inconsistent" \in faults => "overflow" \in faults

Notified(evicted) ==
    {t \in Threads : frame[t].pc = "notify" /\ frame[t].evicted = evicted}

\* evictionCount is the number of values that leave through
\* entryRemoved(evicted = true), counting those whose call is still due, and
\* a value was created only after a miss.
CountersAgree ==
    /\ evictionCount = Cardinality({v \in Values : gone[v] = "evicted"})
                         + Cardinality(Notified(TRUE))
    /\ createCount + Cardinality({t \in Threads : frame[t].pc = "create"}) <= missCount

\* t puts something into the cache.
Fills(t) ==
    \/ \E k \in Keys, v \in Values : Put(t, k, v)
    \/ \E v \in Values : CreateKept(t, v)

\* Every call returns, unless other threads go on filling the cache for ever:
\* trimToSize, whose loop takes the lock anew for every eviction (166-187), may
\* chase them, and nothing else holds a call up.
CallsReturn ==
    \A t \in Threads :
        \/ []<>(frame[t].pc = "idle")
        \/ []<><<\E u \in Threads \ {t} : Fills(u)>>_vars

\* However often it is overfilled, the cache gets back within its maximum.
BackWithinMax == []<>(size <= maxSize)

\* The cache keeps its contract with the owner of the values.
Contract == INSTANCE CacheContract WITH
    contents <- [k \in Keys |-> Lookup(map, k)],
    leaving <- {frame[t].old : t \in {u \in Threads : frame[u].pc = "notify"}},
    gone <- {v \in Values : gone[v] # "no"}

KeepsContract == Contract!FairSpec
=============================================================================
