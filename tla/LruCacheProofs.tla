--------------------------- MODULE LruCacheProofs ---------------------------
(***************************************************************************)
(* Theorems about LruCache, for any number of threads, any keys, values    *)
(* and sizes, and any arguments of resize and trimToSize: no trim is lost, *)
(* the cache keeps the contract with the owner of the values               *)
(* (CacheContract), its counters count what they are to count, and size is *)
(* the sum of the sizes of the entries.                                    *)
(***************************************************************************)
EXTENDS LruCache, ProofFacts

(***************************************************************************)
(* Facts about the sequence of entries.                                    *)
(***************************************************************************)

\* Taking the entry of a key out of the map leaves a sequence of entries.
LEMMA WithoutType ==
    ASSUME NEW m \in Seq(EntrySet), NEW k
    PROVE  Without(m, k) \in Seq(EntrySet)
<1>1. CASE k \notin KeysOf(m)
  BY <1>1 DEF Without
<1>2. CASE k \in KeysOf(m)
  <2>1. IndexOfKey(m, k) \in 1 .. Len(m)
    BY <1>2 DEF KeysOf, IndexOfKey
  <2>2. Seqs!RemoveAt(m, IndexOfKey(m, k)) \in Seq(EntrySet)
    BY <2>1 DEF Seqs!RemoveAt
  <2> QED
    BY <1>2, <2>2 DEF Without
<1> QED
  BY <1>1, <1>2

\* Putting an entry into the map leaves a sequence of entries.
LEMMA WithType ==
    ASSUME NEW m \in Seq(EntrySet), NEW k \in Keys, NEW v \in Values
    PROVE  With(m, k, v) \in Seq(EntrySet)
<1>1. Without(m, k) \in Seq(EntrySet)
  BY WithoutType
<1>2. [key |-> k, value |-> v] \in EntrySet
  BY DEF EntrySet
<1> QED
  BY <1>1, <1>2 DEF With

\* A key of the map is mapped to a value, any other to NoValue.
LEMMA LookupType ==
    ASSUME NEW m \in Seq(EntrySet), NEW k
    PROVE  /\ k \in KeysOf(m) => Lookup(m, k) \in Values
           /\ k \notin KeysOf(m) => Lookup(m, k) = NoValue
<1>1. ASSUME k \in KeysOf(m)
      PROVE  Lookup(m, k) \in Values
  <2>1. IndexOfKey(m, k) \in 1 .. Len(m)
    BY <1>1 DEF KeysOf, IndexOfKey
  <2>2. m[IndexOfKey(m, k)] \in EntrySet
    BY <2>1
  <2> QED
    BY <1>1, <2>2 DEF Lookup, EntrySet
<1> QED
  BY <1>1 DEF Lookup

(***************************************************************************)
(* Facts about Int and about the frames of calls.                          *)
(***************************************************************************)

\* The sum or difference of two Ints, cut to its width, is an Int, and one
\* that overflowed is recorded.
LEMMA Int32Type ==
    ASSUME NEW n \in Int, n >= -2 * (IntMax + 1), n <= 2 * IntMax + 1
    PROVE  /\ Int32(n) \in -(IntMax + 1) .. IntMax
           /\ Overflow(n) \subseteq {"overflow"}
           /\ Overflow(n) = {} => Int32(n) = n
BY CacheAssumption DEF Int32, Overflow

\* The frames that calls are given have the type of frames.
LEMMA FrameTypes ==
    /\ Idle \in Frames /\ FrameOK(Idle)
    /\ \A k \in Keys : Creating(k) \in Frames /\ FrameOK(Creating(k))
    /\ maxSize \in MaxSizes \cup {InitialMaxSize} =>
         ReadingMaxSize \in Frames /\ FrameOK(ReadingMaxSize)
    /\ \A n \in Int : Trimming(n) \in Frames /\ FrameOK(Trimming(n))
<1>1. Idle \in Frames /\ FrameOK(Idle)
  BY DEF Idle, Frames, FrameOK
<1>2. ASSUME NEW k \in Keys
      PROVE  Creating(k) \in Frames /\ FrameOK(Creating(k))
  BY DEF Creating, Frames, FrameOK
<1>3. ASSUME maxSize \in MaxSizes \cup {InitialMaxSize}
      PROVE  ReadingMaxSize \in Frames /\ FrameOK(ReadingMaxSize)
  BY <1>3 DEF ReadingMaxSize, Frames, FrameOK
<1>4. ASSUME NEW n \in Int
      PROVE  Trimming(n) \in Frames /\ FrameOK(Trimming(n))
  BY DEF Trimming, Frames, FrameOK
<1> QED
  BY <1>1, <1>2, <1>3, <1>4

\* A call that is to call entryRemoved goes on as it would have otherwise.
LEMMA NotifyingType ==
    ASSUME NEW f \in Frames, FrameOK(f), NEW v \in Values, NEW e \in BOOLEAN
    PROVE  /\ Notifying(e, v, f) \in Frames
           /\ FrameOK(Notifying(e, v, f))
           /\ Notifying(e, v, f).then = f.then
           /\ Notifying(e, v, f).limit = f.limit
           /\ Notifying(e, v, f).seen = f.seen
BY DEF Notifying, Frames, FrameOK

\* A call whose callback has returned goes on as it was to.
LEMMA ReturnedType ==
    ASSUME NEW f \in Frames, FrameOK(f)
    PROVE  /\ [f EXCEPT !.pc = f.then, !.old = NoValue, !.evicted = FALSE] \in Frames
           /\ FrameOK([f EXCEPT !.pc = f.then, !.old = NoValue, !.evicted = FALSE])
<1> DEFINE g == [f EXCEPT !.pc = f.then, !.old = NoValue, !.evicted = FALSE]
<1>1. /\ g.pc = f.then /\ g.then = f.then /\ g.key = f.key
      /\ g.old = NoValue /\ g.evicted = FALSE
      /\ g.limit = f.limit /\ g.seen = f.seen
  BY DEF Frames
<1>2. f.then \in {"idle", "read", "trim"}
  BY DEF Frames
<1>3. g \in Frames
  BY <1>2 DEF Frames
<1>4. FrameOK(g)
  <2> HIDE DEF g
  <2> QED
    BY <1>1, <1>2 DEF FrameOK
<1> QED
  BY <1>3, <1>4

\* The sizes resize and the constructor accept.
LEMMA MaxSizesType ==
    /\ MaxSizes \cup {InitialMaxSize} \subseteq Nat \ {0}
    /\ MaxSizes \cup {InitialMaxSize} \subseteq Int
BY CacheAssumption DEF IsPositiveInt

\* A step that moves one thread leaves the others where they are.
LEMMA GotoType ==
    ASSUME TypeOK, NEW t \in Threads, NEW f \in Frames, FrameOK(f), Goto(t, f)
    PROVE  /\ frame' \in [Threads -> Frames]
           /\ \A u \in Threads : FrameOK(frame'[u])
           /\ frame'[t] = f
           /\ \A u \in Threads \ {t} : frame'[u] = frame[u]
BY DEF TypeOK, Goto

(***************************************************************************)
(* The type invariant.                                                     *)
(***************************************************************************)

\* The fields and the calls in progress have their types at the start.
LEMMA TypeInit == Init => TypeOK
<1> SUFFICES ASSUME Init PROVE TypeOK
  OBVIOUS
<1>1. Idle \in Frames /\ FrameOK(Idle)
  BY FrameTypes
<1>2. size \in -(IntMax + 1) .. IntMax
  BY CacheAssumption DEF Init
<1>3. map \in Seq(EntrySet)
  BY DEF Init
<1> QED
  BY <1>1, <1>2, <1>3 DEF Init, TypeOK

\* Every step keeps the types.
LEMMA TypeStep == TypeOK /\ [Next]_vars => TypeOK'
<1> SUFFICES ASSUME TypeOK, [Next]_vars PROVE TypeOK'
  OBVIOUS
<1> USE FrameTypes
<1>1. ASSUME NEW t \in Threads, NEW n \in MaxSizes, Resize(t, n)
      PROVE  TypeOK'
  <2>1. n \in Int
    BY MaxSizesType
  <2>2. Trimming(n) \in Frames /\ FrameOK(Trimming(n))
    BY <2>1
  <2>3. ASSUME NEW u \in Threads
        PROVE  frame'[u] \in Frames /\ FrameOK(frame'[u])
    <3>1. CASE u = t
      BY <1>1, <2>2, <3>1 DEF Resize, TypeOK
    <3>2. CASE u # t /\ frame[u].seen = {}
      BY <1>1, <3>2 DEF Resize, TypeOK
    <3>3. CASE u # t /\ frame[u].seen # {}
      <4>1. frame'[u] = [frame[u] EXCEPT !.seen = @ \cup {n}]
        BY <1>1, <3>3 DEF Resize, TypeOK
      <4>2. frame[u] \in Frames /\ FrameOK(frame[u])
        BY DEF TypeOK
      <4> QED
        BY <3>3, <4>1, <4>2 DEF Frames, FrameOK
    <3> QED
      BY <3>1, <3>2, <3>3
  <2> QED
    BY <1>1, <2>3 DEF Resize, TypeOK, counters
<1>2. ASSUME NEW t \in Threads, NEW n \in TrimSizes \cup {-1}, TrimToSize(t, n)
      PROVE  TypeOK'
  <2>1. n \in Int
    BY CacheAssumption
  <2> QED
    BY <1>2, <2>1, GotoType DEF TrimToSize, TypeOK, counters
<1>3. ASSUME NEW t \in Threads, NEW k \in Keys, GetHit(t, k)
      PROVE  TypeOK'
  <2>1. map' \in Seq(EntrySet)
    BY <1>3, WithType, LookupType DEF GetHit, Touched, TypeOK
  <2> QED
    BY <1>3, <2>1 DEF GetHit, TypeOK
<1>4. ASSUME NEW t \in Threads, NEW k \in Keys, GetMiss(t, k)
      PROVE  TypeOK'
  BY <1>4, GotoType DEF GetMiss, TypeOK
<1>5. ASSUME NEW t \in Threads, CreateNothing(t)
      PROVE  TypeOK'
  BY <1>5, GotoType DEF CreateNothing, TypeOK, counters
<1>6. ASSUME NEW t \in Threads, NEW v \in Values, CreateKept(t, v)
      PROVE  TypeOK'
  <2>1. frame[t].key \in Keys
    BY <1>6 DEF CreateKept, TypeOK, FrameOK
  <2>2. map' \in Seq(EntrySet)
    BY <1>6, <2>1, WithType DEF CreateKept, TypeOK
  <2>3. CASE BadSize(v)
    <3>1. /\ Goto(t, Idle) /\ Fault("negative")
          /\ createCount' = createCount + 1 /\ fresh' = fresh \ {v}
          /\ UNCHANGED <<size, maxSize, hitCount, missCount, putCount, evictionCount, gone>>
      BY <1>6, <2>3 DEF CreateKept
    <3>2. frame' \in [Threads -> Frames] /\ \A u \in Threads : FrameOK(frame'[u])
      BY <3>1, GotoType
    <3> QED
      BY <2>2, <3>1, <3>2 DEF TypeOK, Fault
  <2>4. CASE ~BadSize(v)
    <3>1. /\ size' \in -(IntMax + 1) .. IntMax
          /\ faults' \subseteq {"negative", "inconsistent", "overflow"}
      <4>1. SizeOf[v] \in -(IntMax + 1) .. IntMax
        BY CacheAssumption
      <4>2. /\ Int32(size + SizeOf[v]) \in -(IntMax + 1) .. IntMax
            /\ Overflow(size + SizeOf[v]) \subseteq {"overflow"}
        BY <4>1, Int32Type, CacheAssumption DEF TypeOK
      <4> QED
        BY <1>6, <2>4, <4>2 DEF CreateKept, TypeOK
    <3>2. /\ Goto(t, ReadingMaxSize)
          /\ createCount' = createCount + 1 /\ fresh' = fresh \ {v}
          /\ UNCHANGED <<maxSize, hitCount, missCount, putCount, evictionCount, gone>>
      BY <1>6, <2>4 DEF CreateKept
    <3>3. frame' \in [Threads -> Frames] /\ \A u \in Threads : FrameOK(frame'[u])
      BY <3>2, GotoType DEF TypeOK
    <3> QED
      BY <2>2, <3>1, <3>2, <3>3 DEF TypeOK
  <2> QED
    BY <2>3, <2>4
<1>7. ASSUME NEW t \in Threads, NEW v \in Values, CreateConflict(t, v)
      PROVE  TypeOK'
  <2>1. frame[t].key \in Keys
    BY <1>7 DEF CreateConflict, TypeOK, FrameOK
  <2>2. map' \in Seq(EntrySet)
    BY <1>7, <2>1, WithType, LookupType DEF CreateConflict, PutUndone, TypeOK
  <2>3. Notifying(FALSE, v, Idle) \in Frames /\ FrameOK(Notifying(FALSE, v, Idle))
    BY NotifyingType
  <2>4. frame' \in [Threads -> Frames] /\ \A u \in Threads : FrameOK(frame'[u])
    BY <1>7, <2>3, GotoType DEF CreateConflict
  <2> QED
    BY <1>7, <2>2, <2>4 DEF CreateConflict, TypeOK
<1>8. ASSUME NEW t \in Threads, NEW k \in Keys, NEW v \in Values, Put(t, k, v)
      PROVE  TypeOK'
  <2> DEFINE previous == Lookup(map, k)
             grown == Int32(size + SizeOf[v])
  <2>1. CASE BadSize(v)
    <3>1. /\ Fault("negative") /\ putCount' = putCount + 1 /\ fresh' = fresh \ {v}
          /\ UNCHANGED <<map, size, frame, maxSize, hitCount, missCount, createCount,
                         evictionCount, gone>>
      BY <1>8, <2>1 DEF Put
    <3> QED
      BY <3>1 DEF TypeOK, Fault
  <2>2. CASE ~BadSize(v)
    <3> /\ putCount' = putCount + 1 /\ fresh' = fresh \ {v}
        /\ UNCHANGED <<maxSize, hitCount, missCount, createCount, evictionCount, gone>>
      BY <1>8 DEF Put
    <3>1. map' \in Seq(EntrySet)
      BY <1>8, <2>2, WithType DEF Put, TypeOK
    <3>2. previous \in Values \cup {NoValue}
      BY LookupType DEF TypeOK
    <3>3. SizeOf[v] \in -(IntMax + 1) .. IntMax
      BY CacheAssumption
    <3>4. SizeOrZero(previous) \in -(IntMax + 1) .. IntMax
      BY <3>2, CacheAssumption DEF SizeOrZero
    <3>5. /\ grown \in -(IntMax + 1) .. IntMax
          /\ Overflow(size + SizeOf[v]) \subseteq {"overflow"}
      BY <3>3, Int32Type, CacheAssumption DEF TypeOK
    <3>6. /\ Int32(grown - SizeOrZero(previous)) \in -(IntMax + 1) .. IntMax
          /\ Overflow(grown - SizeOrZero(previous)) \subseteq {"overflow"}
      <4> HIDE DEF grown, previous
      <4> QED
        BY <3>4, <3>5, Int32Type, CacheAssumption
    <3>7. CASE BadSize(previous)
      <4>1. /\ size' = grown /\ UNCHANGED frame
            /\ faults' = faults \cup {"negative"} \cup Overflow(size + SizeOf[v])
        BY <1>8, <2>2, <3>7 DEF Put
      <4> HIDE DEF grown, previous
      <4>2. /\ size' \in -(IntMax + 1) .. IntMax
            /\ faults' \subseteq {"negative", "inconsistent", "overflow"}
        BY <3>5, <4>1 DEF TypeOK
      <4> QED
        BY <3>1, <4>1, <4>2 DEF TypeOK
    <3>8. CASE ~BadSize(previous)
      <4> DEFINE f == IF previous = NoValue
                        THEN ReadingMaxSize
                        ELSE Notifying(FALSE, previous, ReadingMaxSize)
      <4>1. f \in Frames /\ FrameOK(f)
        BY <3>2, NotifyingType DEF TypeOK
      <4>2. /\ Goto(t, f)
            /\ size' = Int32(grown - SizeOrZero(previous))
            /\ faults' = faults \cup Overflow(size + SizeOf[v])
                                \cup Overflow(grown - SizeOrZero(previous))
        BY <1>8, <2>2, <3>8 DEF Put
      <4>3. frame' \in [Threads -> Frames] /\ \A u \in Threads : FrameOK(frame'[u])
        BY <4>1, <4>2, GotoType
      <4> HIDE DEF f, grown, previous
      <4>4. /\ size' \in -(IntMax + 1) .. IntMax
            /\ faults' \subseteq {"negative", "inconsistent", "overflow"}
        BY <3>5, <3>6, <4>2 DEF TypeOK
      <4> QED
        BY <3>1, <4>3, <4>4 DEF TypeOK
    <3> QED
      BY <3>7, <3>8
  <2> QED
    BY <2>1, <2>2
<1>9. ASSUME NEW t \in Threads, NEW k \in Keys, Remove(t, k)
      PROVE  TypeOK'
  <2> DEFINE previous == Lookup(map, k)
  <2>1. map' \in Seq(EntrySet)
    BY <1>9, WithoutType DEF Remove, TypeOK
  <2>2. previous \in Values
    BY <1>9, LookupType DEF Remove, TypeOK
  <2>3. CASE BadSize(previous)
    BY <1>9, <2>1, <2>3 DEF Remove, TypeOK, counters, Fault
  <2>4. CASE ~BadSize(previous)
    <3>1. /\ Int32(size - SizeOf[previous]) \in -(IntMax + 1) .. IntMax
          /\ Overflow(size - SizeOf[previous]) \subseteq {"overflow"}
      <4>1. SizeOf[previous] \in -(IntMax + 1) .. IntMax
        BY <2>2, CacheAssumption
      <4> HIDE DEF previous
      <4> QED
        BY <4>1, Int32Type, CacheAssumption DEF TypeOK
    <3>2. frame' \in [Threads -> Frames] /\ \A u \in Threads : FrameOK(frame'[u])
      BY <1>9, <2>2, <2>4, NotifyingType, GotoType DEF Remove
    <3> QED
      BY <1>9, <2>1, <2>4, <3>1, <3>2 DEF Remove, TypeOK, counters
  <2> QED
    BY <2>3, <2>4
<1>10. ASSUME NEW t \in Threads, NEW n \in frame[t].seen, ReadMaxSize(t, n)
       PROVE  TypeOK'
  <2>1. n \in Int
    BY MaxSizesType DEF TypeOK, Frames
  <2> QED
    BY <1>10, <2>1, GotoType DEF ReadMaxSize, TypeOK, counters
<1>11. ASSUME NEW t \in Threads, TrimFails(t)
       PROVE  TypeOK'
  BY <1>11, GotoType DEF TrimFails, TypeOK, counters, Fault
<1>12. ASSUME NEW t \in Threads, TrimReturns(t)
       PROVE  TypeOK'
  BY <1>12, GotoType DEF TrimReturns, TypeOK, counters
<1>13. ASSUME NEW t \in Threads, TrimEvicts(t)
       PROVE  TypeOK'
  <2> DEFINE e == Eldest(map)
  <2>1. e \in EntrySet
    BY <1>13 DEF TrimEvicts, TypeOK, Eldest
  <2>2. e.value \in Values
    BY <2>1 DEF EntrySet
  <2>3. map' \in Seq(EntrySet)
    BY <1>13, WithoutType DEF TrimEvicts, TypeOK
  <2>4. CASE BadSize(e.value)
    BY <1>13, <2>3, <2>4, GotoType DEF TrimEvicts, TypeOK, Fault
  <2>5. CASE ~BadSize(e.value)
    <3>1. /\ Int32(size - SizeOf[e.value]) \in -(IntMax + 1) .. IntMax
          /\ Overflow(size - SizeOf[e.value]) \subseteq {"overflow"}
      <4>1. SizeOf[e.value] \in -(IntMax + 1) .. IntMax
        BY <2>2, CacheAssumption
      <4> HIDE DEF e
      <4> QED
        BY <4>1, Int32Type, CacheAssumption DEF TypeOK
    <3>2. frame' \in [Threads -> Frames] /\ \A u \in Threads : FrameOK(frame'[u])
      <4>1. frame[t] \in Frames /\ FrameOK(frame[t])
        BY DEF TypeOK
      <4> QED
        BY <1>13, <2>2, <2>5, <4>1, NotifyingType, GotoType DEF TrimEvicts
    <3>3. /\ size' = Int32(size - SizeOf[e.value])
          /\ faults' = faults \cup Overflow(size - SizeOf[e.value])
          /\ evictionCount' = evictionCount + 1
          /\ UNCHANGED <<maxSize, hitCount, missCount, createCount, putCount, fresh, gone>>
      BY <1>13, <2>5 DEF TrimEvicts
    <3>4. /\ size' \in -(IntMax + 1) .. IntMax
          /\ faults' \subseteq {"negative", "inconsistent", "overflow"}
      BY <3>1, <3>3 DEF TypeOK
    <3> QED
      BY <2>3, <3>2, <3>3, <3>4 DEF TypeOK
  <2> QED
    BY <2>4, <2>5
<1>14. ASSUME NEW t \in Threads, EntryRemoved(t)
       PROVE  TypeOK'
  <2> DEFINE f == [frame[t] EXCEPT !.pc = frame[t].then, !.old = NoValue,
                                   !.evicted = FALSE]
  <2>1. f \in Frames /\ FrameOK(f)
    <3>1. frame[t] \in Frames /\ FrameOK(frame[t])
      BY DEF TypeOK
    <3> QED
      BY <3>1, ReturnedType
  <2>2. frame' \in [Threads -> Frames] /\ \A u \in Threads : FrameOK(frame'[u])
    BY <1>14, <2>1, GotoType DEF EntryRemoved
  <2>3. gone' \in [Values -> {"no", "evicted", "removed"}]
    BY <1>14 DEF EntryRemoved, TypeOK
  <2> QED
    BY <1>14, <2>2, <2>3 DEF EntryRemoved, TypeOK, counters
<1>15. CASE UNCHANGED vars
  BY <1>15 DEF vars, counters, TypeOK
<1> QED
  BY <1>1, <1>2, <1>3, <1>4, <1>5, <1>6, <1>7, <1>8, <1>9, <1>10, <1>11, <1>12,
     <1>13, <1>14, <1>15 DEF Next, Call, Continue

\* In every reachable state the fields of the cache and the locals of the
\* calls under way have their types.
THEOREM TypeCorrect == Spec => []TypeOK
BY TypeInit, TypeStep, PTL DEF Spec

(***************************************************************************)
(* The cache is never left over its maximum.                               *)
(***************************************************************************)

\* A thread that is in no call, or in create, will not trim the cache.
LEMMA NotTrimming ==
    ASSUME TypeOK, NEW t \in Threads, frame[t].pc \in {"idle", "create"}
    PROVE  ~WillTrim(t)
BY DEF TypeOK, FrameOK, WillTrim

\* A step that neither makes the cache larger nor disturbs the calls that
\* will trim it does not leave it over its maximum.
LEMMA StillTrimmed ==
    ASSUME TypeOK, TypeOK', NeverLeftOverMax, faults \subseteq faults',
           size' <= size, maxSize' = maxSize,
           \A u \in Threads : WillTrim(u) => WillTrim(u)'
    PROVE  NeverLeftOverMax'
<1> SUFFICES ASSUME faults' = {}, size' > maxSize'
             PROVE  \E t \in Threads : WillTrim(t)'
  BY DEF NeverLeftOverMax
<1>1. size \in Int /\ size' \in Int /\ maxSize \in Int
  BY MaxSizesType, CacheAssumption DEF TypeOK
<1>2. faults = {} /\ size > maxSize
  BY <1>1
<1> QED
  BY <1>2 DEF NeverLeftOverMax

\* The same for a step of a thread that was not going to trim the cache.
LEMMA OthersStillTrim ==
    ASSUME TypeOK, TypeOK', NeverLeftOverMax, faults \subseteq faults',
           size' <= size, maxSize' = maxSize,
           NEW t \in Threads, frame[t].pc \in {"idle", "create"},
           \A u \in Threads \ {t} : frame'[u] = frame[u]
    PROVE  NeverLeftOverMax'
<1>1. ASSUME NEW u \in Threads, WillTrim(u)
      PROVE  WillTrim(u)'
  <2>1. u # t
    BY <1>1, NotTrimming
  <2> QED
    BY <1>1, <2>1 DEF WillTrim
<1> QED
  BY <1>1, StillTrimmed

\* A smaller size that did not overflow.
LEMMA Shrinks ==
    ASSUME TypeOK, NEW v \in Values, ~BadSize(v), Overflow(size - SizeOf[v]) = {}
    PROVE  Int32(size - SizeOf[v]) <= size
<1>1. SizeOf[v] \in 0 .. IntMax
  BY CacheAssumption DEF BadSize
<1>2. Int32(size - SizeOf[v]) = size - SizeOf[v]
  BY <1>1, Int32Type, CacheAssumption DEF TypeOK
<1> QED
  BY <1>1, <1>2, CacheAssumption DEF TypeOK

\* Every step that keeps the types leaves no cache over its maximum.
LEMMA TrimStep ==
    TypeOK /\ TypeOK' /\ NeverLeftOverMax /\ [Next]_vars => NeverLeftOverMax'
<1> SUFFICES ASSUME TypeOK, TypeOK', NeverLeftOverMax, [Next]_vars
             PROVE  NeverLeftOverMax'
  OBVIOUS
<1> USE FrameTypes
<1>0. size \in Int /\ maxSize \in Int
  BY MaxSizesType, CacheAssumption DEF TypeOK
<1>1. ASSUME NEW t \in Threads, NEW n \in MaxSizes, Resize(t, n)
      PROVE  NeverLeftOverMax'
  <2>1. frame'[t] = Trimming(n) /\ maxSize' = n /\ n \in Int
    BY <1>1, MaxSizesType DEF Resize, TypeOK
  <2>2. WillTrim(t)'
    BY <2>1 DEF WillTrim, Trimming
  <2> QED
    BY <2>2 DEF NeverLeftOverMax
<1>2. ASSUME NEW t \in Threads, NEW n \in TrimSizes \cup {-1}, TrimToSize(t, n)
      PROVE  NeverLeftOverMax'
  <2>1. n \in Int
    BY CacheAssumption
  <2>2. \A u \in Threads \ {t} : frame'[u] = frame[u]
    BY <1>2, <2>1, GotoType DEF TrimToSize
  <2> QED
    BY <1>0, <1>2, <2>2, OthersStillTrim DEF TrimToSize
<1>3. ASSUME NEW t \in Threads, NEW k \in Keys, GetHit(t, k)
      PROVE  NeverLeftOverMax'
  BY <1>0, <1>3, OthersStillTrim DEF GetHit
<1>4. ASSUME NEW t \in Threads, NEW k \in Keys, GetMiss(t, k)
      PROVE  NeverLeftOverMax'
  <2>1. \A u \in Threads \ {t} : frame'[u] = frame[u]
    BY <1>4, GotoType DEF GetMiss
  <2> QED
    BY <1>0, <1>4, <2>1, OthersStillTrim DEF GetMiss
<1>5. ASSUME NEW t \in Threads, CreateNothing(t)
      PROVE  NeverLeftOverMax'
  <2>1. \A u \in Threads \ {t} : frame'[u] = frame[u]
    BY <1>5, GotoType DEF CreateNothing
  <2> QED
    BY <1>0, <1>5, <2>1, OthersStillTrim DEF CreateNothing
<1>6. ASSUME NEW t \in Threads, NEW v \in Values, CreateKept(t, v)
      PROVE  NeverLeftOverMax'
  <2>1. CASE BadSize(v)
    <3>1. Fault("negative")
      BY <1>6, <2>1 DEF CreateKept
    <3> QED
      BY <3>1 DEF Fault, NeverLeftOverMax
  <2>2. CASE ~BadSize(v)
    <3>1. Goto(t, ReadingMaxSize) /\ maxSize' = maxSize
      BY <1>6, <2>2 DEF CreateKept
    <3>2. frame'[t] = ReadingMaxSize
      BY <3>1, GotoType DEF TypeOK
    <3>3. WillTrim(t)'
      BY <1>0, <3>1, <3>2 DEF WillTrim, ReadingMaxSize
    <3> QED
      BY <3>3 DEF NeverLeftOverMax
  <2> QED
    BY <2>1, <2>2
<1>7. ASSUME NEW t \in Threads, NEW v \in Values, CreateConflict(t, v)
      PROVE  NeverLeftOverMax'
  <2>1. Notifying(FALSE, v, Idle) \in Frames /\ FrameOK(Notifying(FALSE, v, Idle))
    BY NotifyingType
  <2>2. \A u \in Threads \ {t} : frame'[u] = frame[u]
    BY <1>7, <2>1, GotoType DEF CreateConflict
  <2> QED
    BY <1>0, <1>7, <2>2, OthersStillTrim DEF CreateConflict
<1>8. ASSUME NEW t \in Threads, NEW k \in Keys, NEW v \in Values, Put(t, k, v)
      PROVE  NeverLeftOverMax'
  <2> DEFINE previous == Lookup(map, k)
  <2>1. CASE BadSize(v)
    <3>1. Fault("negative")
      BY <1>8, <2>1 DEF Put
    <3> QED
      BY <3>1 DEF Fault, NeverLeftOverMax
  <2>2. CASE ~BadSize(v) /\ BadSize(previous)
    <3>1. "negative" \in faults'
      BY <1>8, <2>2 DEF Put
    <3> QED
      BY <3>1 DEF NeverLeftOverMax
  <2>3. CASE ~BadSize(v) /\ ~BadSize(previous)
    <3> DEFINE f == IF previous = NoValue
                      THEN ReadingMaxSize
                      ELSE Notifying(FALSE, previous, ReadingMaxSize)
    <3>1. Goto(t, f) /\ maxSize' = maxSize
      BY <1>8, <2>3 DEF Put
    <3>2. previous \in Values \cup {NoValue}
      BY LookupType DEF TypeOK
    <3>3. /\ f \in Frames /\ FrameOK(f)
          /\ f.then = "read" /\ f.seen = {maxSize}
      <4>1. ReadingMaxSize.then = "read" /\ ReadingMaxSize.seen = {maxSize}
        BY DEF ReadingMaxSize
      <4> QED
        BY <3>2, <4>1, NotifyingType DEF TypeOK
    <3>4. frame'[t] = f
      BY <3>1, <3>3, GotoType
    <3>5. WillTrim(t)'
      <4> HIDE DEF f
      <4> QED
        BY <1>0, <3>1, <3>3, <3>4 DEF WillTrim
    <3> QED
      BY <3>5 DEF NeverLeftOverMax
  <2> QED
    BY <2>1, <2>2, <2>3
<1>9. ASSUME NEW t \in Threads, NEW k \in Keys, Remove(t, k)
      PROVE  NeverLeftOverMax'
  <2> DEFINE previous == Lookup(map, k)
  <2>1. previous \in Values
    BY <1>9, LookupType DEF Remove, TypeOK
  <2>2. CASE BadSize(previous)
    <3>1. Fault("negative")
      BY <1>9, <2>2 DEF Remove
    <3> QED
      BY <3>1 DEF Fault, NeverLeftOverMax
  <2>3. CASE ~BadSize(previous)
    <3>1. /\ frame[t].pc = "idle" /\ maxSize' = maxSize
          /\ Goto(t, Notifying(FALSE, previous, Idle))
          /\ size' = Int32(size - SizeOf[previous])
          /\ faults' = faults \cup Overflow(size - SizeOf[previous])
      BY <1>9, <2>3 DEF Remove
    <3>2. \A u \in Threads \ {t} : frame'[u] = frame[u]
      BY <2>1, <3>1, NotifyingType, GotoType
    <3> HIDE DEF previous
    <3>3. CASE Overflow(size - SizeOf[previous]) = {}
      BY <2>1, <2>3, <3>1, <3>2, <3>3, Shrinks, OthersStillTrim
    <3>4. CASE Overflow(size - SizeOf[previous]) # {}
      BY <3>1, <3>4 DEF NeverLeftOverMax
    <3> QED
      BY <3>3, <3>4
  <2> QED
    BY <2>2, <2>3
<1>10. ASSUME NEW t \in Threads, NEW n \in frame[t].seen, ReadMaxSize(t, n)
       PROVE  NeverLeftOverMax'
  <2>1. n \in Int /\ frame[t].then = "read"
    BY <1>10, MaxSizesType DEF ReadMaxSize, TypeOK, Frames, FrameOK
  <2>2. frame'[t] = Trimming(n) /\ \A u \in Threads \ {t} : frame'[u] = frame[u]
    BY <1>10, <2>1, GotoType DEF ReadMaxSize
  <2>3. ASSUME NEW u \in Threads, WillTrim(u)
        PROVE  WillTrim(u)'
    <3>1. CASE u = t
      BY <1>10, <2>1, <2>2, <2>3, <3>1 DEF WillTrim, Trimming, ReadMaxSize
    <3>2. CASE u # t
      BY <1>10, <2>2, <2>3, <3>2 DEF WillTrim, ReadMaxSize
    <3> QED
      BY <3>1, <3>2
  <2> QED
    BY <1>0, <1>10, <2>3, StillTrimmed DEF ReadMaxSize
<1>11. ASSUME NEW t \in Threads, TrimFails(t)
       PROVE  NeverLeftOverMax'
  BY <1>11 DEF TrimFails, Fault, NeverLeftOverMax
<1>12. ASSUME NEW t \in Threads, TrimReturns(t)
       PROVE  NeverLeftOverMax'
  <2> SUFFICES ASSUME faults' = {}, size' > maxSize'
               PROVE  \E u \in Threads : WillTrim(u)'
    BY DEF NeverLeftOverMax
  <2>1. frame[t].then = "trim" /\ frame[t].limit \in Int /\ maxSize > 0
    <3>1. frame[t].pc = "trim" /\ FrameOK(frame[t]) /\ frame[t] \in Frames
      BY <1>12 DEF TrimReturns, TypeOK
    <3>2. maxSize > 0
      BY MaxSizesType DEF TypeOK
    <3> QED
      BY <3>1, <3>2 DEF FrameOK, Frames
  <2>2. size <= frame[t].limit \/ size = 0
    BY <1>12 DEF TrimReturns, Inconsistent
  <2>3. PICK u \in Threads : WillTrim(u)
    BY <1>12 DEF TrimReturns, NeverLeftOverMax
  <2>4. u # t
    BY <1>0, <1>12, <2>1, <2>2, <2>3 DEF TrimReturns, WillTrim
  <2>5. frame'[u] = frame[u] /\ maxSize' = maxSize
    BY <1>12, <2>4, GotoType DEF TrimReturns
  <2> QED
    BY <2>3, <2>5 DEF WillTrim
<1>13. ASSUME NEW t \in Threads, TrimEvicts(t)
       PROVE  NeverLeftOverMax'
  <2> DEFINE e == Eldest(map)
  <2>1. e.value \in Values
    <3>1. e \in EntrySet
      BY <1>13 DEF TrimEvicts, TypeOK, Eldest
    <3> QED
      BY <3>1 DEF EntrySet
  <2>2. CASE BadSize(e.value)
    <3>1. Fault("negative")
      BY <1>13, <2>2 DEF TrimEvicts
    <3> QED
      BY <3>1 DEF Fault, NeverLeftOverMax
  <2>3. CASE ~BadSize(e.value)
    <3>1. /\ maxSize' = maxSize
          /\ Goto(t, Notifying(TRUE, e.value, frame[t]))
          /\ size' = Int32(size - SizeOf[e.value])
          /\ faults' = faults \cup Overflow(size - SizeOf[e.value])
      BY <1>13, <2>3 DEF TrimEvicts
    <3> DEFINE f == Notifying(TRUE, e.value, frame[t])
    <3>2. /\ f \in Frames /\ FrameOK(f)
          /\ f.then = frame[t].then /\ f.limit = frame[t].limit /\ f.seen = frame[t].seen
      <4>1. frame[t] \in Frames /\ FrameOK(frame[t])
        BY DEF TypeOK
      <4> HIDE DEF e
      <4> QED
        BY <2>1, <4>1, NotifyingType
    <3> HIDE DEF e, f
    <3>3. frame'[t] = f /\ \A u \in Threads \ {t} : frame'[u] = frame[u]
      BY <3>1, <3>2, GotoType DEF f
    <3>4. ASSUME NEW u \in Threads, WillTrim(u)
          PROVE  WillTrim(u)'
      BY <3>1, <3>2, <3>3, <3>4 DEF WillTrim
    <3>5. CASE Overflow(size - SizeOf[e.value]) = {}
      BY <2>1, <2>3, <3>1, <3>4, <3>5, Shrinks, StillTrimmed
    <3>6. CASE Overflow(size - SizeOf[e.value]) # {}
      BY <3>1, <3>6 DEF NeverLeftOverMax
    <3> QED
      BY <3>5, <3>6
  <2> QED
    BY <2>2, <2>3
<1>14. ASSUME NEW t \in Threads, EntryRemoved(t)
       PROVE  NeverLeftOverMax'
  <2> DEFINE f == [frame[t] EXCEPT !.pc = frame[t].then, !.old = NoValue,
                                   !.evicted = FALSE]
  <2>1. /\ f \in Frames /\ FrameOK(f)
        /\ f.then = frame[t].then /\ f.limit = frame[t].limit /\ f.seen = frame[t].seen
    <3>1. frame[t] \in Frames /\ FrameOK(frame[t])
      BY DEF TypeOK
    <3>2. f \in Frames /\ FrameOK(f)
      BY <3>1, ReturnedType
    <3>3. f.then = frame[t].then /\ f.limit = frame[t].limit /\ f.seen = frame[t].seen
      BY <3>1 DEF Frames
    <3> QED
      BY <3>2, <3>3
  <2>2. Goto(t, f) /\ UNCHANGED <<size, maxSize, faults>>
    BY <1>14 DEF EntryRemoved
  <2> HIDE DEF f
  <2>3. frame'[t] = f /\ \A u \in Threads \ {t} : frame'[u] = frame[u]
    BY <2>1, <2>2, GotoType
  <2>4. ASSUME NEW u \in Threads, WillTrim(u)
        PROVE  WillTrim(u)'
    BY <2>1, <2>2, <2>3, <2>4 DEF WillTrim
  <2> QED
    BY <1>0, <2>2, <2>4, StillTrimmed
<1>15. CASE UNCHANGED vars
  BY <1>15 DEF vars, NeverLeftOverMax, WillTrim
<1> QED
  BY <1>1, <1>2, <1>3, <1>4, <1>5, <1>6, <1>7, <1>8, <1>9, <1>10, <1>11, <1>12,
     <1>13, <1>14, <1>15 DEF Next, Call, Continue

\* Whatever the interleaving and whatever the racy reads of maxSize return, a
\* cache that is over its maximum has a call under way that will trim it.
THEOREM TrimIsNeverLost == Spec => []NeverLeftOverMax
<1>1. Init => NeverLeftOverMax
  BY CacheAssumption DEF Init, NeverLeftOverMax, IsPositiveInt
<1> QED
  BY <1>1, TypeInit, TypeStep, TrimStep, PTL DEF Spec

\* Once every call has returned, or waits in create, the cache is within its
\* maximum.
THEOREM QuietCacheIsWithinMax == Spec => []WithinMaxWhenQuiet
<1>1. TypeOK /\ NeverLeftOverMax => WithinMaxWhenQuiet
  <2> SUFFICES ASSUME TypeOK, NeverLeftOverMax, faults = {},
                      \A t \in Threads : frame[t].pc \in {"idle", "create"}
               PROVE  size <= maxSize
    BY DEF WithinMaxWhenQuiet
  <2>1. size \in Int /\ maxSize \in Int
    BY MaxSizesType, CacheAssumption DEF TypeOK
  <2> QED
    BY <2>1, NotTrimming DEF NeverLeftOverMax
<1> QED
  BY <1>1, TypeCorrect, TrimIsNeverLost, PTL

(***************************************************************************)
(* What the operations of LruHashMap do to the keys and to the value of    *)
(* each key, for maps whose keys are distinct: the order of the entries is *)
(* all that a use of the map changes besides.                              *)
(***************************************************************************)

\* A map: a sequence of entries, no two of them of the same key.
IsMap(m, S) ==
    /\ m \in Seq(S)
    /\ \A i, j \in 1 .. Len(m) : m[i].key = m[j].key => i = j

\* The entry of a key is found where it is.
LEMMA LookupAt ==
    ASSUME NEW S, NEW m, IsMap(m, S), NEW i \in 1 .. Len(m)
    PROVE  /\ m[i].key \in KeysOf(m)
           /\ IndexOfKey(m, m[i].key) = i
           /\ Lookup(m, m[i].key) = m[i].value
<1>1. DOMAIN m = 1 .. Len(m)
  BY DEF IsMap
<1>2. m[i].key \in KeysOf(m)
  BY <1>1 DEF KeysOf
<1>3. IndexOfKey(m, m[i].key) = i
  BY <1>1 DEF IndexOfKey, IsMap
<1> QED
  BY <1>2, <1>3 DEF Lookup

\* Of a key that is not in the map nothing is found.
LEMMA LookupNone ==
    ASSUME NEW m, NEW k, k \notin KeysOf(m)
    PROVE  Lookup(m, k) = NoValue
BY DEF Lookup

\* A key of the map has one entry.
LEMMA KeyAt ==
    ASSUME NEW S, NEW m, IsMap(m, S), NEW k
    PROVE  k \in KeysOf(m) <=> \E i \in 1 .. Len(m) : m[i].key = k
BY DEF IsMap, KeysOf

\* remove takes the entry of its key out and leaves the other keys their
\* values.
LEMMA WithoutMap ==
    ASSUME NEW S, NEW m, IsMap(m, S), NEW k
    PROVE  /\ IsMap(Without(m, k), S)
           /\ KeysOf(Without(m, k)) = KeysOf(m) \ {k}
           /\ Lookup(Without(m, k), k) = NoValue
           /\ \A j : j # k => Lookup(Without(m, k), j) = Lookup(m, j)
<1>1. CASE k \notin KeysOf(m)
  BY <1>1, LookupNone DEF Without
<1>2. CASE k \in KeysOf(m)
  <2>1. PICK p \in 1 .. Len(m) : m[p].key = k
    BY <1>2, KeyAt
  <2>2. IndexOfKey(m, k) = p
    BY <2>1, LookupAt
  <2> DEFINE r == Without(m, k)
             n == Len(m)
             At(j) == IF j < p THEN j ELSE j + 1
  <2>3. r = SubSeq(m, 1, p - 1) \o SubSeq(m, p + 1, Len(m))
    BY <1>2, <2>2 DEF Without, Seqs!RemoveAt
  <2>4. m \in Seq(S)
    BY DEF IsMap
  <2> HIDE DEF r
  <2>5. /\ r \in Seq(S) /\ Len(r) = n - 1
        /\ r = [j \in 1 .. n - 1 |-> IF j < p THEN m[j] ELSE m[j + 1]]
    <3>1. p \in 1 .. Len(m)
      BY <2>1
    <3>2. r \in Seq(S)
      BY <2>3, <2>4, <3>1, SequenceWithout, Zenon
    <3>3. Len(r) = n - 1
      BY <2>3, <2>4, <3>1, SequenceWithout, Zenon
    <3>4. r = [j \in 1 .. Len(m) - 1 |-> IF j < p THEN m[j] ELSE m[j + 1]]
      BY <2>3, <2>4, <3>1, SequenceWithout, ZenonT(60)
    <3> QED
      BY <3>2, <3>3, <3>4
  <2> HIDE DEF n
  <2>6. \A j \in 1 .. n - 1 : r[j] = m[At(j)] /\ At(j) \in 1 .. n /\ At(j) # p
    BY <2>1, <2>4, <2>5 DEF n
  <2>7. \A i, j \in 1 .. n - 1 : At(i) = At(j) => i = j
    BY <2>4
  <2>8. \A i \in 1 .. n : i # p => \E j \in 1 .. n - 1 : i = At(j)
    <3> SUFFICES ASSUME NEW i \in 1 .. n, i # p
                 PROVE  \E j \in 1 .. n - 1 : i = At(j)
      OBVIOUS
    <3>1. CASE i < p
      BY <2>1, <2>4, <3>1 DEF n
    <3>2. CASE i > p
      <4>1. i - 1 \in 1 .. n - 1 /\ i = At(i - 1)
        BY <2>1, <2>4, <3>2 DEF n
      <4> QED
        BY <4>1
    <3> QED
      BY <2>1, <2>4, <3>1, <3>2 DEF n
  <2> HIDE DEF At
  <2>9. \A i, j \in 1 .. n : m[i].key = m[j].key => i = j
    BY DEF IsMap, n
  <2>10. IsMap(r, S)
    <3> SUFFICES ASSUME NEW i \in 1 .. Len(r), NEW j \in 1 .. Len(r), r[i].key = r[j].key
                 PROVE  i = j
      BY <2>5 DEF IsMap
    <3>1. /\ r[i] = m[At(i)] /\ At(i) \in 1 .. n
          /\ r[j] = m[At(j)] /\ At(j) \in 1 .. n
      BY <2>5, <2>6
    <3>2. At(i) = At(j)
      BY <2>9, <3>1
    <3> QED
      BY <2>5, <2>7, <3>2
  <2>11. \A j : j \in KeysOf(r) <=> j \in KeysOf(m) /\ j # k
    <3> TAKE j
    <3>1. j \in KeysOf(r) <=> \E i \in 1 .. n - 1 : r[i].key = j
      <4>1. j \in KeysOf(r) <=> \E i \in 1 .. Len(r) : r[i].key = j
        BY <2>10, KeyAt
      <4> QED
        BY <2>5, <4>1
    <3>2. j \in KeysOf(m) <=> \E i \in 1 .. n : m[i].key = j
      BY KeyAt DEF n
    <3>3. \A i \in 1 .. n : i # p => m[i].key # k
      BY <2>1, <2>9 DEF n
    <3>4. ASSUME NEW i \in 1 .. n - 1, r[i].key = j
          PROVE  j \in KeysOf(m) /\ j # k
      BY <2>6, <3>2, <3>3, <3>4
    <3>5. ASSUME NEW i \in 1 .. n, m[i].key = j, j # k
          PROVE  \E h \in 1 .. n - 1 : r[h].key = j
      BY <2>1, <2>6, <2>8, <3>5
    <3> QED
      BY <3>1, <3>2, <3>4, <3>5
  <2>12. ASSUME NEW j, j # k
         PROVE  Lookup(r, j) = Lookup(m, j)
    <3>1. CASE j \notin KeysOf(m)
      BY <2>11, <2>12, <3>1, LookupNone
    <3>2. CASE j \in KeysOf(m)
      <4>1. PICK i \in 1 .. n - 1 : r[i].key = j
        BY <2>5, <2>10, <2>11, <2>12, <3>2, KeyAt
      <4>2. r[i] = m[At(i)] /\ At(i) \in 1 .. Len(m)
        BY <2>6 DEF n
      <4>3. Lookup(r, j) = r[i].value
        BY <2>5, <2>10, <4>1, LookupAt
      <4>4. Lookup(m, m[At(i)].key) = m[At(i)].value
        BY <4>2, LookupAt
      <4> QED
        BY <4>1, <4>2, <4>3, <4>4
    <3> QED
      BY <3>1, <3>2
  <2>13. Lookup(r, k) = NoValue
    BY <2>11, LookupNone
  <2> QED
    BY <2>10, <2>11, <2>12, <2>13 DEF r
<1> QED
  BY <1>1, <1>2

\* put maps its key to its value and leaves the other keys theirs.
LEMMA WithMap ==
    ASSUME NEW S, NEW m, IsMap(m, S), NEW k, NEW v, [key |-> k, value |-> v] \in S
    PROVE  /\ IsMap(With(m, k, v), S)
           /\ KeysOf(With(m, k, v)) = KeysOf(m) \cup {k}
           /\ Lookup(With(m, k, v), k) = v
           /\ \A j : j # k => Lookup(With(m, k, v), j) = Lookup(m, j)
<1> DEFINE w == Without(m, k)
           e == [key |-> k, value |-> v]
           r == With(m, k, v)
           n == Len(w)
<1>1. /\ IsMap(w, S)
      /\ \A j : j \in KeysOf(w) <=> j \in KeysOf(m) /\ j # k
      /\ \A j : j # k => Lookup(w, j) = Lookup(m, j)
  BY WithoutMap
<1>2. r = Append(w, e)
  BY DEF With
<1>3. e.key = k /\ e.value = v /\ e \in S
  OBVIOUS
<1> HIDE DEF w, e, r
<1>4. w \in Seq(S) /\ n \in Nat
  BY <1>1 DEF IsMap
<1>5. /\ r \in Seq(S) /\ Len(r) = n + 1
      /\ r[n + 1] = e /\ \A i \in 1 .. n : r[i] = w[i]
  BY <1>2, <1>3, <1>4
<1>6. \A i \in 1 .. n : w[i].key # k
  BY <1>1, KeyAt
<1>7. \A i, j \in 1 .. n : w[i].key = w[j].key => i = j
  BY <1>1 DEF IsMap
<1> HIDE DEF n
<1>8. IsMap(r, S)
  <2> SUFFICES ASSUME NEW i \in 1 .. n + 1, NEW j \in 1 .. n + 1, r[i].key = r[j].key
               PROVE  i = j
    BY <1>5 DEF IsMap
  <2>1. CASE i \in 1 .. n /\ j \in 1 .. n
    BY <1>5, <1>7, <2>1
  <2>2. CASE i = n + 1 \/ j = n + 1
    BY <1>3, <1>4, <1>5, <1>6, <2>2
  <2> QED
    BY <1>4, <2>1, <2>2
<1>9. \A i \in 1 .. n + 1 : r[i].key = k \/ r[i].key \in KeysOf(m)
  <2>1. \A i \in 1 .. n : w[i].key \in KeysOf(m)
    BY <1>1, KeyAt DEF n
  <2> QED
    BY <1>3, <1>4, <1>5, <2>1
<1>10. Lookup(r, k) = v /\ k \in KeysOf(r)
  <2>1. n + 1 \in 1 .. Len(r)
    BY <1>4, <1>5
  <2> QED
    BY <1>3, <1>5, <1>8, <2>1, LookupAt
<1>11. ASSUME NEW j, j # k, j \in KeysOf(m)
       PROVE  j \in KeysOf(r) /\ Lookup(r, j) = Lookup(m, j)
  <2>1. PICK i \in 1 .. n : w[i].key = j
    BY <1>1, <1>11, KeyAt DEF n
  <2>2. i \in 1 .. Len(r) /\ r[i] = w[i]
    BY <1>4, <1>5
  <2>3. j \in KeysOf(r) /\ Lookup(r, j) = r[i].value
    BY <1>8, <2>1, <2>2, LookupAt
  <2>4. Lookup(w, j) = w[i].value
    BY <1>1, <2>1, LookupAt DEF n
  <2> QED
    BY <1>1, <1>11, <2>2, <2>3, <2>4
<1>12. ASSUME NEW j, j \in KeysOf(r)
       PROVE  j = k \/ j \in KeysOf(m)
  BY <1>5, <1>8, <1>9, <1>12, KeyAt
<1>13. ASSUME NEW j, j # k, j \notin KeysOf(m)
       PROVE  Lookup(r, j) = Lookup(m, j)
  BY <1>12, <1>13, LookupNone
<1> QED
  BY <1>8, <1>10, <1>11, <1>12, <1>13 DEF r

\* get changes the order of the entries only.
LEMMA TouchedMap ==
    ASSUME NEW S, NEW m, IsMap(m, S), NEW k,
           \A s \in S : s = [key |-> s.key, value |-> s.value]
    PROVE  /\ IsMap(Touched(m, k), S)
           /\ KeysOf(Touched(m, k)) = KeysOf(m)
           /\ \A j : Lookup(Touched(m, k), j) = Lookup(m, j)
<1>1. CASE k \notin KeysOf(m)
  BY <1>1 DEF Touched
<1>2. CASE k \in KeysOf(m)
  <2>1. PICK i \in 1 .. Len(m) : m[i].key = k
    BY <1>2, KeyAt
  <2>2. m[i] \in S /\ Lookup(m, k) = m[i].value
    BY <2>1, LookupAt DEF IsMap
  <2>3. [key |-> k, value |-> Lookup(m, k)] \in S
    BY <2>1, <2>2
  <2>4. Touched(m, k) = With(m, k, Lookup(m, k))
    BY <1>2 DEF Touched
  <2> QED
    <3> DEFINE v == Lookup(m, k)
    <3>1. [key |-> k, value |-> v] \in S
      BY <2>3
    <3>2. Touched(m, k) = With(m, k, v)
      BY <2>4
    <3>3. \A j : j # k => Lookup(With(m, k, v), j) = Lookup(m, j)
      BY <3>1, WithMap
    <3>4. /\ IsMap(With(m, k, v), S) /\ KeysOf(With(m, k, v)) = KeysOf(m) \cup {k}
          /\ Lookup(With(m, k, v), k) = v
      BY <3>1, WithMap
    <3> QED
      BY <1>2, <3>2, <3>3, <3>4, Zenon
<1> QED
  BY <1>1, <1>2

\* The eldest entry is one of the entries.
LEMMA EldestMap ==
    ASSUME NEW S, NEW m, IsMap(m, S), m # <<>>
    PROVE  /\ Eldest(m) \in S
           /\ Eldest(m).key \in KeysOf(m)
           /\ Lookup(m, Eldest(m).key) = Eldest(m).value
<1>1. 1 \in 1 .. Len(m) /\ Eldest(m) = m[1] /\ m[1] \in S
  BY DEF Eldest, IsMap
<1> QED
  BY <1>1, LookupAt

(***************************************************************************)
(* What LruCache does with its entries.  The proofs see the cache through  *)
(* the value of each key (Contents) and the value each call still owes to  *)
(* entryRemoved (Owed).  StepIsMove says what a step can do to those.      *)
(***************************************************************************)

Contents == [k \in Keys |-> Lookup(map, k)]

Owed == [t \in Threads |->
           IF frame[t].pc = "notify" THEN frame[t].old ELSE NoValue]

MapOK == IsMap(map, EntrySet)

\* v is handed to the cache and is now the value of k.
Accepted(k, v) ==
    /\ v \in fresh
    /\ fresh' = fresh \ {v}
    /\ Contents' = [Contents EXCEPT ![k] = v]
    /\ gone' = gone

\* The entry of k is taken out.
Dropped(k) ==
    /\ Contents[k] # NoValue
    /\ Contents' = [Contents EXCEPT ![k] = NoValue]
    /\ UNCHANGED <<fresh, gone>>

\* The value k has had, if any, leaves: t owes it to entryRemoved, or the
\* exception of its sizeOf has ended the call.
Left(t, k) ==
    \/ Owed[t] = NoValue /\ Owed' = [Owed EXCEPT ![t] = Contents[k]]
    \/ BadSize(Contents[k]) /\ Owed' = Owed

\* t has created v and found a value for its key.
Refused(t, v) ==
    /\ v \in fresh
    /\ \E k \in Keys : Contents[k] # NoValue
    /\ fresh' = fresh \ {v}
    /\ Owed[t] = NoValue
    /\ Owed' = [Owed EXCEPT ![t] = v]
    /\ UNCHANGED <<Contents, gone>>

\* t has called entryRemoved.
Released(t, how) ==
    /\ Owed[t] \in Values
    /\ Owed' = [Owed EXCEPT ![t] = NoValue]
    /\ gone' = [gone EXCEPT ![Owed[t]] = how]
    /\ UNCHANGED <<Contents, fresh>>

\* Nothing of all this; a put that throws for its value has used it up.
Unmoved ==
    /\ fresh' \subseteq fresh
    /\ UNCHANGED <<Contents, Owed, gone>>

Moved ==
    \/ Unmoved
    \/ \E t \in Threads, k \in Keys :
         /\ Left(t, k)
         /\ Dropped(k) \/ \E v \in Values : Accepted(k, v)
    \/ \E t \in Threads, v \in Values : Refused(t, v)
    \/ \E t \in Threads, how \in {"evicted", "removed"} : Released(t, how)

(***************************************************************************)
(* The operations of the map, as Contents sees them.                       *)
(***************************************************************************)

\* The map has keys and values only.
LEMMA ContentsType ==
    ASSUME TypeOK, MapOK
    PROVE  /\ KeysOf(map) \subseteq Keys
           /\ Contents \in [Keys -> Values \cup {NoValue}]
           /\ \A k \in Keys : Contents[k] # NoValue <=> k \in KeysOf(map)
<1>1. \A k : k \in KeysOf(map) => k \in Keys
  <2>1. map \in Seq(EntrySet)
    BY DEF TypeOK
  <2>2. \A i \in 1 .. Len(map) : map[i].key \in Keys
    <3>1. \A i \in 1 .. Len(map) : map[i] \in EntrySet
      BY <2>1
    <3> QED
      BY <3>1 DEF EntrySet
  <2> QED
    BY <2>2, KeyAt DEF MapOK
<1>2. \A k \in Keys : Contents[k] = Lookup(map, k)
  BY DEF Contents
<1>3. \A k : /\ k \in KeysOf(map) => Lookup(map, k) \in Values
             /\ k \notin KeysOf(map) => Lookup(map, k) = NoValue
  BY LookupType DEF TypeOK
<1>4. NoValue \notin Values
  BY CacheAssumption
<1>5. Contents \in [Keys -> Values \cup {NoValue}]
  BY <1>3 DEF Contents
<1> QED
  BY <1>1, <1>2, <1>3, <1>4, <1>5

\* put of k and v changes the value of k.
LEMMA ContentsWith ==
    ASSUME TypeOK, MapOK, NEW k \in Keys, NEW v \in Values, map' = With(map, k, v)
    PROVE  /\ MapOK'
           /\ Contents' = [Contents EXCEPT ![k] = v]
<1>1. [key |-> k, value |-> v] \in EntrySet
  BY DEF EntrySet
<1>2. /\ IsMap(map', EntrySet)
      /\ Lookup(map', k) = v
      /\ \A j : j # k => Lookup(map', j) = Lookup(map, j)
  BY <1>1, WithMap DEF MapOK
<1>3. Contents' = [Contents EXCEPT ![k] = v]
  BY <1>2 DEF Contents
<1> QED
  BY <1>2, <1>3 DEF MapOK

\* remove of k takes its value away.
LEMMA ContentsWithout ==
    ASSUME TypeOK, MapOK, NEW k \in Keys, map' = Without(map, k)
    PROVE  /\ MapOK'
           /\ Contents' = [Contents EXCEPT ![k] = NoValue]
<1>1. /\ IsMap(map', EntrySet)
      /\ Lookup(map', k) = NoValue
      /\ \A j : j # k => Lookup(map', j) = Lookup(map, j)
  BY WithoutMap DEF MapOK
<1>2. Contents' = [Contents EXCEPT ![k] = NoValue]
  BY <1>1 DEF Contents
<1> QED
  BY <1>1, <1>2 DEF MapOK

\* get of k changes no value.
LEMMA ContentsTouched ==
    ASSUME TypeOK, MapOK, NEW k, map' = Touched(map, k)
    PROVE  MapOK' /\ Contents' = Contents
<1>1. \A e \in EntrySet : e = [key |-> e.key, value |-> e.value]
  BY DEF EntrySet
<1>2. /\ IsMap(map', EntrySet)
      /\ \A j : Lookup(map', j) = Lookup(map, j)
  BY <1>1, TouchedMap DEF MapOK
<1> QED
  BY <1>2 DEF MapOK, Contents

\* The undone put of a created value changes no value.
LEMMA ContentsUndone ==
    ASSUME TypeOK, MapOK, NEW k \in KeysOf(map), NEW v \in Values,
           map' = PutUndone(k, v)
    PROVE  MapOK' /\ Contents' = Contents
<1> DEFINE w == With(map, k, v)
           old == Lookup(map, k)
<1>1. k \in Keys /\ old \in Values
  BY ContentsType, LookupType DEF TypeOK
<1>2. [key |-> k, value |-> v] \in EntrySet
  BY <1>1 DEF EntrySet
<1>3. IsMap(w, EntrySet) /\ \A j : j # k => Lookup(w, j) = Lookup(map, j)
  BY <1>2, WithMap DEF MapOK
<1>4. map' = With(w, k, old)
  BY DEF PutUndone
<1> HIDE DEF w, old
<1>5. [key |-> k, value |-> old] \in EntrySet
  BY <1>1 DEF EntrySet
<1>6. /\ IsMap(map', EntrySet)
      /\ Lookup(map', k) = old
      /\ \A j : j # k => Lookup(map', j) = Lookup(w, j)
  BY <1>3, <1>4, <1>5, WithMap
<1>7. \A j : Lookup(map', j) = Lookup(map, j)
  BY <1>3, <1>6 DEF old
<1> QED
  BY <1>6, <1>7 DEF MapOK, Contents

\* Nothing else changes a value.
LEMMA ContentsSame ==
    ASSUME MapOK, map' = map
    PROVE  MapOK' /\ Contents' = Contents
BY DEF MapOK, Contents

(***************************************************************************)
(* The calls, as Owed sees them.                                           *)
(***************************************************************************)

\* A call owes a value from the step that takes it out to its callback.
LEMMA OwedType ==
    ASSUME TypeOK
    PROVE  /\ Owed \in [Threads -> Values \cup {NoValue}]
           /\ \A t \in Threads : Owed[t] # NoValue <=> frame[t].pc = "notify"
           /\ \A t \in Threads : frame[t].pc = "notify" =>
                Owed[t] = frame[t].old /\ Owed[t] \in Values
<1>1. \A t \in Threads : frame[t].pc = "notify" => frame[t].old \in Values
  BY DEF TypeOK, FrameOK
<1>2. NoValue \notin Values
  BY CacheAssumption
<1> QED
  BY <1>1, <1>2 DEF Owed

\* A call that owes no value goes on without one.
LEMMA OwedStays ==
    ASSUME TypeOK, NEW t \in Threads, NEW f \in Frames, FrameOK(f), Goto(t, f),
           frame[t].pc # "notify", f.pc # "notify"
    PROVE  Owed' = Owed
<1>1. frame'[t] = f /\ \A u \in Threads \ {t} : frame'[u] = frame[u]
  BY GotoType
<1> QED
  BY <1>1 DEF Owed

\* A call that has taken a value out owes it.
LEMMA OwedNow ==
    ASSUME TypeOK, NEW t \in Threads, NEW f \in Frames, FrameOK(f),
           NEW v \in Values, NEW e \in BOOLEAN, Goto(t, Notifying(e, v, f)),
           frame[t].pc # "notify"
    PROVE  Owed[t] = NoValue /\ Owed' = [Owed EXCEPT ![t] = v]
<1> DEFINE g == Notifying(e, v, f)
<1>1. g \in Frames /\ FrameOK(g)
  BY NotifyingType
<1>2. g.pc = "notify" /\ g.old = v
  BY DEF Notifying, Frames
<1> HIDE DEF g
<1>3. frame'[t] = g /\ \A u \in Threads \ {t} : frame'[u] = frame[u]
  BY <1>1, GotoType DEF g
<1> QED
  BY <1>2, <1>3 DEF Owed

(***************************************************************************)
(* Every step keeps a map a map, and is one of the moves above.            *)
(***************************************************************************)

\* No two entries have the same key at the start.
LEMMA MapInit == Init => MapOK
BY DEF Init, MapOK, IsMap

\* What one step of the cache can do to its entries and to the values owed.
LEMMA StepIsMove ==
    ASSUME TypeOK, MapOK, [Next]_vars
    PROVE  MapOK' /\ Moved
<1> USE FrameTypes
<1>0. ASSUME UNCHANGED <<map, gone>>, fresh' \subseteq fresh, Owed' = Owed
      PROVE  MapOK' /\ Moved
  BY <1>0, ContentsSame DEF Moved, Unmoved
<1>1. ASSUME NEW t \in Threads, NEW n \in MaxSizes, Resize(t, n)
      PROVE  MapOK' /\ Moved
  <2>1. ASSUME NEW u \in Threads
        PROVE  /\ frame'[u].pc = "notify" <=> frame[u].pc = "notify"
               /\ frame[u].pc = "notify" => frame'[u].old = frame[u].old
    <3>1. frame[u] \in Frames
      BY DEF TypeOK
    <3>2. CASE u = t
      BY <1>1, <3>2 DEF Resize, TypeOK, Trimming
    <3>3. CASE u # t /\ frame[u].seen = {}
      BY <1>1, <3>3 DEF Resize, TypeOK
    <3>4. CASE u # t /\ frame[u].seen # {}
      <4>1. frame'[u] = [frame[u] EXCEPT !.seen = @ \cup {n}]
        BY <1>1, <3>4 DEF Resize, TypeOK
      <4> QED
        BY <3>1, <4>1 DEF Frames
    <3> QED
      BY <3>2, <3>3, <3>4
  <2>2. Owed' = Owed
    BY <2>1 DEF Owed
  <2> QED
    BY <1>0, <1>1, <2>2 DEF Resize
<1>2. ASSUME NEW t \in Threads, NEW n \in TrimSizes \cup {-1}, TrimToSize(t, n)
      PROVE  MapOK' /\ Moved
  <2>1. n \in Int
    BY CacheAssumption
  <2>2. Trimming(n).pc # "notify"
    BY DEF Trimming
  <2>3. Owed' = Owed
    BY <1>2, <2>1, <2>2, OwedStays DEF TrimToSize
  <2> QED
    BY <1>0, <1>2, <2>3 DEF TrimToSize
<1>3. ASSUME NEW t \in Threads, NEW k \in Keys, GetHit(t, k)
      PROVE  MapOK' /\ Moved
  <2>1. MapOK' /\ Contents' = Contents
    BY <1>3, ContentsTouched DEF GetHit
  <2>2. Owed' = Owed /\ fresh' = fresh /\ gone' = gone
    BY <1>3 DEF GetHit, Owed
  <2> QED
    BY <2>1, <2>2 DEF Moved, Unmoved
<1>4. ASSUME NEW t \in Threads, NEW k \in Keys, GetMiss(t, k)
      PROVE  MapOK' /\ Moved
  <2>1. Creating(k).pc # "notify"
    BY DEF Creating
  <2>2. Owed' = Owed
    BY <1>4, <2>1, OwedStays DEF GetMiss
  <2> QED
    BY <1>0, <1>4, <2>2 DEF GetMiss
<1>5. Idle.pc # "notify" /\ ReadingMaxSize.pc # "notify"
  BY DEF Idle, ReadingMaxSize
<1>6. ASSUME NEW t \in Threads, CreateNothing(t)
      PROVE  MapOK' /\ Moved
  <2>1. Owed' = Owed
    BY <1>5, <1>6, OwedStays DEF CreateNothing
  <2> QED
    BY <1>0, <1>6, <2>1 DEF CreateNothing
<1>7. ASSUME NEW t \in Threads, NEW v \in Values, CreateKept(t, v)
      PROVE  MapOK' /\ Moved
  <2> DEFINE k == frame[t].key
  <2>1. k \in Keys /\ frame[t].pc # "notify"
    BY <1>7 DEF CreateKept, TypeOK, FrameOK
  <2>2. MapOK' /\ Contents' = [Contents EXCEPT ![k] = v]
    BY <1>7, <2>1, ContentsWith DEF CreateKept
  <2>3. Owed' = Owed
    <3>1. Goto(t, Idle) \/ Goto(t, ReadingMaxSize)
      BY <1>7 DEF CreateKept
    <3> QED
      BY <1>5, <2>1, <3>1, OwedStays DEF TypeOK
  <2>4. Contents[k] = NoValue
    BY <1>7, <2>1, ContentsType DEF CreateKept
  <2>5. Owed[t] = NoValue
    BY <2>1 DEF Owed
  <2>6. Owed' = [Owed EXCEPT ![t] = NoValue]
    BY <2>3, <2>5 DEF Owed
  <2>7. Accepted(k, v)
    BY <1>7, <2>2 DEF CreateKept, Accepted
  <2>8. Left(t, k)
    BY <2>4, <2>5, <2>6 DEF Left
  <2> HIDE DEF k
  <2> QED
    BY <2>1, <2>2, <2>7, <2>8 DEF Moved
<1>8. ASSUME NEW t \in Threads, NEW v \in Values, CreateConflict(t, v)
      PROVE  MapOK' /\ Moved
  <2> DEFINE k == frame[t].key
  <2>1. k \in KeysOf(map) /\ frame[t].pc # "notify"
    BY <1>8 DEF CreateConflict
  <2>2. MapOK' /\ Contents' = Contents
    BY <1>8, <2>1, ContentsUndone DEF CreateConflict
  <2>3. Owed[t] = NoValue /\ Owed' = [Owed EXCEPT ![t] = v]
    BY <1>8, <2>1, OwedNow DEF CreateConflict
  <2>4. \E j \in Keys : Contents[j] # NoValue
    BY <2>1, ContentsType
  <2>5. Refused(t, v)
    BY <1>8, <2>2, <2>3, <2>4 DEF Refused, CreateConflict
  <2> QED
    BY <2>2, <2>5 DEF Moved
<1>9. ASSUME NEW t \in Threads, NEW k \in Keys, NEW v \in Values, Put(t, k, v)
      PROVE  MapOK' /\ Moved
  <2> DEFINE previous == Lookup(map, k)
  <2>1. frame[t].pc # "notify"
    BY <1>9 DEF Put
  <2>2. Contents[k] = previous /\ previous \in Values \cup {NoValue}
    BY LookupType DEF Contents, TypeOK
  <2>3. CASE BadSize(v)
    <3>1. Owed' = Owed
      BY <1>9, <2>3 DEF Put, Owed
    <3> QED
      BY <1>0, <1>9, <2>3, <3>1 DEF Put
  <2>4. CASE ~BadSize(v)
    <3>1. /\ map' = With(map, k, v) /\ v \in fresh
          /\ fresh' = fresh \ {v} /\ gone' = gone
      BY <1>9, <2>4 DEF Put
    <3>2. MapOK' /\ Contents' = [Contents EXCEPT ![k] = v]
      BY <3>1, ContentsWith
    <3>3. Accepted(k, v)
      BY <3>1, <3>2 DEF Accepted
    <3>4. CASE BadSize(previous)
      <4>1. Owed' = Owed
        BY <1>9, <2>4, <3>4 DEF Put, Owed
      <4>2. Left(t, k)
        BY <2>2, <3>4, <4>1 DEF Left
      <4> QED
        BY <3>2, <3>3, <4>2 DEF Moved
    <3>5. CASE ~BadSize(previous) /\ previous = NoValue
      <4>1. Goto(t, ReadingMaxSize)
        BY <1>9, <2>4, <3>5 DEF Put
      <4>2. Owed' = Owed
        BY <1>5, <2>1, <4>1, OwedStays DEF TypeOK
      <4>3. Owed[t] = NoValue /\ Owed' = [Owed EXCEPT ![t] = NoValue]
        BY <2>1, <4>2 DEF Owed
      <4>4. Left(t, k)
        BY <2>2, <3>5, <4>3 DEF Left
      <4> QED
        BY <3>2, <3>3, <4>4 DEF Moved
    <3>6. CASE ~BadSize(previous) /\ previous # NoValue
      <4>1. Goto(t, Notifying(FALSE, previous, ReadingMaxSize))
        BY <1>9, <2>4, <3>6 DEF Put
      <4>2. previous \in Values
        BY <2>2, <3>6
      <4> HIDE DEF previous
      <4>3. Owed[t] = NoValue /\ Owed' = [Owed EXCEPT ![t] = previous]
        BY <2>1, <4>1, <4>2, OwedNow DEF TypeOK
      <4>4. Left(t, k)
        BY <2>2, <4>3 DEF Left
      <4> QED
        BY <3>2, <3>3, <4>4 DEF Moved
    <3> QED
      BY <3>4, <3>5, <3>6
  <2> QED
    BY <2>3, <2>4
<1>10. ASSUME NEW t \in Threads, NEW k \in Keys, map' = Without(map, k),
              k \in KeysOf(map), UNCHANGED <<fresh, gone>>, Left(t, k)
       PROVE  MapOK' /\ Moved
  <2>1. MapOK' /\ Contents' = [Contents EXCEPT ![k] = NoValue]
    BY <1>10, ContentsWithout
  <2>2. Dropped(k)
    BY <1>10, <2>1, ContentsType DEF Dropped
  <2> QED
    BY <1>10, <2>1, <2>2 DEF Moved
<1>11. ASSUME NEW t \in Threads, NEW k \in Keys, Remove(t, k)
       PROVE  MapOK' /\ Moved
  <2> DEFINE previous == Lookup(map, k)
  <2>1. /\ frame[t].pc # "notify" /\ previous # NoValue
        /\ map' = Without(map, k) /\ UNCHANGED <<fresh, gone>>
    BY <1>11 DEF Remove
  <2>2. Contents[k] = previous /\ previous \in Values /\ k \in KeysOf(map)
    BY <2>1, LookupType DEF Contents, TypeOK
  <2>3. Left(t, k)
    <3>1. CASE BadSize(previous)
      <4>1. Owed' = Owed
        BY <1>11, <3>1 DEF Remove, Owed
      <4> QED
        BY <2>2, <3>1, <4>1 DEF Left
    <3>2. CASE ~BadSize(previous)
      <4>1. Goto(t, Notifying(FALSE, previous, Idle))
        BY <1>11, <3>2 DEF Remove
      <4> HIDE DEF previous
      <4>2. Owed[t] = NoValue /\ Owed' = [Owed EXCEPT ![t] = previous]
        BY <2>1, <2>2, <4>1, OwedNow
      <4> QED
        BY <2>2, <4>2 DEF Left
    <3> QED
      BY <3>1, <3>2
  <2> QED
    BY <1>10, <2>1, <2>2, <2>3
<1>12. ASSUME NEW t \in Threads, NEW n \in frame[t].seen, ReadMaxSize(t, n)
       PROVE  MapOK' /\ Moved
  <2>1. n \in Int
    BY MaxSizesType DEF TypeOK, Frames
  <2>2. Trimming(n).pc # "notify"
    BY DEF Trimming
  <2>3. Owed' = Owed
    BY <1>12, <2>1, <2>2, OwedStays DEF ReadMaxSize
  <2> QED
    BY <1>0, <1>12, <2>3 DEF ReadMaxSize
<1>13. ASSUME NEW t \in Threads, TrimFails(t) \/ TrimReturns(t)
       PROVE  MapOK' /\ Moved
  <2>1. Owed' = Owed
    BY <1>5, <1>13, OwedStays DEF TrimFails, TrimReturns
  <2> QED
    BY <1>0, <1>13, <2>1 DEF TrimFails, TrimReturns
<1>14. ASSUME NEW t \in Threads, TrimEvicts(t)
       PROVE  MapOK' /\ Moved
  <2> DEFINE e == Eldest(map)
  <2>1. /\ frame[t].pc = "trim" /\ map # <<>>
        /\ map' = Without(map, e.key) /\ UNCHANGED <<fresh, gone>>
    BY <1>14 DEF TrimEvicts
  <2>2. /\ e \in EntrySet /\ e.key \in KeysOf(map)
        /\ Lookup(map, e.key) = e.value
    BY <2>1, EldestMap DEF MapOK
  <2>3. e.key \in Keys /\ e.value \in Values /\ Contents[e.key] = e.value
    BY <2>2 DEF EntrySet, Contents
  <2>4. Left(t, e.key)
    <3>1. CASE BadSize(e.value)
      <4>1. Goto(t, Idle)
        BY <1>14, <3>1 DEF TrimEvicts
      <4>2. Owed' = Owed
        BY <1>5, <2>1, <4>1, OwedStays
      <4> QED
        BY <2>3, <3>1, <4>2 DEF Left
    <3>2. CASE ~BadSize(e.value)
      <4>1. Goto(t, Notifying(TRUE, e.value, frame[t]))
        BY <1>14, <3>2 DEF TrimEvicts
      <4>2. frame[t] \in Frames /\ FrameOK(frame[t])
        BY DEF TypeOK
      <4> HIDE DEF e
      <4>3. Owed[t] = NoValue /\ Owed' = [Owed EXCEPT ![t] = e.value]
        BY <2>1, <2>3, <4>1, <4>2, OwedNow
      <4> QED
        BY <2>3, <4>3 DEF Left
    <3> QED
      BY <3>1, <3>2
  <2> HIDE DEF e
  <2> QED
    BY <1>10, <2>1, <2>2, <2>3, <2>4
<1>15. ASSUME NEW t \in Threads, EntryRemoved(t)
       PROVE  MapOK' /\ Moved
  <2> DEFINE f == [frame[t] EXCEPT !.pc = frame[t].then, !.old = NoValue,
                                   !.evicted = FALSE]
             how == IF frame[t].evicted THEN "evicted" ELSE "removed"
  <2>1. /\ frame[t].pc = "notify" /\ Goto(t, f) /\ UNCHANGED <<map, fresh>>
        /\ gone' = [gone EXCEPT ![frame[t].old] = how]
    BY <1>15 DEF EntryRemoved
  <2>2. f \in Frames /\ FrameOK(f) /\ f.pc # "notify"
    <3>1. frame[t] \in Frames /\ FrameOK(frame[t])
      BY DEF TypeOK
    <3>2. f.pc = frame[t].then /\ frame[t].then \in {"idle", "read", "trim"}
      BY <3>1 DEF Frames
    <3> QED
      BY <3>1, <3>2, ReturnedType
  <2> HIDE DEF f
  <2>3. frame'[t] = f /\ \A u \in Threads \ {t} : frame'[u] = frame[u]
    BY <2>1, <2>2, GotoType
  <2>4. Owed' = [Owed EXCEPT ![t] = NoValue]
    BY <2>2, <2>3 DEF Owed
  <2>5. Owed[t] = frame[t].old /\ Owed[t] \in Values
    BY <2>1, OwedType
  <2>6. MapOK' /\ Contents' = Contents
    BY <2>1, ContentsSame
  <2>7. Released(t, how) /\ how \in {"evicted", "removed"}
    BY <2>1, <2>4, <2>5, <2>6 DEF Released
  <2> HIDE DEF how
  <2> QED
    BY <2>6, <2>7 DEF Moved
<1>16. CASE UNCHANGED vars
  <2>1. UNCHANGED <<map, frame, fresh, gone>>
    BY <1>16 DEF vars
  <2>2. Owed' = Owed
    BY <2>1 DEF Owed
  <2> QED
    BY <1>0, <2>1, <2>2
<1> QED
  BY <1>1, <1>2, <1>3, <1>4, <1>6, <1>7, <1>8, <1>9, <1>11, <1>12, <1>13, <1>14,
     <1>15, <1>16 DEF Next, Call, Continue

(***************************************************************************)
(* No value is in two places.                                              *)
(***************************************************************************)

\* Every value is still with its owner, or the value of one key, or owed by
\* one call, or gone: at most one of these.
Apart ==
    /\ \A j, k \in Keys : Contents[j] = Contents[k] /\ Contents[j] # NoValue => j = k
    /\ \A t, u \in Threads : Owed[t] = Owed[u] /\ Owed[t] # NoValue => t = u
    /\ \A k \in Keys, t \in Threads : Contents[k] # NoValue => Contents[k] # Owed[t]
    /\ \A k \in Keys : Contents[k] # NoValue =>
         Contents[k] \notin fresh /\ gone[Contents[k]] = "no"
    /\ \A t \in Threads : Owed[t] # NoValue =>
         Owed[t] \notin fresh /\ gone[Owed[t]] = "no"
    /\ \A v \in fresh : gone[v] = "no"

\* At the start all values are with their owners.
LEMMA ApartInit == Init => Apart
<1> SUFFICES ASSUME Init PROVE Apart
  OBVIOUS
<1>1. \A k \in Keys : Contents[k] = NoValue
  BY LookupNone DEF Init, Contents, KeysOf
<1>2. \A t \in Threads : Owed[t] = NoValue
  BY DEF Init, Owed, Idle
<1>3. fresh = Values /\ gone = [v \in Values |-> "no"]
  BY DEF Init
<1> QED
  BY <1>1, <1>2, <1>3 DEF Apart

\* The call that drops or replaces a value owes that value, or nothing new.
LEMMA LeftOwed ==
    ASSUME TypeOK, NEW t \in Threads, NEW k, Left(t, k)
    PROVE  \A u \in Threads : Owed'[u] = Owed[u] \/ (u = t /\ Owed'[u] = Contents[k])
<1> TAKE u \in Threads
<1>1. Owed \in [Threads -> Values \cup {NoValue}]
  BY OwedType
<1>2. CASE Owed' = Owed
  BY <1>2
<1>3. CASE Owed' = [Owed EXCEPT ![t] = Contents[k]]
  BY <1>1, <1>3
<1> QED
  BY <1>2, <1>3 DEF Left

\* No step brings a value to a second place.
LEMMA ApartStep ==
    ASSUME TypeOK, MapOK, Moved, Apart
    PROVE  Apart'
<1>1. /\ Contents \in [Keys -> Values \cup {NoValue}]
      /\ Owed \in [Threads -> Values \cup {NoValue}]
      /\ NoValue \notin Values
      /\ fresh \subseteq Values
      /\ gone \in [Values -> {"no", "evicted", "removed"}]
  BY ContentsType, OwedType, CacheAssumption DEF TypeOK
<1>2. CASE Unmoved
  BY <1>1, <1>2 DEF Unmoved, Apart
<1>3. ASSUME NEW t \in Threads, NEW k \in Keys, Left(t, k), Dropped(k)
      PROVE  Apart'
  <2>1. /\ \A j \in Keys : Contents'[j] = IF j = k THEN NoValue ELSE Contents[j]
        /\ fresh' = fresh /\ gone' = gone
    BY <1>1, <1>3 DEF Dropped
  <2>2. \A u \in Threads : Owed'[u] = Owed[u] \/ (u = t /\ Owed'[u] = Contents[k])
    BY <1>1, <1>3, LeftOwed
  <2> QED
    BY <1>1, <2>1, <2>2 DEF Apart
<1>4. ASSUME NEW t \in Threads, NEW k \in Keys, NEW v \in Values,
             Left(t, k), Accepted(k, v)
      PROVE  Apart'
  <2>1. /\ \A j \in Keys : Contents'[j] = IF j = k THEN v ELSE Contents[j]
        /\ fresh' = fresh \ {v} /\ gone' = gone /\ v \in fresh
    BY <1>1, <1>4 DEF Accepted
  <2>2. \A u \in Threads : Owed'[u] = Owed[u] \/ (u = t /\ Owed'[u] = Contents[k])
    BY <1>1, <1>4, LeftOwed
  <2> QED
    BY <1>1, <2>1, <2>2 DEF Apart
<1>5. ASSUME NEW t \in Threads, NEW v \in Values, Refused(t, v)
      PROVE  Apart'
  <2>1. /\ \A u \in Threads : Owed'[u] = IF u = t THEN v ELSE Owed[u]
        /\ fresh' = fresh \ {v} /\ v \in fresh
        /\ gone' = gone /\ Contents' = Contents
    BY <1>1, <1>5 DEF Refused
  <2> QED
    BY <1>1, <2>1 DEF Apart
<1>6. ASSUME NEW t \in Threads, NEW how \in {"evicted", "removed"}, Released(t, how)
      PROVE  Apart'
  <2>1. /\ \A u \in Threads : Owed'[u] = IF u = t THEN NoValue ELSE Owed[u]
        /\ \A v \in Values : gone'[v] = IF v = Owed[t] THEN how ELSE gone[v]
        /\ Owed[t] \in Values
        /\ fresh' = fresh /\ Contents' = Contents
    BY <1>1, <1>6 DEF Released
  <2> QED
    BY <1>1, <2>1 DEF Apart
<1> QED
  BY <1>2, <1>3, <1>4, <1>5, <1>6 DEF Moved

\* The map stays a map and no value is in two places.
LEMMA OwnersAreClear == Spec => [](TypeOK /\ MapOK /\ Apart)
<1> DEFINE IInv == TypeOK /\ MapOK /\ Apart
<1>1. Init => IInv
  BY TypeInit, MapInit, ApartInit
<1>2. IInv /\ [Next]_vars => IInv'
  <2> SUFFICES ASSUME TypeOK, MapOK, Apart, [Next]_vars
               PROVE  (TypeOK /\ MapOK /\ Apart)'
    OBVIOUS
  <2> QED
    BY TypeStep, StepIsMove, ApartStep
<1> QED
  BY <1>1, <1>2, PTL DEF Spec

(***************************************************************************)
(* The contract with the owner of the values.                              *)
(***************************************************************************)

\* sizeOf is legal: the documentation of sizeOf asks for a size, and
\* safeSizeOf throws for a negative one (192-196).
LegalSizes == \A v \in Values : SizeOf[v] >= 0

\* The values whose entryRemoved is due, and those it was called with.
Leaving == {Owed[t] : t \in Threads} \ {NoValue}

Gone == {v \in Values : gone[v] # "no"}

\* Those are the ones KeepsContract puts for the contract's leaving.
LEMMA LeavingIsOwed ==
    TypeOK => {frame[t].old : t \in {u \in Threads : frame[u].pc = "notify"}} = Leaving
<1> SUFFICES ASSUME TypeOK
             PROVE  {frame[t].old : t \in {u \in Threads : frame[u].pc = "notify"}} = Leaving
  OBVIOUS
<1>1. /\ \A t \in Threads : Owed[t] # NoValue <=> frame[t].pc = "notify"
      /\ \A t \in Threads : frame[t].pc = "notify" => Owed[t] = frame[t].old
  BY OwedType
<1> QED
  BY <1>1 DEF Leaving

\* A value still with its owner is one the contract has not seen.
LEMMA FreshIsUnseen ==
    ASSUME TypeOK, Apart, NEW v \in fresh
    PROVE  v \in Contract!Unseen
<1>1. v \in Values /\ v \notin Gone
  BY DEF TypeOK, Apart, Gone
<1>2. v \notin Leaving
  BY DEF Apart, Leaving
<1>3. v \notin Contract!Held
  BY DEF Apart, Contract!Held, Contents
<1> QED
  BY <1>1, <1>2, <1>3, LeavingIsOwed DEF Contract!Unseen, Gone

\* Every move of the cache is a step of its contract.
LEMMA MoveIsContractStep ==
    ASSUME LegalSizes, TypeOK, MapOK, Apart, TypeOK', Moved
    PROVE  [Contract!Next]_(Contract!vars)
<1> USE DEF Contract!Next
<1>1. {frame[t].old : t \in {u \in Threads : frame[u].pc = "notify"}} = Leaving
  BY LeavingIsOwed
<1>2. {frame[t].old : t \in {u \in Threads : frame[u].pc = "notify"}}' = Leaving'
  <2>1. (TypeOK => {frame[t].old : t \in {u \in Threads : frame[u].pc = "notify"}} = Leaving)'
    BY LeavingIsOwed, PTL
  <2> QED
    BY <2>1
<1>3. /\ Contents \in [Keys -> Values \cup {NoValue}]
      /\ Owed \in [Threads -> Values \cup {NoValue}]
      /\ NoValue \notin Values
      /\ gone \in [Values -> {"no", "evicted", "removed"}]
  BY ContentsType, OwedType, CacheAssumption DEF TypeOK
<1>4. CASE Unmoved
  <2>1. UNCHANGED <<Contents, Leaving, Gone>>
    BY <1>4 DEF Unmoved, Leaving, Gone
  <2> QED
    BY <1>1, <1>2, <2>1 DEF Contract!vars, Contents, Gone
<1>5. ASSUME NEW t \in Threads, NEW k \in Keys, Left(t, k)
      PROVE  Leaving' = Leaving \cup ({Contents[k]} \ {NoValue})
  <2>1. ~BadSize(Contents[k])
    BY <1>3, CacheAssumption DEF LegalSizes, BadSize
  <2>2. Owed[t] = NoValue /\ \A u \in Threads : Owed'[u] = IF u = t THEN Contents[k] ELSE Owed[u]
    BY <1>3, <1>5, <2>1 DEF Left
  <2> QED
    BY <2>2 DEF Leaving
<1>6. ASSUME NEW t \in Threads, NEW k \in Keys, Left(t, k), Dropped(k)
      PROVE  Contract!Drop(k)
  <2>1. /\ Leaving' = Leaving \cup {Contents[k]}
        /\ Contents[k] # NoValue
        /\ Contents' = [Contents EXCEPT ![k] = NoValue]
        /\ Gone' = Gone
    BY <1>5, <1>6 DEF Dropped, Gone
  <2> QED
    BY <1>1, <1>2, <2>1 DEF Contract!Drop, Contents, Gone
<1>7. ASSUME NEW t \in Threads, NEW k \in Keys, NEW v \in Values,
             Left(t, k), Accepted(k, v)
      PROVE  Contract!Accept(k, v)
  <2>1. /\ Leaving' = Leaving \cup ({Contents[k]} \ {NoValue})
        /\ Contents' = [Contents EXCEPT ![k] = v]
        /\ Gone' = Gone
    BY <1>5, <1>7 DEF Accepted, Gone
  <2>2. v \in Contract!Unseen
    BY <1>7, FreshIsUnseen DEF Accepted
  <2> QED
    BY <1>1, <1>2, <2>1, <2>2 DEF Contract!Accept, Contents, Gone
<1>8. ASSUME NEW t \in Threads, NEW v \in Values, Refused(t, v)
      PROVE  \E k \in Keys : Contract!Refuse(k, v)
  <2>1. PICK k \in Keys : Contents[k] # NoValue
    BY <1>8 DEF Refused
  <2>2. v \in Contract!Unseen
    BY <1>8, FreshIsUnseen DEF Refused
  <2>3. Owed[t] = NoValue /\ \A u \in Threads : Owed'[u] = IF u = t THEN v ELSE Owed[u]
    BY <1>3, <1>8 DEF Refused
  <2>4. Leaving' = Leaving \cup {v}
    BY <1>3, <2>3 DEF Leaving
  <2>5. UNCHANGED <<Contents, Gone>>
    BY <1>8 DEF Refused, Gone
  <2>6. Contract!Refuse(k, v)
    BY <1>1, <1>2, <2>1, <2>2, <2>4, <2>5 DEF Contract!Refuse, Contents, Gone
  <2> QED
    BY <2>6
<1>9. ASSUME NEW t \in Threads, NEW how \in {"evicted", "removed"}, Released(t, how)
      PROVE  \E v \in Values : Contract!Release(v)
  <2>1. PICK v \in Values : v = Owed[t]
    BY <1>9 DEF Released
  <2>2. \A u \in Threads : Owed'[u] = IF u = t THEN NoValue ELSE Owed[u]
    BY <1>3, <1>9 DEF Released
  <2>3. \A u \in Threads : Owed[u] = v => u = t
    BY <1>3, <2>1 DEF Apart
  <2>4. v \in Leaving /\ Leaving' = Leaving \ {v}
    BY <1>3, <2>1, <2>2, <2>3 DEF Leaving
  <2>5. Gone' = Gone \cup {v}
    <3>1. gone' = [gone EXCEPT ![v] = how]
      BY <1>9, <2>1 DEF Released
    <3> QED
      BY <1>3, <3>1 DEF Gone
  <2>6. Contents' = Contents
    BY <1>9 DEF Released
  <2>7. Contract!Release(v)
    BY <1>1, <1>2, <2>4, <2>5, <2>6 DEF Contract!Release, Contents, Gone
  <2> QED
    BY <2>7
<1> QED
  BY <1>4, <1>6, <1>7, <1>8, <1>9 DEF Moved

\* With legal sizes the cache keeps its contract, whatever its threads do: a
\* value is held under its key until it leaves, a created value that lost the
\* race for its key is never held, and every value that left is passed to
\* entryRemoved once and not before (212-243).  That it is passed at all is
\* left to the run of KeepsContract.
THEOREM ContractIsKept ==
    ASSUME LegalSizes
    PROVE  Spec => Contract!Spec
<1>1. Init => Contract!Init
  <2> SUFFICES ASSUME Init PROVE Contract!Init
    OBVIOUS
  <2>1. \A k \in Keys : Lookup(map, k) = NoValue
    BY LookupNone DEF Init, KeysOf
  <2>2. \A t \in Threads : frame[t].pc # "notify"
    BY DEF Init, Idle
  <2>3. \A v \in Values : gone[v] = "no"
    BY DEF Init
  <2> QED
    BY <2>1, <2>2, <2>3 DEF Contract!Init
<1>2. ASSUME TypeOK, MapOK, Apart, [Next]_vars
      PROVE  [Contract!Next]_(Contract!vars)
  BY <1>2, TypeStep, StepIsMove, MoveIsContractStep
<1> QED
  BY <1>1, <1>2, OwnersAreClear, PTL DEF Spec, Contract!Spec

(***************************************************************************)
(* The counters.                                                           *)
(***************************************************************************)

Evicted == {v \in Values : gone[v] = "evicted"}

Evicting == Notified(TRUE)

Creators == {t \in Threads : frame[t].pc = "create"}

\* The counters agree, and what they count is finite: a call or a value joins
\* one of the sets at a time.
CountInv ==
    /\ IsFiniteSet(Evicted) /\ IsFiniteSet(Evicting) /\ IsFiniteSet(Creators)
    /\ CountersAgree

\* A set grows and shrinks by one element at a time.
LEMMA OneMore ==
    ASSUME NEW S, IsFiniteSet(S), NEW x
    PROVE  /\ Cardinality(S) \in Nat
           /\ IsFiniteSet(S \cup {x}) /\ IsFiniteSet(S \ {x})
           /\ x \notin S => Cardinality(S \cup {x}) = Cardinality(S) + 1
           /\ x \in S => Cardinality(S \ {x}) = Cardinality(S) - 1
BY FS_AddElement, FS_RemoveElement, FS_CardinalityType

\* Which calls are about to report an eviction, or creating, after one of them
\* has moved.
LEMMA CallersNow ==
    ASSUME TypeOK, NEW t \in Threads, NEW f \in Frames, FrameOK(f), Goto(t, f)
    PROVE  /\ Evicting' = IF f.pc = "notify" /\ f.evicted
                            THEN Evicting \cup {t} ELSE Evicting \ {t}
           /\ Creators' = IF f.pc = "create" THEN Creators \cup {t} ELSE Creators \ {t}
           /\ t \in Evicting <=> frame[t].pc = "notify" /\ frame[t].evicted
           /\ t \in Creators <=> frame[t].pc = "create"
<1>1. frame'[t] = f /\ \A u \in Threads \ {t} : frame'[u] = frame[u]
  BY GotoType
<1>2. \A u \in Threads : frame[u].evicted \in BOOLEAN
  BY DEF TypeOK, Frames
<1>3. f.evicted \in BOOLEAN
  BY DEF Frames
<1> QED
  BY <1>1, <1>2, <1>3 DEF Evicting, Notified, Creators

\* The counters agree at the start.
LEMMA CountInit == Init => CountInv
<1> SUFFICES ASSUME Init PROVE CountInv
  OBVIOUS
<1>1. Evicted = {} /\ Evicting = {} /\ Creators = {}
  BY DEF Init, Idle, Evicted, Evicting, Notified, Creators
<1>2. IsFiniteSet({}) /\ Cardinality({}) = 0
  BY FS_EmptySet
<1>3. /\ evictionCount = Cardinality(Evicted) + Cardinality(Evicting)
      /\ createCount + Cardinality(Creators) <= missCount
  BY <1>1, <1>2 DEF Init
<1> QED
  BY <1>1, <1>2, <1>3 DEF CountInv, CountersAgree, Evicted, Evicting, Creators

\* Every step keeps them so.
LEMMA CountStep ==
    ASSUME TypeOK, MapOK, Apart, CountInv, [Next]_vars
    PROVE  CountInv'
<1> USE FrameTypes
<1>1. /\ IsFiniteSet(Evicted) /\ IsFiniteSet(Evicting) /\ IsFiniteSet(Creators)
      /\ evictionCount = Cardinality(Evicted) + Cardinality(Evicting)
      /\ createCount + Cardinality(Creators) <= missCount
      /\ evictionCount \in Nat /\ createCount \in Nat /\ missCount \in Nat
  BY DEF CountInv, CountersAgree, Evicted, Evicting, Creators, TypeOK
<1>2. ASSUME IsFiniteSet(Evicted') /\ IsFiniteSet(Evicting') /\ IsFiniteSet(Creators'),
             evictionCount' = Cardinality(Evicted') + Cardinality(Evicting'),
             createCount' + Cardinality(Creators') <= missCount'
      PROVE  CountInv'
  BY <1>2 DEF CountInv, CountersAgree, Evicted, Evicting, Creators
<1>3. ASSUME UNCHANGED <<missCount, createCount, evictionCount, gone>>,
             Evicting' = Evicting, Creators' = Creators
      PROVE  CountInv'
  BY <1>1, <1>2, <1>3 DEF Evicted
<1>4. ASSUME NEW t \in Threads, NEW f \in Frames, FrameOK(f), Goto(t, f),
             frame[t].pc \notin {"create", "notify"}, f.pc # "create",
             ~(f.pc = "notify" /\ f.evicted),
             UNCHANGED <<missCount, createCount, evictionCount, gone>>
      PROVE  CountInv'
  <2>1. Evicting' = Evicting /\ Creators' = Creators
    BY <1>4, CallersNow
  <2> QED
    BY <1>3, <1>4, <2>1
<1>5. Idle.pc = "idle" /\ ReadingMaxSize.pc = "read" /\ \A n \in Int : Trimming(n).pc = "trim"
  BY DEF Idle, ReadingMaxSize, Trimming
<1>6. ASSUME NEW f \in Frames, FrameOK(f), NEW v \in Values, NEW e \in BOOLEAN
      PROVE  /\ Notifying(e, v, f) \in Frames /\ FrameOK(Notifying(e, v, f))
             /\ Notifying(e, v, f).pc = "notify" /\ Notifying(e, v, f).evicted = e
  <2>1. Notifying(e, v, f) \in Frames /\ FrameOK(Notifying(e, v, f))
    BY <1>6, NotifyingType
  <2>2. Notifying(e, v, f).pc = "notify"
    BY DEF Notifying, Frames
  <2>3. Notifying(e, v, f).evicted = e
    BY DEF Notifying, Frames
  <2> QED
    BY <2>1, <2>2, <2>3
<1>7. ASSUME NEW t \in Threads, NEW n \in MaxSizes, Resize(t, n)
      PROVE  CountInv'
  <2>1. ASSUME NEW u \in Threads
        PROVE  /\ frame'[u].pc = "notify" <=> frame[u].pc = "notify"
               /\ frame'[u].pc = "create" <=> frame[u].pc = "create"
               /\ frame[u].pc = "notify" => frame'[u].evicted = frame[u].evicted
    <3>1. frame[u] \in Frames
      BY DEF TypeOK
    <3>2. CASE u = t
      BY <1>7, <3>2 DEF Resize, TypeOK, Trimming
    <3>3. CASE u # t /\ frame[u].seen = {}
      BY <1>7, <3>3 DEF Resize, TypeOK
    <3>4. CASE u # t /\ frame[u].seen # {}
      <4>1. frame'[u] = [frame[u] EXCEPT !.seen = @ \cup {n}]
        BY <1>7, <3>4 DEF Resize, TypeOK
      <4> QED
        BY <3>1, <4>1 DEF Frames
    <3> QED
      BY <3>2, <3>3, <3>4
  <2>2. Evicting' = Evicting /\ Creators' = Creators
    BY <2>1 DEF Evicting, Notified, Creators
  <2> QED
    BY <1>3, <1>7, <2>2 DEF Resize, counters
<1>8. ASSUME NEW t \in Threads, NEW n \in TrimSizes \cup {-1}, TrimToSize(t, n)
      PROVE  CountInv'
  <2>1. n \in Int
    BY CacheAssumption
  <2> QED
    BY <1>4, <1>5, <1>8, <2>1 DEF TrimToSize, counters
<1>9. ASSUME NEW t \in Threads, NEW k \in Keys, GetHit(t, k)
      PROVE  CountInv'
  <2>1. Evicting' = Evicting /\ Creators' = Creators
    BY <1>9 DEF GetHit, Evicting, Notified, Creators
  <2> QED
    BY <1>3, <1>9, <2>1 DEF GetHit
<1>10. ASSUME NEW t \in Threads, NEW k \in Keys, GetMiss(t, k)
       PROVE  CountInv'
  <2>1. Creating(k).pc = "create"
    BY DEF Creating
  <2>2. /\ Evicting' = Evicting \ {t} /\ t \notin Evicting
        /\ Creators' = Creators \cup {t} /\ t \notin Creators
    BY <1>10, <2>1, CallersNow DEF GetMiss
  <2>3. /\ UNCHANGED <<createCount, evictionCount, gone>>
        /\ missCount' = missCount + 1
    BY <1>10 DEF GetMiss
  <2>4. /\ IsFiniteSet(Creators') /\ Cardinality(Creators') = Cardinality(Creators) + 1
        /\ Cardinality(Creators) \in Nat
    BY <1>1, <2>2, OneMore
  <2>5. Evicting' = Evicting /\ Evicted' = Evicted
    BY <2>2, <2>3 DEF Evicted
  <2> QED
    BY <1>1, <1>2, <2>3, <2>4, <2>5
<1>11. ASSUME NEW t \in Threads, NEW f \in Frames, FrameOK(f), Goto(t, f),
              frame[t].pc = "create", f.pc # "create",
              ~(f.pc = "notify" /\ f.evicted),
              UNCHANGED <<missCount, evictionCount, gone>>,
              createCount' \in {createCount, createCount + 1}
       PROVE  CountInv'
  <2>1. /\ Evicting' = Evicting /\ Evicted' = Evicted
        /\ Creators' = Creators \ {t} /\ t \in Creators
    BY <1>11, CallersNow DEF Evicted
  <2>2. /\ IsFiniteSet(Creators') /\ Cardinality(Creators') = Cardinality(Creators) - 1
        /\ Cardinality(Creators) \in Nat
    BY <1>1, <2>1, OneMore
  <2>3. createCount' + Cardinality(Creators') <= missCount'
    BY <1>1, <1>11, <2>2
  <2> QED
    BY <1>1, <1>2, <1>11, <2>1, <2>2, <2>3
<1>12. ASSUME NEW t \in Threads, CreateNothing(t)
       PROVE  CountInv'
  BY <1>5, <1>11, <1>12 DEF CreateNothing, counters
<1>13. ASSUME NEW t \in Threads, NEW v \in Values, CreateKept(t, v)
       PROVE  CountInv'
  <2>1. /\ frame[t].pc = "create" /\ createCount' = createCount + 1
        /\ UNCHANGED <<missCount, evictionCount, gone>>
        /\ Goto(t, Idle) \/ Goto(t, ReadingMaxSize)
    BY <1>13 DEF CreateKept
  <2>2. ReadingMaxSize \in Frames /\ FrameOK(ReadingMaxSize)
    BY DEF TypeOK
  <2> QED
    BY <1>5, <1>11, <2>1, <2>2
<1>14. ASSUME NEW t \in Threads, NEW v \in Values, CreateConflict(t, v)
       PROVE  CountInv'
  <2>1. /\ frame[t].pc = "create" /\ createCount' = createCount + 1
        /\ UNCHANGED <<missCount, evictionCount, gone>>
        /\ Goto(t, Notifying(FALSE, v, Idle))
    BY <1>14 DEF CreateConflict
  <2> DEFINE g == Notifying(FALSE, v, Idle)
  <2>2. g \in Frames /\ FrameOK(g) /\ g.pc = "notify" /\ g.evicted = FALSE
    BY <1>6
  <2> HIDE DEF g
  <2>3. Goto(t, g)
    BY <2>1 DEF g
  <2> QED
    BY <1>11, <2>1, <2>2, <2>3
<1>15. ASSUME NEW t \in Threads, NEW v \in Values, NEW f \in Frames, FrameOK(f),
              Goto(t, Notifying(FALSE, v, f)), frame[t].pc = "idle",
              UNCHANGED <<missCount, createCount, evictionCount, gone>>
       PROVE  CountInv'
  <2> DEFINE g == Notifying(FALSE, v, f)
  <2>1. g \in Frames /\ FrameOK(g) /\ g.pc = "notify" /\ g.evicted = FALSE
    BY <1>6, <1>15
  <2> HIDE DEF g
  <2>2. Goto(t, g)
    BY <1>15 DEF g
  <2> QED
    BY <1>4, <1>15, <2>1, <2>2
<1>16. ASSUME frame' = frame, UNCHANGED <<missCount, createCount, evictionCount, gone>>
       PROVE  CountInv'
  <2>1. Evicting' = Evicting /\ Creators' = Creators
    BY <1>16 DEF Evicting, Notified, Creators
  <2> QED
    BY <1>3, <1>16, <2>1
<1>17. ASSUME NEW t \in Threads, NEW k \in Keys, NEW v \in Values, Put(t, k, v)
       PROVE  CountInv'
  <2> DEFINE previous == Lookup(map, k)
  <2>1. /\ frame[t].pc = "idle"
        /\ UNCHANGED <<missCount, createCount, evictionCount, gone>>
        /\ \/ frame' = frame
           \/ previous = NoValue /\ Goto(t, ReadingMaxSize)
           \/ previous # NoValue /\ Goto(t, Notifying(FALSE, previous, ReadingMaxSize))
    BY <1>17 DEF Put
  <2>2. previous \in Values \cup {NoValue}
    BY LookupType DEF TypeOK
  <2>3. ReadingMaxSize \in Frames /\ FrameOK(ReadingMaxSize)
    BY DEF TypeOK
  <2> HIDE DEF previous
  <2>4. CASE Goto(t, ReadingMaxSize)
    BY <1>4, <1>5, <2>1, <2>3, <2>4
  <2>5. CASE previous # NoValue /\ Goto(t, Notifying(FALSE, previous, ReadingMaxSize))
    BY <1>15, <2>1, <2>2, <2>3, <2>5
  <2> QED
    BY <1>16, <2>1, <2>4, <2>5
<1>18. ASSUME NEW t \in Threads, NEW k \in Keys, Remove(t, k)
       PROVE  CountInv'
  <2> DEFINE previous == Lookup(map, k)
  <2>1. /\ frame[t].pc = "idle" /\ previous # NoValue
        /\ UNCHANGED <<missCount, createCount, evictionCount, gone>>
        /\ frame' = frame \/ Goto(t, Notifying(FALSE, previous, Idle))
    BY <1>18 DEF Remove, counters
  <2>2. previous \in Values
    BY <2>1, LookupType DEF TypeOK
  <2> HIDE DEF previous
  <2> QED
    BY <1>15, <1>16, <2>1, <2>2
<1>19. ASSUME NEW t \in Threads, NEW n \in frame[t].seen, ReadMaxSize(t, n)
       PROVE  CountInv'
  <2>1. n \in Int
    BY MaxSizesType DEF TypeOK, Frames
  <2> QED
    BY <1>4, <1>5, <1>19, <2>1 DEF ReadMaxSize, counters
<1>20. ASSUME NEW t \in Threads, TrimFails(t) \/ TrimReturns(t)
       PROVE  CountInv'
  BY <1>4, <1>5, <1>20 DEF TrimFails, TrimReturns, counters
<1>21. ASSUME NEW t \in Threads, TrimEvicts(t)
       PROVE  CountInv'
  <2> DEFINE v == Eldest(map).value
  <2>1. v \in Values
    <3>1. Eldest(map) \in EntrySet
      BY <1>21, EldestMap DEF TrimEvicts, MapOK
    <3> QED
      BY <3>1 DEF EntrySet
  <2>2. frame[t].pc = "trim" /\ UNCHANGED <<missCount, createCount, gone>>
    BY <1>21 DEF TrimEvicts
  <2>3. CASE BadSize(v)
    <3>1. evictionCount' = evictionCount /\ Goto(t, Idle)
      BY <1>21, <2>3 DEF TrimEvicts
    <3> QED
      BY <1>4, <1>5, <2>2, <3>1
  <2>4. CASE ~BadSize(v)
    <3> DEFINE g == Notifying(TRUE, v, frame[t])
    <3>1. evictionCount' = evictionCount + 1 /\ Goto(t, g)
      BY <1>21, <2>4 DEF TrimEvicts
    <3>2. frame[t] \in Frames /\ FrameOK(frame[t])
      BY DEF TypeOK
    <3>3. g \in Frames /\ FrameOK(g) /\ g.pc = "notify" /\ g.evicted = TRUE
      <4> HIDE DEF v
      <4> QED
        BY <1>6, <2>1, <3>2
    <3> HIDE DEF g
    <3>4. /\ Evicting' = Evicting \cup {t} /\ t \notin Evicting
          /\ Creators' = Creators \ {t} /\ t \notin Creators
      BY <2>2, <3>1, <3>3, CallersNow
    <3>5. IsFiniteSet(Evicting') /\ Cardinality(Evicting') = Cardinality(Evicting) + 1
      BY <1>1, <3>4, OneMore
    <3>6. Creators' = Creators /\ Evicted' = Evicted
      BY <2>2, <3>4 DEF Evicted
    <3>7. Cardinality(Evicted) \in Nat /\ Cardinality(Evicting) \in Nat
      BY <1>1, OneMore
    <3> QED
      BY <1>1, <1>2, <2>2, <3>1, <3>5, <3>6, <3>7
  <2> QED
    BY <2>3, <2>4
<1>22. ASSUME NEW t \in Threads, EntryRemoved(t)
       PROVE  CountInv'
  <2> DEFINE f == [frame[t] EXCEPT !.pc = frame[t].then, !.old = NoValue,
                                   !.evicted = FALSE]
             v == frame[t].old
  <2>1. /\ frame[t].pc = "notify" /\ Goto(t, f)
        /\ UNCHANGED <<missCount, createCount, evictionCount>>
        /\ gone' = [gone EXCEPT ![v] = IF frame[t].evicted THEN "evicted" ELSE "removed"]
    BY <1>22 DEF EntryRemoved, counters
  <2>2. /\ f \in Frames /\ FrameOK(f) /\ f.pc \notin {"notify", "create"}
        /\ frame[t].evicted \in BOOLEAN
    <3>1. frame[t] \in Frames /\ FrameOK(frame[t])
      BY DEF TypeOK
    <3>2. f.pc = frame[t].then /\ frame[t].then \in {"idle", "read", "trim"}
      BY <3>1 DEF Frames
    <3>3. frame[t].evicted \in BOOLEAN
      BY <3>1 DEF Frames
    <3> QED
      BY <3>1, <3>2, <3>3, ReturnedType
  <2>3. v \in Values /\ gone[v] = "no"
    <3>1. v = Owed[t] /\ Owed[t] \in Values
      BY <2>1, OwedType
    <3> QED
      BY <3>1, CacheAssumption DEF Apart
  <2>4. gone \in [Values -> {"no", "evicted", "removed"}]
    BY DEF TypeOK
  <2> HIDE DEF f, v
  <2>5. /\ Evicting' = Evicting \ {t} /\ (t \in Evicting <=> frame[t].evicted)
        /\ Creators' = Creators
    BY <2>1, <2>2, CallersNow
  <2>6. CASE frame[t].evicted
    <3>1. Evicted' = Evicted \cup {v} /\ v \notin Evicted
      BY <2>1, <2>3, <2>4, <2>6 DEF Evicted
    <3>2. /\ IsFiniteSet(Evicting') /\ Cardinality(Evicting') = Cardinality(Evicting) - 1
          /\ Cardinality(Evicting) \in Nat
      BY <1>1, <2>5, <2>6, OneMore
    <3>3. /\ IsFiniteSet(Evicted') /\ Cardinality(Evicted') = Cardinality(Evicted) + 1
          /\ Cardinality(Evicted) \in Nat
      BY <1>1, <3>1, OneMore
    <3> QED
      BY <1>1, <1>2, <2>1, <2>5, <3>2, <3>3
  <2>7. CASE ~frame[t].evicted
    <3>1. Evicted' = Evicted
      BY <2>1, <2>3, <2>4, <2>7 DEF Evicted
    <3>2. Evicting' = Evicting
      BY <2>5, <2>7
    <3> QED
      BY <1>1, <1>2, <2>1, <2>5, <3>1, <3>2
  <2> QED
    BY <2>6, <2>7
<1>23. CASE UNCHANGED vars
  BY <1>16, <1>23 DEF vars, counters
<1> QED
  BY <1>7, <1>8, <1>9, <1>10, <1>12, <1>13, <1>14, <1>17, <1>18, <1>19, <1>20,
     <1>21, <1>22, <1>23 DEF Next, Call, Continue

\* However the calls interleave, and whatever sizeOf throws in the middle of a
\* block, evictionCount is the number of values reported as evicted or about to
\* be, and no more values were created than lookups missed.
THEOREM CountersAreRight == Spec => []CountersAgree
<1>1. CountInv => CountersAgree
  BY DEF CountInv
<1> QED
  BY <1>1, CountInit, CountStep, OwnersAreClear, PTL DEF Spec

(***************************************************************************)
(* size.                                                                   *)
(***************************************************************************)

\* The width of Int.
Wide == 2 * (IntMax + 1)

\* Equal but for overflows.
Congruent(a, b) == \E q \in Int : a = b + q * Wide

\* What a value adds to size, or takes from it: nothing if its sizeOf throws.
Taken(v) == IF v = NoValue \/ BadSize(v) THEN 0 ELSE SizeOf[v]

\* size is the sum of the sizes of the entries but for overflows, and without
\* an overflow exactly that sum: no more than the entries take.  A trim that
\* found them inconsistent therefore came after an overflow.
SumInv ==
    /\ IsFiniteSet(Units)
    /\ Congruent(size, Cardinality(Units))
    /\ "overflow" \notin faults => size = Cardinality(Units)
    /\ SizesNeverInconsistent

\* Congruent Ints stay so when the same is added to both, and cut to 32 bits.
LEMMA CongruentSum ==
    ASSUME NEW a \in Int, NEW b \in Int, NEW d \in Int, Congruent(a, b)
    PROVE  /\ Congruent(a + d, b + d)
           /\ Congruent(Int32(a + d), b + d)
<1> DEFINE n == a + d
<1>1. Wide \in Nat /\ IntMax \in Nat /\ Wide = 2 * (IntMax + 1)
  BY CacheAssumption DEF Wide
<1>2. PICK q \in Int : a = b + q * Wide
  BY DEF Congruent
<1>3. n \in Int /\ q * Wide \in Int
  BY <1>1
<1>4. n = (b + d) + q * Wide
  BY <1>1, <1>2, <1>3
<1>5. (q - 1) * Wide = q * Wide - Wide /\ (q + 1) * Wide = q * Wide + Wide
  BY <1>1
<1>6. Int32(n) = n \/ Int32(n) = n - Wide \/ Int32(n) = n + Wide
  BY <1>1, <1>3 DEF Int32
<1>7. /\ q - 1 \in Int /\ q + 1 \in Int
      /\ n - Wide = (b + d) + (q - 1) * Wide
      /\ n + Wide = (b + d) + (q + 1) * Wide
  BY <1>1, <1>3, <1>4, <1>5
<1> HIDE DEF n
<1>8. Congruent(n, b + d)
  BY <1>4 DEF Congruent
<1>9. Congruent(n - Wide, b + d) /\ Congruent(n + Wide, b + d)
  BY <1>7 DEF Congruent
<1> QED
  BY <1>6, <1>8, <1>9 DEF n

\* Congruent Ints have the same remainder.
LEMMA CongruentMod ==
    ASSUME NEW a \in Int, NEW b \in Int, Congruent(a, b)
    PROVE  a % Wide = b % Wide
<1>1. Wide \in Nat /\ Wide > 0
  BY CacheAssumption DEF Wide
<1>2. PICK q \in Int : a = b + q * Wide
  BY DEF Congruent
<1> DEFINE x == b \div Wide
           r == b % Wide
<1>3. x \in Int /\ r \in 0 .. Wide - 1
  BY <1>1
<1>4. r = b - Wide * x
  BY <1>1
<1> HIDE DEF x, r
<1>5. (x + q) * Wide = Wide * x + q * Wide
  BY <1>1, <1>3
<1>6. a = (x + q) * Wide + r
  BY <1>1, <1>2, <1>3, <1>4, <1>5
<1> DEFINE y == x + q
<1>7. y \in Int /\ a = y * Wide + r
  BY <1>3, <1>6
<1> HIDE DEF y
<1>8. a % Wide = r
  BY <1>1, <1>3, <1>7
<1> QED
  BY <1>8 DEF r

\* What an entry takes is what its units are.
LEMMA TakenUnits ==
    ASSUME NEW k, NEW v \in Values
    PROVE  /\ Taken(v) \in Nat
           /\ IsFiniteSet({k} \X (1 .. SizeOf[v]))
           /\ Cardinality({k} \X (1 .. SizeOf[v])) = Taken(v)
<1>1. SizeOf[v] \in Int /\ v # NoValue
  BY CacheAssumption
<1>2. CASE SizeOf[v] < 0
  <2>1. {k} \X (1 .. SizeOf[v]) = {}
    BY <1>1, <1>2
  <2> QED
    BY <1>1, <1>2, <2>1, FS_EmptySet DEF Taken, BadSize
<1>3. CASE SizeOf[v] >= 0
  <2>1. PICK n \in Nat : n = SizeOf[v]
    BY <1>1, <1>3
  <2>2. Taken(v) = n
    BY <1>1, <2>1 DEF Taken, BadSize
  <2>3. IsFiniteSet({k} \X (1 .. n)) /\ Cardinality({k} \X (1 .. n)) = n
    BY UnitsOfSize
  <2> QED
    BY <2>1, <2>2, <2>3
<1> QED
  BY <1>1, <1>2, <1>3

\* The units of the value of one key, of none if there is no value.
Piece(k, v) == IF v = NoValue THEN {} ELSE {k} \X (1 .. SizeOf[v])

LEMMA PieceSize ==
    ASSUME NEW k, NEW v \in Values \cup {NoValue}
    PROVE  /\ Taken(v) \in Nat
           /\ IsFiniteSet(Piece(k, v)) /\ Cardinality(Piece(k, v)) = Taken(v)
<1>1. CASE v = NoValue
  BY <1>1, FS_EmptySet DEF Piece, Taken
<1>2. CASE v # NoValue
  BY <1>2, TakenUnits DEF Piece
<1> QED
  BY <1>1, <1>2

\* The units are those of the value of each key.
LEMMA UnitsByKey ==
    TypeOK /\ MapOK => \A u : u \in Units <=> \E j \in Keys : u \in Piece(j, Contents[j])
<1> SUFFICES ASSUME TypeOK, MapOK, NEW u
             PROVE  u \in Units <=> \E j \in Keys : u \in Piece(j, Contents[j])
  OBVIOUS
<1>1. /\ \A k : k \in KeysOf(map) => k \in Keys
      /\ \A k \in Keys : Contents[k] # NoValue <=> k \in KeysOf(map)
      /\ \A k \in Keys : Contents[k] = Lookup(map, k)
  BY ContentsType DEF Contents
<1>2. u \in Units <=> \E k \in KeysOf(map) : u \in {k} \X (1 .. SizeOf[Lookup(map, k)])
  BY DEF Units
<1> QED
  BY <1>1, <1>2 DEF Piece

\* And so they are after a step.
LEMMA UnitsByKeyNext ==
    TypeOK' /\ MapOK' =>
      \A u : u \in Units' <=> \E j \in Keys : u \in Piece(j, Contents'[j])
<1> DEFINE Same == \A u : u \in Units <=> \E j \in Keys : u \in Piece(j, Contents[j])
<1>1. TypeOK /\ MapOK => Same
  BY UnitsByKey
<1> HIDE DEF Same
<1>2. TypeOK' /\ MapOK' => Same'
  BY <1>1, PTL
<1> QED
  BY <1>2 DEF Same

\* When the value of one key changes, so does the number of units by what its
\* old and its new value take.
LEMMA UnitsChange ==
    ASSUME TypeOK, MapOK, TypeOK', MapOK', IsFiniteSet(Units),
           NEW k \in Keys, NEW v \in Values \cup {NoValue},
           Contents' = [Contents EXCEPT ![k] = v]
    PROVE  /\ IsFiniteSet(Units')
           /\ Cardinality(Units') = Cardinality(Units) - Taken(Contents[k]) + Taken(v)
           /\ Cardinality(Units) \in Nat /\ Cardinality(Units') \in Nat
<1>1. /\ Contents \in [Keys -> Values \cup {NoValue}]
      /\ \A j \in Keys : Contents'[j] = IF j = k THEN v ELSE Contents[j]
  BY ContentsType
<1> DEFINE Old == Piece(k, Contents[k])
           New == Piece(k, v)
<1>2. /\ IsFiniteSet(Old) /\ Cardinality(Old) = Taken(Contents[k])
      /\ IsFiniteSet(New) /\ Cardinality(New) = Taken(v)
  BY <1>1, PieceSize
<1>3. \A u : u \in Units <=> \E j \in Keys : u \in Piece(j, Contents[j])
  BY UnitsByKey
<1>4. \A u : u \in Units' <=> \E j \in Keys : u \in Piece(j, Contents'[j])
  BY UnitsByKeyNext
<1>5. \A j \in Keys \ {k} : \A w : Piece(j, w) \cap Old = {} /\ Piece(j, w) \cap New = {}
  BY DEF Piece
<1>6. Units' = (Units \ Old) \cup New
  <2>1. \A u : u \in Units' <=> (u \in Units /\ u \notin Old) \/ u \in New
    BY <1>1, <1>3, <1>4, <1>5
  <2> QED
    BY <2>1
<1>7. (Units \ Old) \cap New = {} /\ Units \cap Old = Old
  BY <1>3, <1>5
<1> HIDE DEF Old, New
<1>8. /\ IsFiniteSet((Units \ Old) \cup New)
      /\ Cardinality((Units \ Old) \cup New)
           = Cardinality(Units) - Cardinality(Old) + Cardinality(New)
      /\ Cardinality(Units) \in Nat /\ Cardinality((Units \ Old) \cup New) \in Nat
  BY <1>2, <1>7, SetReplaced
<1> QED
  BY <1>2, <1>6, <1>8

\* A step that changes no value changes no unit.
LEMMA UnitsSame ==
    ASSUME TypeOK, MapOK, TypeOK', MapOK', Contents' = Contents
    PROVE  Units' = Units
<1>1. \A u : u \in Units <=> \E j \in Keys : u \in Piece(j, Contents[j])
  BY UnitsByKey
<1>2. \A u : u \in Units' <=> \E j \in Keys : u \in Piece(j, Contents'[j])
  BY UnitsByKeyNext
<1>3. \A u : u \in Units' <=> u \in Units
  BY <1>1, <1>2
<1> QED
  BY <1>3

\* Only a trim adds "inconsistent" to the faults, and an overflow is not
\* forgotten.
LEMMA FaultsGrow ==
    ASSUME SizesNeverInconsistent, faults \subseteq faults',
           faults' \subseteq faults \cup {"negative", "overflow"}
    PROVE  SizesNeverInconsistent'
BY DEF SizesNeverInconsistent

\* A step that changes no value, and size neither.
LEMMA SumSame ==
    ASSUME TypeOK, MapOK, TypeOK', MapOK', SumInv, Contents' = Contents, size' = size,
           faults \subseteq faults', faults' \subseteq faults \cup {"negative", "overflow"}
    PROVE  SumInv'
<1>1. Units' = Units
  BY UnitsSame
<1>2. SizesNeverInconsistent'
  BY FaultsGrow DEF SumInv
<1> QED
  BY <1>1, <1>2 DEF SumInv, Congruent

\* A step that changes the value of one key and size by what it takes.
LEMMA SumMoves ==
    ASSUME TypeOK, MapOK, TypeOK', MapOK', SumInv,
           NEW k \in Keys, NEW v \in Values \cup {NoValue},
           Contents' = [Contents EXCEPT ![k] = v],
           NEW d \in Int, d = Taken(v) - Taken(Contents[k]),
           Congruent(size', Cardinality(Units) + d),
           "overflow" \notin faults' => size' = size + d,
           faults \subseteq faults', faults' \subseteq faults \cup {"negative", "overflow"}
    PROVE  SumInv'
<1>1. Contents[k] \in Values \cup {NoValue}
  BY ContentsType
<1>2. Taken(v) \in Nat /\ Taken(Contents[k]) \in Nat
  BY <1>1, PieceSize
<1>3. IsFiniteSet(Units) /\ ("overflow" \notin faults => size = Cardinality(Units))
  BY DEF SumInv
<1>4. /\ IsFiniteSet(Units')
      /\ Cardinality(Units') = Cardinality(Units) - Taken(Contents[k]) + Taken(v)
      /\ Cardinality(Units) \in Nat /\ Cardinality(Units') \in Nat
  BY <1>3, UnitsChange
<1>5. Cardinality(Units') = Cardinality(Units) + d
  BY <1>2, <1>4
<1>6. Congruent(size, Cardinality(Units))'
  BY <1>5 DEF Congruent
<1>7. "overflow" \notin faults' => size' = Cardinality(Units')
  BY <1>3, <1>5
<1>8. SizesNeverInconsistent'
  BY FaultsGrow DEF SumInv
<1> QED
  BY <1>4, <1>6, <1>7, <1>8 DEF SumInv

\* No units, no size.
LEMMA SumInit == Init => SumInv
<1> SUFFICES ASSUME Init PROVE SumInv
  OBVIOUS
<1>1. Units = {}
  BY DEF Init, Units, KeysOf
<1>2. IsFiniteSet(Units) /\ Cardinality(Units) = 0 /\ size = 0
  BY <1>1, FS_EmptySet DEF Init
<1>3. Congruent(0, 0)
  <2>1. 0 \in Int /\ 0 = 0 + 0 * Wide
    BY CacheAssumption DEF Wide
  <2> QED
    BY <2>1 DEF Congruent
<1>4. SizesNeverInconsistent
  BY DEF Init, SizesNeverInconsistent
<1> QED
  BY <1>2, <1>3, <1>4 DEF SumInv

\* Every step changes size with the units.
LEMMA SumStep ==
    ASSUME TypeOK, MapOK, TypeOK', MapOK', SumInv, [Next]_vars
    PROVE  SumInv'
<1> DEFINE c == Cardinality(Units)
<1>1. /\ c \in Nat /\ size \in Int /\ Congruent(size, c)
      /\ faults \subseteq {"negative", "inconsistent", "overflow"}
  BY FS_CardinalityType, CacheAssumption DEF SumInv, TypeOK
<1>2. /\ \A v \in Values : SizeOf[v] \in Int /\ v # NoValue
      /\ \A k \in Keys : Contents[k] \in Values \cup {NoValue}
  BY ContentsType, CacheAssumption
<1> HIDE DEF c
<1>3. ASSUME NEW n \in Int
      PROVE  /\ Int32(n) \in Int /\ Overflow(n) \subseteq {"overflow"}
             /\ "overflow" \notin Overflow(n) => Int32(n) = n
  BY CacheAssumption DEF Int32, Overflow
<1>4. ASSUME map' = map, size' = size,
             faults' \in {faults, faults \cup {"negative"}}
      PROVE  SumInv'
  BY <1>4, ContentsSame, SumSame
<1>5. ASSUME NEW k \in Keys, k \in KeysOf(map), Contents' = [Contents EXCEPT ![k] = NoValue],
             IF BadSize(Contents[k])
               THEN size' = size /\ faults' = faults \cup {"negative"}
               ELSE /\ size' = Int32(size - SizeOf[Contents[k]])
                    /\ faults' = faults \cup Overflow(size - SizeOf[Contents[k]])
      PROVE  SumInv'
  <2> DEFINE old == Contents[k]
             d == 0 - Taken(old)
  <2>1. old \in Values /\ SizeOf[old] \in Int
    BY <1>2, <1>5, ContentsType
  <2>2. Taken(old) \in Nat /\ Taken(NoValue) = 0
    BY <2>1, PieceSize DEF Taken
  <2>3. /\ Congruent(size', c + d)
        /\ "overflow" \notin faults' => size' = size + d
        /\ faults \subseteq faults' /\ faults' \subseteq faults \cup {"negative", "overflow"}
    <3>1. CASE BadSize(old)
      <4>1. d = 0
        <5>1. Taken(old) = 0
          BY <3>1 DEF Taken
        <5> QED
          BY <5>1
      <4> HIDE DEF d, old
      <4>2. c + d = c /\ size + d = size
        BY <1>1, <4>1
      <4> QED
        BY <1>1, <1>5, <3>1, <4>2 DEF old
    <3>2. CASE ~BadSize(old)
      <4>1. d = -SizeOf[old]
        BY <2>1, <1>2, <3>2 DEF Taken
      <4>2. d \in Int /\ size - SizeOf[old] = size + d
        BY <1>1, <2>1, <4>1
      <4>3. size' = Int32(size + d) /\ faults' = faults \cup Overflow(size + d)
        BY <1>5, <3>2, <4>2
      <4> HIDE DEF d, old
      <4>4. Congruent(Int32(size + d), c + d)
        BY <1>1, <4>2, CongruentSum
      <4>5. size + d \in Int
        BY <1>1, <4>2
      <4> QED
        BY <1>3, <4>3, <4>4, <4>5
    <3> QED
      BY <3>1, <3>2
  <2>4. d \in Int /\ d = Taken(NoValue) - Taken(old)
    BY <2>2
  <2> HIDE DEF d
  <2> QED
    BY <1>5, <2>3, <2>4, SumMoves DEF c
<1>6. ASSUME NEW t \in Threads, NEW v \in Values, CreateKept(t, v)
      PROVE  SumInv'
  <2> DEFINE k == frame[t].key
             d == Taken(v)
  <2>1. k \in Keys
    BY <1>6 DEF CreateKept, TypeOK, FrameOK
  <2>2. Contents' = [Contents EXCEPT ![k] = v]
    BY <1>6, <2>1, ContentsWith DEF CreateKept
  <2>3. Contents[k] = NoValue /\ Taken(NoValue) = 0 /\ d \in Nat
    BY <1>6, <2>1, ContentsType, PieceSize DEF CreateKept, Taken
  <2>4. /\ Congruent(size', c + d)
        /\ "overflow" \notin faults' => size' = size + d
        /\ faults \subseteq faults' /\ faults' \subseteq faults \cup {"negative", "overflow"}
    <3>1. CASE BadSize(v)
      <4>1. d = 0 /\ size' = size /\ faults' = faults \cup {"negative"}
        BY <1>6, <3>1 DEF Taken, CreateKept, Fault
      <4> HIDE DEF d
      <4>2. c + d = c /\ size + d = size
        BY <1>1, <4>1
      <4> QED
        BY <1>1, <4>1, <4>2
    <3>2. CASE ~BadSize(v)
      <4>1. /\ d = SizeOf[v] /\ size' = Int32(size + d)
            /\ faults' = faults \cup Overflow(size + d)
        BY <1>2, <1>6, <3>2 DEF Taken, CreateKept
      <4> HIDE DEF d
      <4>2. Congruent(Int32(size + d), c + d) /\ size + d \in Int
        BY <1>1, <2>3, CongruentSum
      <4> QED
        BY <1>3, <4>1, <4>2
    <3> QED
      BY <3>1, <3>2
  <2>5. d \in Int /\ d = Taken(v) - Taken(Contents[k])
    BY <2>3
  <2> HIDE DEF d, k
  <2> QED
    BY <2>1, <2>2, <2>4, <2>5, SumMoves DEF c
<1>7. ASSUME NEW t \in Threads, NEW v \in Values, CreateConflict(t, v)
      PROVE  SumInv'
  <2>1. Contents' = Contents
    BY <1>7, ContentsUndone DEF CreateConflict
  <2> QED
    BY <1>7, <2>1, SumSame DEF CreateConflict
<1>8. ASSUME NEW t \in Threads, NEW k \in Keys, NEW v \in Values, Put(t, k, v)
      PROVE  SumInv'
  <2> DEFINE previous == Lookup(map, k)
             grown == Int32(size + SizeOf[v])
  <2>1. CASE BadSize(v)
    BY <1>4, <1>8, <2>1 DEF Put, Fault
  <2>2. CASE ~BadSize(v)
    <3> DEFINE d == Taken(v) - Taken(previous)
    <3>1. Contents' = [Contents EXCEPT ![k] = v]
      BY <1>8, <2>2, ContentsWith DEF Put
    <3>2. Contents[k] = previous /\ previous \in Values \cup {NoValue}
      BY <1>2 DEF Contents
    <3>3. SizeOf[v] \in Int /\ Taken(v) = SizeOf[v] /\ Taken(previous) \in Nat
      BY <1>2, <2>2, <3>2, PieceSize DEF Taken
    <3>4. /\ Congruent(grown, c + SizeOf[v])
          /\ grown \in Int /\ Overflow(size + SizeOf[v]) \subseteq {"overflow"}
          /\ "overflow" \notin Overflow(size + SizeOf[v]) => grown = size + SizeOf[v]
      <4> DEFINE n == size + SizeOf[v]
      <4>1. n \in Int
        BY <1>1, <3>3
      <4>2. Congruent(grown, c + SizeOf[v])
        <5> DEFINE s == SizeOf[v]
        <5>1. s \in Int
          BY <3>3
        <5> HIDE DEF s
        <5>2. size \in Int /\ c \in Int /\ Congruent(size, c)
          BY <1>1
        <5>3. Congruent(Int32(size + s), c + s)
          BY <5>1, <5>2, CongruentSum
        <5> QED
          BY <5>3 DEF s
      <4> HIDE DEF n
      <4>3. /\ Int32(n) \in Int /\ Overflow(n) \subseteq {"overflow"}
            /\ "overflow" \notin Overflow(n) => Int32(n) = n
        BY <1>3, <4>1
      <4> QED
        BY <4>2, <4>3 DEF n
    <3>5. /\ Congruent(size', c + d)
          /\ "overflow" \notin faults' => size' = size + d
          /\ faults \subseteq faults' /\ faults' \subseteq faults \cup {"negative", "overflow"}
      <4>1. CASE BadSize(previous)
        <5>1. /\ size' = grown
              /\ faults' = faults \cup {"negative"} \cup Overflow(size + SizeOf[v])
          BY <1>8, <2>2, <4>1 DEF Put
        <5>2. d = SizeOf[v]
          BY <3>3, <4>1 DEF Taken
        <5> HIDE DEF d, grown, previous
        <5> QED
          BY <3>4, <5>1, <5>2
      <4>2. CASE ~BadSize(previous)
        <5> DEFINE s == Taken(previous)
        <5>1. s = SizeOrZero(previous)
          BY <4>2 DEF Taken, SizeOrZero
        <5>2. /\ size' = Int32(grown - SizeOrZero(previous))
              /\ faults' = faults \cup Overflow(size + SizeOf[v])
                                  \cup Overflow(grown - SizeOrZero(previous))
          BY <1>8, <2>2, <4>2 DEF Put
        <5>3. s \in Int /\ d = SizeOf[v] - s
          BY <3>3
        <5> HIDE DEF d, grown, previous, s
        <5>4. /\ size' = Int32(grown + (-s))
              /\ faults' = faults \cup Overflow(size + SizeOf[v])
                                  \cup Overflow(grown + (-s))
          <6>1. grown - SizeOrZero(previous) = grown + (-s)
            BY <3>4, <5>1, <5>3
          <6> QED
            BY <5>2, <6>1
        <5>5. Congruent(Int32(grown + (-s)), (c + SizeOf[v]) + (-s))
          <6>1. -s \in Int /\ c + SizeOf[v] \in Int
            BY <1>1, <3>3, <5>3
          <6> QED
            BY <3>4, <6>1, CongruentSum
        <5>6. (c + SizeOf[v]) + (-s) = c + d
          BY <1>1, <3>3, <5>3
        <5>7. /\ Overflow(grown + (-s)) \subseteq {"overflow"}
              /\ "overflow" \notin Overflow(grown + (-s)) => size' = grown + (-s)
          <6>1. grown + (-s) \in Int
            BY <3>4, <5>3
          <6> QED
            BY <1>3, <5>4, <6>1
        <5>8. "overflow" \notin faults' => size' = size + d
          <6> SUFFICES ASSUME "overflow" \notin faults'
                       PROVE  size' = size + d
            OBVIOUS
          <6>1. size' = grown + (-s)
            BY <5>4, <5>7
          <6>2. grown = size + SizeOf[v]
            BY <3>4, <5>4
          <6> QED
            BY <1>1, <3>3, <5>3, <6>1, <6>2
        <5> QED
          BY <3>4, <5>4, <5>5, <5>6, <5>7, <5>8
      <4> QED
        BY <4>1, <4>2
    <3>6. d \in Int /\ d = Taken(v) - Taken(Contents[k])
      BY <3>2, <3>3
    <3> HIDE DEF d, previous
    <3> QED
      BY <3>1, <3>5, <3>6, SumMoves DEF c
  <2> QED
    BY <2>1, <2>2
<1>9. ASSUME NEW t \in Threads, NEW k \in Keys, Remove(t, k)
      PROVE  SumInv'
  <2>1. Contents[k] = Lookup(map, k)
    BY DEF Contents
  <2>2. k \in KeysOf(map)
    BY <1>9, LookupNone DEF Remove
  <2>3. Contents' = [Contents EXCEPT ![k] = NoValue]
    BY <1>9, ContentsWithout DEF Remove
  <2> QED
    BY <1>5, <1>9, <2>1, <2>2, <2>3 DEF Remove, Fault
<1>10. ASSUME NEW t \in Threads, TrimFails(t)
       PROVE  SumInv'
  <2>1. Units' = Units
    BY <1>10, ContentsSame, UnitsSame DEF TrimFails
  <2>2. "overflow" \in faults
    <3> SUFFICES ASSUME "overflow" \notin faults
                 PROVE  FALSE
      OBVIOUS
    <3>1. size = c /\ map = <<>> /\ size # 0
      BY <1>1, <1>10 DEF TrimFails, Inconsistent, SumInv, c
    <3>2. Units = {}
      BY <3>1 DEF Units, KeysOf
    <3> QED
      BY <3>1, <3>2, FS_EmptySet DEF c
  <2>3. size' = size /\ faults' = faults \cup {"inconsistent"}
    BY <1>10 DEF TrimFails, Fault
  <2> QED
    BY <2>1, <2>2, <2>3 DEF SumInv, Congruent, SizesNeverInconsistent
<1>11. ASSUME NEW t \in Threads, TrimEvicts(t)
       PROVE  SumInv'
  <2> DEFINE e == Eldest(map)
  <2>1. e \in EntrySet /\ e.key \in KeysOf(map) /\ Lookup(map, e.key) = e.value
    BY <1>11, EldestMap DEF TrimEvicts, MapOK
  <2>2. e.key \in Keys /\ Contents[e.key] = e.value
    BY <2>1 DEF EntrySet, Contents
  <2>3. Contents' = [Contents EXCEPT ![e.key] = NoValue]
    BY <1>11, <2>2, ContentsWithout DEF TrimEvicts
  <2>4. IF BadSize(e.value)
          THEN size' = size /\ faults' = faults \cup {"negative"}
          ELSE /\ size' = Int32(size - SizeOf[e.value])
               /\ faults' = faults \cup Overflow(size - SizeOf[e.value])
    BY <1>11 DEF TrimEvicts, Fault
  <2> HIDE DEF e
  <2> QED
    BY <1>5, <2>1, <2>2, <2>3, <2>4
<1>12. ASSUME NEW t \in Threads, NEW k \in Keys, GetHit(t, k)
       PROVE  SumInv'
  <2>1. Contents' = Contents
    BY <1>12, ContentsTouched DEF GetHit
  <2> QED
    BY <1>12, <2>1, SumSame DEF GetHit
<1>13. ASSUME UNCHANGED <<map, size, faults>>
       PROVE  SumInv'
  BY <1>4, <1>13
<1> QED
  BY <1>6, <1>7, <1>8, <1>9, <1>10, <1>11, <1>12, <1>13
     DEF Next, Call, Continue, Resize, TrimToSize, GetMiss, CreateNothing,
         ReadMaxSize, TrimReturns, EntryRemoved, vars

\* The map, the units and size agree in every state.
LEMMA SumAlways == Spec => []SumInv
<1>1. ASSUME TypeOK, MapOK, Apart, SumInv, [Next]_vars
      PROVE  SumInv'
  BY <1>1, TypeStep, StepIsMove, SumStep
<1> QED
  BY <1>1, SumInit, OwnersAreClear, PTL DEF Spec

\* size() is the sum of the sizes of the entries modulo the width of Int
\* (264-267), through every interleaving, every exception of sizeOf in the
\* middle of a locked block and every overflow.
THEOREM SizeIsRight == Spec => []SizeIsSum
<1>1. TypeOK /\ SumInv => SizeIsSum
  <2> SUFFICES ASSUME TypeOK, SumInv PROVE SizeIsSum
    OBVIOUS
  <2>1. size \in Int /\ Cardinality(Units) \in Int
    BY FS_CardinalityType, CacheAssumption DEF TypeOK, SumInv
  <2>2. size % Wide = Cardinality(Units) % Wide
    BY <2>1, CongruentMod DEF SumInv
  <2> QED
    BY <2>2 DEF SizeIsSum, SumOfSizes, Wide
<1> QED
  BY <1>1, TypeCorrect, SumAlways, PTL

\* With a sizeOf that answers the same at every call, trimToSize never reports
\* inconsistent results (170-172) unless size has overflowed before.
THEOREM TrimReportsOverflowsOnly == Spec => []SizesNeverInconsistent
<1>1. SumInv => SizesNeverInconsistent
  BY DEF SumInv
<1> QED
  BY <1>1, SumAlways, PTL
=============================================================================
