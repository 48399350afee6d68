-------------------------- MODULE ContainerHelpers --------------------------
(* The functions of internal/ContainerHelpers.kt that the sparse and the array *)
(* collections share.  An array is a function from 0 .. n - 1.                 *)
EXTENDS Integers

\* Integer.inv(): the way a search says where what it missed belongs.
Inv(i) == -i - 1

\* The most elements idealIntArraySize has a length for: beyond it, need * 4 or
\* what is taken from a power of two no longer fits an Int.
LongestArray == 2 ^ 29 - 3

\* idealByteArraySize(need * 4) / 4: a power of two less 3, no less than need.
IdealIntArraySize(need) ==
    LET Fitting == {n \in {2 ^ i - 3 : i \in 2 .. 29} : need <= n}
    IN  CHOOSE n \in Fitting : \A m \in Fitting : n <= m

Middle(part) == (part.lo + part.hi) \div 2

\* A turn of the loop of a binary search, which is over when the part from lo
\* to hi is empty or has the value in its middle.
Halved(array, value, part) ==
    IF part.lo > part.hi \/ array[Middle(part)] = value THEN part
    ELSE IF array[Middle(part)] < value THEN [part EXCEPT !.lo = Middle(part) + 1]
    ELSE [part EXCEPT !.hi = Middle(part) - 1]

\* The part left of the first n elements of array when the loop is over: no
\* turn leaves as many as it found.
Narrowed(array, n, value) ==
    LET part[turns \in 0 .. n] ==
          IF turns = 0 THEN [lo |-> 0, hi |-> n - 1]
                       ELSE Halved(array, value, part[turns - 1])
    IN  part[n]

Landed(part) == IF part.lo > part.hi THEN Inv(part.lo) ELSE Middle(part)

\* Mutation of BinarySearch: the last element is not looked at.
BinarySearchShort(array, size, value) ==
    Landed(Narrowed(array, IF size = 0 THEN 0 ELSE size - 1, value))

\* An index of value in the first size elements of array, or the complement
\* of the index where it belongs.
BinarySearch(array, size, value) == Landed(Narrowed(array, size, value))

CopyOf(f, n, filler) == [i \in 0 .. n - 1 |-> IF i \in DOMAIN f THEN f[i] ELSE filler]

\* The elements from i to size move up by one and x takes the place.
Inserted(f, i, size, x) ==
    [j \in DOMAIN f |-> IF j = i THEN x ELSE IF i < j /\ j <= size THEN f[j - 1] ELSE f[j]]
=============================================================================
