CONSTANTS
    a1 = a1
    a2 = a2
    a3 = a3
    b1 = b1
    c1 = c1
    Null = Null
    Elements = {a1, a2, a3, b1, c1, Null}
    HashOf <- MCHashOf
    BaseSize = 2
    InitialCapacity = 0
    Capacities = {12}
    Others <- MCOthers
SPECIFICATION Spec
INVARIANTS
    TypeOK
    ArraysAreSound
    FindsExactly
    IteratesEachOnce
PROPERTIES
    RemovesReturned
    ImplementsSet
