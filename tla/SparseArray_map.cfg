CONSTANTS
    v1 = v1
    Keys = {1, 2, 3, 4, 5, 6}
    Values = {v1, Null}
    Null = Null
    Deleted = Deleted
    InitialCapacity = 0
SPECIFICATION Spec
VIEW Used
INVARIANTS
    TypeOK
    ArraysAreSound
    FindsExactly
PROPERTIES
    RemovesShown
    ImplementsMap
