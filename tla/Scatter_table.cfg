CONSTANTS
    Elements = {1, 2, 3, 4, 5, 6, 7, 8, 9, 10}
    NoElement = 0
    GroupWidth = 4
    Hashes = {0, 3, 6}
    Split = 5
    HashCodes <- MCHashCodes
    InitialCapacity = 0
    CapacityBound = 7
    FindStops = {"Empty"}
    Mirrors = FALSE
SPECIFICATION Spec
VIEW HashesInSlots
INVARIANTS
    TableIsSound
    ProbesEnd
    FindsExactly
PROPERTIES
    ImplementsSet
    CleanupAdvances
