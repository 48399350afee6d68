CONSTANTS
    Elements = {1, 2, 3, 4, 5, 6, 7, 8, 9}
    NoElement = 0
    GroupWidth = 8
    Hashes = {5}
    Split = 9
    HashCodes <- MCHashCodes
    InitialCapacity = 14
    CapacityBound = 15
    FindStops = {"Empty", "Deleted"}
    Mirrors = FALSE
SPECIFICATION OrderedSpec
INVARIANTS
    FindsExactly
