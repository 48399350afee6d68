CONSTANTS
    Elements = {1, 2, 3, 4, 5, 6, 7, 8, 9, 10, 11, 12, 13, 14, 15}
    NoElement = 0
    GroupWidth = 8
    Low = {8, 11, 12, 14, 15}
    LowHash = 0
    HighHash = 10
    HashCodes <- MCHashCodes
    InitialCapacity = 14
    CapacityBound = 15
    FindStops = {"Empty"}
    Mirrors = TRUE
SPECIFICATION InTurnSpec
INVARIANTS
    ListSurvivesCleanup
