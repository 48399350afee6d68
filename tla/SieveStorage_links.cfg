CONSTANTS
    Elements = {1, 2, 3, 4, 5, 6, 7}
    NoElement = 0
    GroupWidth = 4
    Low = {1, 2}
    LowHash = 3
    HighHash = 6
    HashCodes <- MCHashCodes
    InitialCapacity = 0
    CapacityBound = 7
    FindStops = {"Empty"}
    Mirrors = TRUE
SPECIFICATION SieveSpec
VIEW SlotsAndLinks
INVARIANTS
    ListSurvivesResize
    TableIsOrder
    SourceIsIndex
