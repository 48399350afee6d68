CONSTANTS
    v0 = v0
    v1 = v1
    v2 = v2
    v3 = v3
    Keys = {k1, k2, k3}
    NoKey = NoKey
    Values = {v0, v1, v3}
    NoValue = NoValue
    SizeOf <- MCSizeOf
    InitialMaxSize = 2
    MaxSizes = {2}
    InitialCapacity = 0
    CapacityBound = 15
SPECIFICATION ReusingSpec
VIEW WithoutUnspared
CHECK_DEADLOCK FALSE
INVARIANTS
    TypeOK
    TableHasRoom
    SizeIsSum
    ListIsSound
    WithinMaxWhenIdle
    OnlyOversizedFails
PROPERTIES
    TrimEnds
    FollowsPolicy
    EvictAllEmpties
