CONSTANTS
    v1 = v1
    v2 = v2
    v3 = v3
    v4 = v4
    Threads = {t1, t2}
    Keys = {k1, k2}
    Values = {v1, v2, v3}
    NoValue = NoValue
    SizeOf <- MCSizeOf
    InitialMaxSize = 1
    MaxSizes = {1, 2}
    TrimSizes = {}
    IntMax = 100
    LookupBound = 2
SPECIFICATION RefillSpec
VIEW View
PROPERTIES
    CallsReturn
    BackWithinMax
    KeepsContract
