CONSTANTS
    v0 = v0
    v1 = v1
    v2 = v2
    v3 = v3
    Keys = {k1, k2, k3, k4, k5, k6, k7}
    NoKey = NoKey
    Values = {v1}
    NoValue = NoValue
    SizeOf <- MCSizeOf
    InitialMaxSize = 6
    MaxSizes = {6}
    InitialCapacity = 0
    CapacityBound = 15
SPECIFICATION Spec
SYMMETRY Symmetric
PROPERTIES
    ReadIsSpared
