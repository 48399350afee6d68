CONSTANTS
    v1 = v1
    v2 = v2
    v3 = v3
    v4 = v4
    Threads = {t1, t2, t3}
    Keys = {k1, k2}
    Values = {v1, v2, v3, v4}
    NoValue = NoValue
    SizeOf <- FaultySizeOf
    InitialMaxSize = 2
    MaxSizes = {1, 2}
    TrimSizes <- MCTrimSizes
    IntMax = 4
    LookupBound = 1
SPECIFICATION Spec
SYMMETRY Symmetric
INVARIANTS
    TypeOK
    NeverLeftOverMax
    WithinMaxWhenQuiet
    CountersAgree
    SizeIsSum
    SizesNeverInconsistent
