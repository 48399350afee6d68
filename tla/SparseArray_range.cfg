CONSTANTS
    v1 = v1
    Keys = {1, 2, 3}
    Values = {v1}
    Null = Null
    Deleted = Deleted
    InitialCapacity = 3
SPECIFICATION Spec
VIEW Used
PROPERTIES
    RangeIsRemoved
