CONSTANTS
    Elements = {e1, e2}
    Null = Null
    MinCapacity = 1
    MaxCapacity = 8
SPECIFICATION Spec
INVARIANTS
    TypeOK
    HoldsItsElements
PROPERTIES
    ImplementsDeque
