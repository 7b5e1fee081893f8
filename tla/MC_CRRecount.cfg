CONSTANTS
    Keys <- MC_Keys
    MaxChanges <- MC_MaxChanges
    Handlers = {h1}
SPECIFICATION Spec
CHECK_DEADLOCK FALSE
INVARIANTS
    TypeOK
    NoDoubleCount
    Settled
PROPERTIES
    EventuallyConsistent
