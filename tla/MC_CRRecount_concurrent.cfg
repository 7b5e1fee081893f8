CONSTANTS
    Keys <- MC_Keys
    MaxChanges <- MC_MaxChanges
    Handlers = {h1, h2}
SPECIFICATION Spec
CHECK_DEADLOCK FALSE
INVARIANTS
    NoDoubleCount
