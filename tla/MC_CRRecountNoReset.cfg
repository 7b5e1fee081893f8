CONSTANTS
    Keys <- MC_Keys
    MaxChanges <- MC_MaxChanges
    Handlers = {h1}
SPECIFICATION SpecNoReset
CHECK_DEADLOCK FALSE
INVARIANTS
    NoDoubleCount
