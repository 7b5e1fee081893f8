CONSTANTS
    Keys <- MC_Keys
    MaxChanges = 3
    MaxRestarts = 1
    MaxLost = 1
    MaxDup = 1
SPECIFICATION Spec
CHECK_DEADLOCK FALSE
INVARIANTS
    TypeOK
    IncrementalSettled
