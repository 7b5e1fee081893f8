CONSTANTS
    Nil = Nil
    MaxEdits = 3
SPECIFICATION Spec
CHECK_DEADLOCK FALSE
INVARIANTS
    LoadedAsWritten
