CONSTANTS
    Controllers <- MC_Controllers
    MaxCalls <- MC_MaxCalls
    MaxCount <- MC_MaxCount
    MaxTime <- MC_MaxTime
SPECIFICATION Spec
CHECK_DEADLOCK FALSE
INVARIANTS
    RegisteredAfterNewServer
