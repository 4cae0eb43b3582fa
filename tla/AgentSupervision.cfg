SPECIFICATION SupSpec
CONSTANTS
    ChildType <-TwoChildren
    MaxRestarts = 1
    Callers = {r1}
    MaxPids = 4
CHECK_DEADLOCK FALSE
INVARIANTS
    KillsAreOwn
PROPERTIES
    StopReturns
    PermanentIsRestarted
