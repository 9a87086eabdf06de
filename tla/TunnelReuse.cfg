SPECIFICATION Spec
CONSTANTS
    MaxReq = 2
    MaxBody = 0
    Pipelining = FALSE
    MaxReset = 0
INVARIANTS
    ReuseServed
CHECK_DEADLOCK FALSE
