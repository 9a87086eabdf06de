SPECIFICATION Spec
CONSTANTS
    MaxReq = 2
    MaxBody = 1
    Pipelining = TRUE
    MaxReset = 0
INVARIANTS
    OwnServer
CHECK_DEADLOCK FALSE
