SPECIFICATION FairSpec
CONSTANTS
    MaxReq = 1
    MaxBody = 1
    Pipelining = FALSE
    MaxReset = 1
PROPERTIES
    ReturnsOnceServerEnded
CHECK_DEADLOCK FALSE
