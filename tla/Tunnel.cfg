SPECIFICATION FairSpec
CONSTANTS
    MaxReq = 2
    MaxBody = 2
    Pipelining = TRUE
    MaxReset = 1
INVARIANTS
    TypeOK
    SingleReader
    WholeRequests
    HandoverAfterResponse
    BodyCounted
PROPERTIES
    ClientGoneReturns
    ServerClosedReturns
CHECK_DEADLOCK FALSE
