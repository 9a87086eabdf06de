SPECIFICATION Spec
CONSTANTS
    r1 = r1
    r2 = r2
    s1 = s1
    s2 = s2
    Req = {r1}
    Session = {s1, s2}
    NoSession = NoSession
    SendCap = 1
    BridgeCap = 1
    WireCap = 1
    MaxUp = 2
    MaxDown = 1
    MaxFail = 1
    MaxRestart = 0
SYMMETRY Sym
INVARIANTS
    TypeOK
    NoPanic
    OwnChunksInOrder
    CloseAfterData
    DeadSessionClosed
    NoBridgeLeak
PROPERTIES
    ClosedIsFinal
    ImplementsRelay
CHECK_DEADLOCK FALSE
