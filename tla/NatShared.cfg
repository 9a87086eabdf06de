SPECIFICATION Spec
CONSTANTS
    r1 = r1
    r2 = r2
    s1 = s1
    s2 = s2
    Req = {r1, r2}
    Session = {s1}
    NoSession = NoSession
    SendCap = 1
    BridgeCap = 1
    WireCap = 1
    MaxUp = 1
    MaxDown = 0
    MaxFail = 0
    MaxRestart = 0
SYMMETRY Sym
INVARIANTS
    OwnChunksInOrder
    CloseAfterData
CHECK_DEADLOCK FALSE
