SPECIFICATION FairSpec
CONSTANTS
    r1 = r1
    r2 = r2
    s1 = s1
    s2 = s2
    Req = {r1}
    Session = {s1}
    NoSession = NoSession
    SendCap = 2
    BridgeCap = 2
    WireCap = 1
    MaxUp = 1
    MaxDown = 1
    MaxFail = 1
    MaxRestart = 0
PROPERTIES
    ReturnsOnceServerEnded
CHECK_DEADLOCK FALSE
