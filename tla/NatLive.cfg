SPECIFICATION FairSpec
CONSTANTS
    r1 = r1
    r2 = r2
    s1 = s1
    s2 = s2
    Req = {r1}
    Session = {s1}
    NoSession = NoSession
    SendCap = 1
    BridgeCap = 1
    WireCap = 1
    MaxUp = 1
    MaxDown = 1
    MaxFail = 1
    MaxRestart = 1
PROPERTIES
    SessionFalls
    TransferReturns
    LocalEnds
CHECK_DEADLOCK FALSE
