SPECIFICATION FairSpec
CONSTANTS
    Streams <- MCStreams
    BufSize = 4
    HeadLen = 2
    SocksSize = 3
    BodyLen = 2
INVARIANTS
    DetectTypeOK
    WindowIsStream
    HttpRecognised
    InOrder
    NothingLost
    GuessAgrees
PROPERTIES
    ClientGoneEnds
CHECK_DEADLOCK FALSE
