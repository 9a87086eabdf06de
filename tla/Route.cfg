SPECIFICATION RouteSpec
CONSTANTS
    a = a
    b = b
    a1 = a1
    b1 = b1
    pin = pin
    part = part
    home = home
    user = user
    broken = broken
    h1 = h1
    h2 = h2
    Name = {a, b}
    Addr = {a1, b1, pin}
    NoName = NoName
    NoAddr = NoName
    NoProxy = NoProxy
    Slots = 2
    NewTTL = 1
    FailTTL = 2
    MaxNow = 2
    Shake = {h1, h2}
    Config <- MCConfig
    Blank <- MCBlank
    Broken = broken
    First <- MCFirst
    Request <- MCRequest
    Contains <- MCContains
    DNS <- MCDNS
    GlobalProxy = global
    HttpScheme = {home}
    BadScheme = {}
    MaxWork = 6
SYMMETRY Sym
INVARIANTS
    RouteTypeOK
    InRing
    ObeysConfig
    ConfigSettles
    KnownDead
CHECK_DEADLOCK FALSE
