SPECIFICATION RestartSpec
CONSTANTS
    MaxConn = 2
    MaxProc = 2
    MaxTick = 1
    MaxSignal = 2
    MaxFail = 1
    Writer = {1, 2}
    MaxDay = 3
    MaxLine = 2
    Reserve = 2
INVARIANTS RestartTypeOK LinesKept AloneIsSafe
CHECK_DEADLOCK FALSE
PROPERTIES StaysUp QuietEnd ShutdownEnds HandOverEnds QueueMoves
