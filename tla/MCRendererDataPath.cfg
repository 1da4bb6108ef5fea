SPECIFICATION DataSpec
CONSTANTS
    Apps = {"app"}
    Ops = {"start", "pause", "stop", "flush", "release"}
    MaxOps = 3
    MayTimeOut = {}
    MayRefuse = FALSE
    Free = "free"
    Loop = "loop"
    Engine_ = "engine"
    Wakers = {"engine", "app"}
    TryCount = 3
    Total = 3
    Cb = 2
    CacheSize = 3
    Span = 1
    Capacity = 3
    MaxFrames = 4
PROPERTIES
    PlayedInOrder
    NoLossWhileRunning
    AllPlayed
    CallsReturn
CHECK_DEADLOCK FALSE
