SPECIFICATION Spec
CONSTANTS
    Apps = {"app", "other"}
    Ops = {"start", "pause", "stop", "flush", "release"}
    MaxOps = 5
    MayTimeOut = {"start", "drain"}
    MayRefuse = FALSE
    Free = "free"
PROPERTIES
    LateDrainKeepsStopped
CHECK_DEADLOCK FALSE
