SPECIFICATION Spec
CONSTANTS
    Apps = {"app", "other"}
    Ops = {"start", "pause", "stop", "flush", "release"}
    MaxOps = 5
    MayTimeOut = {"start", "pause", "stop", "flush", "drain"}
    MayRefuse = TRUE
    Free = "free"
INVARIANTS
    SidesAgree
PROPERTIES
    SuccessIsReal
    EveryCallReturns
CHECK_DEADLOCK FALSE
