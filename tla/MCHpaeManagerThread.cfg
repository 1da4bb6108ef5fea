SPECIFICATION Spec
CONSTANTS
    Producers = {"often", "once"}
    Handler = "handler"
    Size = 2
    Flags = 8
    MaxPush <- Pushes
INVARIANTS
    EveryNodeOnce
PROPERTIES
    QueueSpec
    EveryRequestRuns
    DeInitReturns
CHECK_DEADLOCK FALSE
