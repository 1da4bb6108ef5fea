SPECIFICATION Spec
CONSTANTS
    Pids = {"a", "b"}
    Streams = {"s"}
    Volume = "volume"
    Owners = {"a", "b", "volume"}
    MaxCbId = 4
    MaxCalls = 5
INVARIANTS
    IdsAgree
    TimerFitsSession
PROPERTIES
    TimeoutEndsEmpty
    IdleSessionEnds
CHECK_DEADLOCK FALSE
