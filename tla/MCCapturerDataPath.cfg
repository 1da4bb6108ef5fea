SPECIFICATION Spec
CONSTANTS
    S = "server"
    C = "client"
    F = "flush"
    Threads = {"server", "client", "flush"}
    Total = 3
    Hpae = TRUE
    MaxPos = 4
    MaxFlushes = 1
INVARIANTS
    ReadBehindWrite
PROPERTIES
    DeliveredInOrder
    OnlyFlushDiscards
    FlushEnds
    AllDelivered
CHECK_DEADLOCK FALSE
