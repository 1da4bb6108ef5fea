SPECIFICATION SignalSpec
CONSTANTS
    Wakers = {"reader", "control"}
    TryCount = 3
INVARIANTS
    NoLostWake
PROPERTY
    WokenInTime
