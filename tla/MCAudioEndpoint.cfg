SPECIFICATION Spec
CONSTANTS
    Procs = {p, q}
    Loop = loop
    DeviceFails = TRUE
    Onward = FALSE
INVARIANTS
    PlaysWhenRunning
    NothingInUseReleased
    LocksInOneOrder
PROPERTIES
    DeviceRests
    UnusedIsReleased
CHECK_DEADLOCK FALSE
