SPECIFICATION Spec
CONSTANTS
    W = "writer"
    R = "reader"
    Threads = {"writer", "reader"}
    Total = 3
    MaxPos = 8
INVARIANTS
    NeverRefused
    TakesWhatWasWritten
    UnreadIntact
PROPERTIES
    FifoSpec
CHECK_DEADLOCK FALSE
