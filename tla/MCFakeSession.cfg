SPECIFICATION Spec
CONSTANTS
    Own = {x, y}
    Fake = Fake
    NoRival = NoRival
    Rivals <- MCRivals
    Threads = {t1, t2}
    MaxQueued = 1
INVARIANTS
    PausedWithSession
PROPERTIES
    OnlyLateCleanUp
    FocusGivenUp
    CapturedStop
CHECK_DEADLOCK FALSE
