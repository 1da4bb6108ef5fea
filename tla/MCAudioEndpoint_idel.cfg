SPECIFICATION Spec
CONSTANTS
    Procs = {p, q}
    Loop = loop
    DeviceFails = FALSE
    Onward = FALSE
INVARIANT IdelHasNoneRunning
CHECK_DEADLOCK FALSE
