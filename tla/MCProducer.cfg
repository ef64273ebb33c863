CONSTANTS
    N = 3
    MaxQueue = 1
    Faulty = FALSE
SPECIFICATION Spec
INVARIANT
    PanicsOnlyOnFailedSend
CHECK_DEADLOCK FALSE
