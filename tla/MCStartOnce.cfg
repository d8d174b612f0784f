SPECIFICATION Spec
CONSTANTS
    Thread <- TwoThreads
    MaxEvents = 2
    MaxId = 2
    MaxLife = 2
    MayFail = FALSE
INVARIANTS StartedOnce
CHECK_DEADLOCK FALSE
