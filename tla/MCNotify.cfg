SPECIFICATION LiveSpec
CONSTANTS
    Thread <- TwoThreads
    MaxEvents = 1
    MaxId = 3
    MaxLife = 2
    MayFail = TRUE
INVARIANTS TypeOK PointersValid 
PROPERTIES EventsHandled StopReturns
CHECK_DEADLOCK FALSE
