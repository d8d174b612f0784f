SPECIFICATION SubSpec
CONSTANTS
    MaxWrites = 2
    Capacity = 1
    CallsMayFail = TRUE
INVARIANTS ReadToTheEnd 
PROPERTIES  CommunicateReturns
CHECK_DEADLOCK FALSE
