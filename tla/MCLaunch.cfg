SPECIFICATION LiveSpec
CONSTANTS
    Outside <- AllOutside
    MayFail = TRUE
    MayDie = TRUE
INVARIANTS TypeOK OkMeansExec  SetupBeforeExec
PROPERTIES LaunchReturns
CHECK_DEADLOCK FALSE
