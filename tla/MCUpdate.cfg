SPECIFICATION Spec
CONSTANTS
    Specs <- Requests
    Kernels <- OldAndNew
    kint64max = 9
    MayFail = TRUE
INVARIANTS
    DiffTouchesOnlySpecified
    OneResourcePartial
    ParentUntouched
    ReplaceForgets
    
    OwnSpecKeeps
