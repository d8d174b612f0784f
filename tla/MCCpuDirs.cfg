SPECIFICATION Spec
CONSTANTS
    Container <- DistinctNames
    HasCpuset = TRUE
    MayFail = TRUE

    
    
PROPERTIES
    
    DestroyLeavesNoCpu
