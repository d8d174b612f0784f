SPECIFICATION Spec
CONSTANTS
    Name <- ChainName
    Root = "/"
    Parent <- ChainParent
    Under <- ChainUnder
    Order <- ChainOrder
    NumTrees = 1
    ResOf <- OneTree
    Pid = {p1, p2}
    HierarchicalFreezing = TRUE
    Client = {c1, c2}
    Calls = {"create", "destroy", "run"}
    Specs = {{}, {1}}
    Tourist = {p2}
    MaxTries = 1
    OwnersSynchronize = TRUE
    JobMounted = TRUE
    MayFail = TRUE
    MayCrash = FALSE
INVARIANTS ChargedToAncestor 
