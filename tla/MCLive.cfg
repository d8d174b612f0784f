SPECIFICATION LiveSpec
CONSTANTS
    Name <- ChainName
    Root = "/"
    Parent <- ChainParent
    Under <- ChainUnder
    Order <- ChainOrder
    NumTrees = 1
    ResOf <- OneTree
    Pid = {p1}
    HierarchicalFreezing = FALSE
    Client = {c1, c2}
    Calls = {"create", "destroy", "run", "pause"}
    Specs = {{}, {1}}
    Tourist = {}
    MaxTries = 1
    OwnersSynchronize = TRUE
    JobMounted = FALSE
    MayFail = TRUE
    MayCrash = TRUE
PROPERTIES OperationsReturn DestroyedEventually
