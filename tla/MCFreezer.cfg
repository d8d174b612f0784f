SPECIFICATION Spec
CONSTANTS
    Name <- ChainName
    Root = "/"
    Parent <- ChainParent
    Under <- ChainUnder
    Order <- ChainOrder
    NumTrees = 1
    ResOf <- OneTree
    Pid = {p1}
    HierarchicalFreezing = TRUE
    Client = {c1, c2}
    Calls = {"create", "destroy", "enter", "run", "killall", "pause"}
    Specs = {{}, {1}}
    Tourist = {}
    MaxTries = 1
    OwnersSynchronize = TRUE
    JobMounted = FALSE
    MayFail = TRUE
    MayCrash = TRUE
INVARIANTS TypeOK
PROPERTIES RemovesOnlyOwn DestroyLeavesNothing ImplementsRegistry
