SPECIFICATION FactorySpec
CONSTANTS
    Hierarchy <- Hierarchies
    Path = {"/dev/cgroup/a", "/dev/cgroup/b", "/dev/cgroup/c"}
    Request <- Requests
    MaxMounts = 3
    MayHide = FALSE
INVARIANTS FactoryTypeOK FactoryAgreesWithKernel OneHomePerHierarchy
 
