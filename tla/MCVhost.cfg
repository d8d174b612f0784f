SPECIFICATION Spec
CONSTANTS
    Pid = {1, 2, 3, 4}
    MaxBirths = 5
    kMaxTries = 2
INVARIANT DetectsInit
PROPERTY CallEnds
