SPECIFICATION Spec
CONSTANTS
    Pid = {1, 2, 3, 4, 5}
    MaxBirths = 3
    kMaxTries = 2
INVARIANT RunsInside
