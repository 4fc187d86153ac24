SPECIFICATION LiveSpec
CONSTANTS
    Capacity = 2
    MaxBatch = 2
    MaxAttempts = 3
    MaxQueue = 1
    PerFrame = {0, 1, 3}
    MaxHeard = 4
    MaxFaults = 2
CHECK_DEADLOCK FALSE
INVARIANT NothingLost
PROPERTY KeepsFlowing
