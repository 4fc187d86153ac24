CONSTANTS
    j1 = j1
    j2 = j2
    r1 = r1
    r2 = r2
    b1 = b1
    b2 = b2
    Job <- OneJob
    Request <- OneRequest
    Builder <- TwoBuilders
    MaxVersion = 3
    MaxStars = 0
    MaxFaults = 2
SPECIFICATION LiveSpec
CHECK_DEADLOCK FALSE
PROPERTY HighwayArrives
