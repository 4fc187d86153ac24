CONSTANTS
    j1 = j1
    j2 = j2
    r1 = r1
    r2 = r2
    b1 = b1
    b2 = b2
    Job <- OneJob
    Request <- TwoRequests
    Builder <- TwoBuilders
    MaxVersion = 3
    MaxStars = 1
    MaxFaults = 1
SPECIFICATION Spec
CHECK_DEADLOCK FALSE
SYMMETRY ServerSymmetry
INVARIANTS
    TypeOK
    KeepsCurrentAndGrace
    FlagHasBuilder
PROPERTY CatalogueSpec
