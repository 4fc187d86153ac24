SPECIFICATION Spec
CONSTANTS
    A = A
    B = B
    C = C
    nothing = nothing
    Nothing = nothing
    System <- Systems
    Home <- Homes
    Paths <- Planner
    Plans <- Far
    Rounds <- LoopAndTour
    MaxJumps = 2
    MaxOrders = 2
    MaxLag = 2
    MaxPlots = 1
CHECK_DEADLOCK FALSE
INVARIANTS TypeOK LapsAreLoops AlignedWhenQuiet TradeLeavesNothing
