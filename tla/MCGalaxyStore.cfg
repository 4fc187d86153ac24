SPECIFICATION LiveSpec
CONSTANTS
    sol = sol
    twin = twin
    blank = blank
    bubble = bubble
    a1 = a1
    a2 = a2
    s1 = s1
    s2 = s2
    market = market
    ship = ship
    null = null
    Name <- Names
    Real <- Addresses
    Station <- TwoStations
    Product <- OneProduct
    Nothing = null
    NoName = {blank}
    Cell = {bubble}
    Home <- Homes
    FeedPlan <- FeedPlans
    DumpPlan <- DumpPlans
    MaxAttempts = 5
    MaxFaults = 1
INVARIANTS StationsFiled
PROPERTIES NeverPoisonsItself BoardsForward OwnSystem BothEnd
CHECK_DEADLOCK FALSE
