CONSTANTS
    c1 = c1
    c2 = c2
    Fid <- TwoFids
    Placeholder = Placeholder
    NoKey = NoKey
    MaxFiles = 2
    ChangesHands = FALSE
    HalfLines = TRUE
    MaxLines = 4
    MaxReuses = 0
    MaxFaults = 1
SPECIFICATION BoundedSpec
INVARIANTS NoBlend NothingBehindTheMark
PROPERTY EveryLineArrives
