CONSTANTS
    c1 = c1
    c2 = c2
    Fid <- TwoFids
    Placeholder = Placeholder
    NoKey = NoKey
    MaxFiles = 1
    ChangesHands = TRUE
    HalfLines = TRUE
    MaxLines = 4
    MaxReuses = 2
    MaxFaults = 0
SPECIFICATION Spec
SYMMETRY FidSymmetry
INVARIANTS
    TypeOK
    OncePerLine
    ReplayIsChronological
    NothingSkipped
PROPERTY HistoryKept
