CONSTANTS
    Nothing = Nothing
    Fid <- TwoFid
    Name <- Rules
    Value <- Few
    Unnamed <- Two
    Caller <- One
    OncePerSecond = TRUE
    WritesFail = FALSE
    MaxPlays = 3
    MaxWrites = 2
    MaxSeconds = 1
    MaxFaults = 1
SPECIFICATION Spec
INVARIANTS
    OwnPanel
    NothingMissed
