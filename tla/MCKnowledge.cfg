SPECIFICATION LiveSpec
CONSTANTS
    r1 = r1
    r2 = r2
    r3 = r3
    cell = cell
    system = system
    bodies = bodies
    bright = bright
    dark = dark
    nothing = nothing
    Nothing = nothing
    Request <- Requests
    Key <- Keys
    KindOf <- Kinds
    Asks <- AskSets
    EdsmKnows = {system}
    Star <- Stars
    EdsmStars <- Bright
    Teaches <- Taught
    MaxFaults = 2
INVARIANTS NoSleeper FlightHasLeader OneByOne MissIsExplained
PROPERTY Settles
