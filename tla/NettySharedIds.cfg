\* A behaviour ends when every caller has made its calls.
CHECK_DEADLOCK FALSE
SPECIFICATION Spec
CONSTANTS
    Callers = {c1, c2, c3}
    Channels = {h1, h2}
    SharedIds = {s1}
    NoCall = NoCall
    NoChannel = NoChannel
    MaxSends = 1
    MaxFaults = 0
    MayClose = TRUE
SYMMETRY Symmetry
INVARIANT CloseWaitsForEveryChannel
