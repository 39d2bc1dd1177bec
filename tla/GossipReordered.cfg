SPECIFICATION Spec
CONSTANTS
    a = a
    b = b
    c = c
    d = d
    Nodes = {a, b}
    Unreachable = {}
    Bootstrap <- ChainPeers
    Lossy = TRUE
    MaxCounter = 3
    MaxStarts = 1
    Clock <- SameClock
    MaxInFlight = 2
PROPERTY VersionNeverGoesBack
CHECK_DEADLOCK FALSE
