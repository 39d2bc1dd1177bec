SPECIFICATION Spec
CONSTANTS
    a = a
    b = b
    c = c
    d = d
    Nodes = {a, b, c, d}
    Unreachable = {d}
    Bootstrap <- MixedPeers
    Lossy = TRUE
    MaxCounter = 2
    MaxStarts = 1
    Clock <- SameClock
    MaxInFlight = 2
INVARIANT ServiceKeepsRunning
CHECK_DEADLOCK FALSE
