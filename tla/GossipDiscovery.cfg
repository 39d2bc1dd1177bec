SPECIFICATION CalmSpec
CONSTANTS
    a = a
    b = b
    c = c
    d = d
    Nodes = {a, b, c}
    Unreachable = {}
    Bootstrap <- ChainPeers
    Lossy = FALSE
    MaxCounter = 2
    MaxStarts = 1
    Clock <- SameClock
    MaxInFlight = 20
PROPERTIES
    EveryoneIsDiscovered
    StormsEnd
CHECK_DEADLOCK FALSE
