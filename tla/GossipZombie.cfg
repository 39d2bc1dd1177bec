SPECIFICATION AgingSpec
CONSTANTS
    a = a
    b = b
    c = c
    d = d
    Nodes = {a, b, c}
    Unreachable = {}
    Bootstrap <- StarPeers
    Lossy = FALSE
    MaxCounter = 1
    MaxStarts = 1
    Clock <- SameClock
    MaxInFlight = 20
PROPERTY DeadPeersAreForgotten
CHECK_DEADLOCK FALSE
