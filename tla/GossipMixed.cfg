SPECIFICATION Spec
CONSTANTS
    a = a
    b = b
    c = c
    d = d
    Nodes = {a, b, c, d}
    Unreachable = {d}
    Bootstrap <- MixedPeers
    Lossy = TRUE
    MaxCounter = 2
    MaxStarts = 2
    Clock <- AnyClock
    MaxInFlight = 2
CONSTRAINT OnlyBRestarts
INVARIANTS
    TypeOK
    NothingFromTheFuture
PROPERTY ImplementsPeerTables
CHECK_DEADLOCK FALSE
