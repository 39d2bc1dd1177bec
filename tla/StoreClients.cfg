SPECIFICATION Spec
CONSTANTS
    x = x
    y = y
    z = z
    Clients = {x, y, z}
    MaxExits = 1
CONSTRAINT TwoOrLucky
INVARIANTS
    TypeOK
    SerialClientsLoseNothing
    AcceptedOrdersHaveServerIds
SYMMETRY AnyClient
CHECK_DEADLOCK FALSE
