\* Two players who drive and ride: up to two requests, two vehicles.
CONSTANTS
    a = a
    b = b
    n1 = n1
    n2 = n2
    n3 = n3
    v1 = v1
    v2 = v2
    k1 = k1
    k2 = k2
    None = None
    Client <- TwoClients
    Conn <- TwoConns
    Vehicle <- TwoVehicles
    Cell = {k1}
    MaxRequests = 2
    Unset = {None}
    Reloaders = {}
SYMMETRY Symmetric
SPECIFICATION Spec
INVARIANTS NothingLeftBehind NoGhostRider
\* The world stops once every handle is spent.
CHECK_DEADLOCK FALSE
