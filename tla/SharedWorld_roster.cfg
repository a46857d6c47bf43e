\* Two clients with three connections to spend, two cells; nobody drives.
CONSTANTS
    a = a
    b = b
    n1 = n1
    n2 = n2
    n3 = n3
    v1 = v1
    v2 = v2
    k1 = k1
    k2 = k2
    None = None
    Client <- TwoClients
    Conn <- ThreeConns
    Vehicle = {}
    Cell <- TwoCells
    MaxRequests = 0
    Unset = {}
    Reloaders = {}
SYMMETRY Symmetric
SPECIFICATION Spec
INVARIANTS NoGhostPuppet SpawnedOnce CellsHeld
\* The world stops once every handle is spent.
CHECK_DEADLOCK FALSE
