\* Two players who may load another save; a request may name any puppet.
CONSTANTS
    a = a
    b = b
    n1 = n1
    n2 = n2
    n3 = n3
    v1 = v1
    v2 = v2
    k1 = k1
    k2 = k2
    None = None
    Client <- TwoClients
    Conn <- TwoConns
    Vehicle = {v1}
    Cell = {k1}
    MaxRequests = 1
    Unset <- TwoConns
    Reloaders <- TwoClients
SYMMETRY Symmetric
SPECIFICATION Spec
INVARIANT NoMissingPuppet
PROPERTIES SeatedByOwnPlayer ImplementsRoster
\* The world stops once every handle is spent.
CHECK_DEADLOCK FALSE
