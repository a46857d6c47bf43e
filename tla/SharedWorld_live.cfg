\* Two players whose clients and server keep running.
CONSTANTS
    a = a
    b = b
    n1 = n1
    n2 = n2
    n3 = n3
    v1 = v1
    v2 = v2
    k1 = k1
    k2 = k2
    None = None
    Client <- TwoClients
    Conn <- TwoConns
    Vehicle = {}
    Cell = {k1}
    MaxRequests = 0
    Unset = {}
    Reloaders = {}
SPECIFICATION FairSpec
PROPERTIES PlayersMeet GhostsFade
\* The world stops once every handle is spent.
CHECK_DEADLOCK FALSE
