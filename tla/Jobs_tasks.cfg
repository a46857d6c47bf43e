\* Two drivers, three jobs, two deliveries and one fare.
CONSTANTS
    p1 = p1
    p2 = p2
    w1 = w1
    w2 = w2
    w3 = w3
    d1 = d1
    d2 = d2
    f1 = f1
    f2 = f2
    v1 = v1
    None = None
    Player <- TwoPlayers
    Worker <- ThreeWorkers
    Delivery <- TwoDeliveries
    Fare <- OneFare
    Vehicle <- OneVehicle
SYMMETRY Symmetric
SPECIFICATION Spec
INVARIANTS OnePlace ShownIsHeld StaysUp
PROPERTY ImplementsPool
\* The server may have stopped, and players and jobs are spent.
CHECK_DEADLOCK FALSE
