\* A rider who has gone before the ride begins.
CONSTANTS
    p1 = p1
    p2 = p2
    w1 = w1
    w2 = w2
    w3 = w3
    d1 = d1
    d2 = d2
    f1 = f1
    f2 = f2
    v1 = v1
    None = None
    Player <- TwoPlayers
    Worker <- TwoWorkers
    Delivery = {}
    Fare <- OneFare
    Vehicle <- OneVehicle
SPECIFICATION Spec
PROPERTY LostRiderCancels
CHECK_DEADLOCK FALSE
