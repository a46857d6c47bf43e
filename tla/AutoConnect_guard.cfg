CONSTANTS
    a1 = a1
    a2 = a2
    s1 = s1
    s2 = s2
    k1 = k1
    k2 = k2
    None = None
    Attempt = {a1, a2}
    Server = {s1, s2}
    Timer = {k1, k2}
    MaxCalls = 2
    MaxLeft = 1
    MaxArms = 2
SPECIFICATION Spec
PROPERTY NeverWhileConnected
CHECK_DEADLOCK FALSE
