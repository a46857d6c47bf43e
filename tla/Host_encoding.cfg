\* The constants of the run "host"; one message of the protocol is edited.
CONSTANTS
    m1 = m1
    m2 = m2
    p1 = p1
    p2 = p2
    t1 = t1
    c1 = c1
    c2 = c2
    f1 = f1
    g1 = g1
    g2 = g2
    Torn = Torn
    Mod = {m1, m2}
    MaxVersion = 2
    MaxStarts = 3
    Player = {p1, p2}
    Thread = {t1}
    Noon = 12
    Period = 3
    MaxDelta = 2
    MaxTotal = 17
    MaxBoots = 2
    File = {"client", "server"}
    Message = {"m", "n"}
    FieldName = {"x", "y"}
    MaxFields = 2
    MaxEdits = 1
    NotBuilt = NotBuilt
    Class = {c1, c2}
    Function = {f1}
    Unset = Unset
    MaxLibraries = 2
    MaxFlight = 2
    MaxRuns = 2
    Blank = Blank
    GameThread = {g1, g2}
    Idle = Idle
    MaxTasks = 2
    n1 = n1
    n2 = n2
    x1 = x1
    NoClass = NoClass
    NativeClass = {n1, n2}
    GameSystem = {n2}
    Expansion = {x1}
    Base <- TwoBases
    Returns <- Returned
    Holds <- NoneHeld
    MaxParams = 3
    k1 = k1
    k2 = k2
    Scripted = {k1, k2}
    ShortName = {"X", "Jobs.X"}
    Parentless = Parentless
    d1 = d1
    d2 = d2
    d3 = d3
    Conn = {d1, d2, d3}
    Foreign = {d3}
    MaxShakes = 2
INIT Init
NEXT Next
INVARIANT AdmittedSameBits
\* The starts of the server are counted.
CHECK_DEADLOCK FALSE
