\* Two templates and two characters.
CONSTANTS
    Part = {"saves"}
    p1 = p1
    p2 = p2
    male = male
    female = female
    c1 = c1
    c2 = c2
    r1 = r1
    r2 = r2
    v1 = v1
    v2 = v2
    MaxSpawns = 2
    MaxWidgets = 2
    MaxCalls = 2
    MaxMarkers = 2
    MaxWakes = 6
    Puppet = {p1, p2}
    Nobody = Nobody
    MaxHooks = 1
    MaxEmotes = 2
    Template = {male, female}
    Character = {c1, c2}
    Missing = Missing
    Half = Half
    Played = Played
    Second = 2
    Delay = 1
    MaxTick = 4
    MaxTrip = 1
    MaxStep = 2
    MaxPoints = 2
    Wrap = 16
    Group = 2
    Groups = 2
    LengthBits = 3
    MaxFields = 2
    Rider = {r1, r2}
    Vehicle = {v1, v2}
    OwnCar = OwnCar
    OnFoot = OnFoot
    w1 = w1
    g1 = g1
    g2 = g2
    Wearer = {w1}
    Garment = {g1, g2}
    Modded = {g2}
    MaxPolls = 2
    MaxLooks = 2
SPECIFICATION Spec
SYMMETRY Alike
INVARIANT VerbatimKept
\* A game may be left where it is.
CHECK_DEADLOCK FALSE
