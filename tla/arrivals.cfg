CONSTANTS
    k1 = k1
    k2 = k2
    s1 = s1
    s2 = s2
    c1 = c1
    c2 = c2
    w1 = w1
    p1 = p1
    f1 = f1
    ann = ann
    h1 = h1
    h2 = h2
    None = None
    MaxRows = 2
    Keys = {k1, k2}
    Creators = {w1}
    Instances = {s1, s2}
    Conns = {c1, c2}
    SeenLimit = 1
    PollLimit = 1
    InOrder = TRUE
    MaxDrops = 1
    MaxFaults = 1
CHECK_DEADLOCK FALSE
SPECIFICATION PartSpec
INVARIANT SkipsNothing
PROPERTIES Settles Delivers
