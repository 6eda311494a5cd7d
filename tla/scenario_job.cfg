SPECIFICATION Spec
CONSTANTS
    f = f
    g = g
    b = b
    c = c
    p = p
    q = q
    Ids = {f, g, b, c, p, q}
    Keys = {k}
    Values = {x, y}
    None = None
    Programs <- MCPrograms
INVARIANTS EveryStartedStepCounts HeldBackUntilJoined LastPublishedWriteStands
CHECK_DEADLOCK FALSE
