SPECIFICATION Spec
CONSTANTS
    w1 = w1
    w2 = w2
    p1 = p1
    p2 = p2
    p3 = p3
    Orchestrators = {w1, w2}
    NoOwner = NoOwner
    Subs = {s1}
    NoSub = NoSub
    Permits = {p1, p2, p3}
    Holder <- MCHolder
    MaxMessages = 1
    MaxFaults = 1
SYMMETRY MCSymmetry
CHECK_DEADLOCK FALSE
INVARIANTS StreamsAreControlled CursorIsBacked
