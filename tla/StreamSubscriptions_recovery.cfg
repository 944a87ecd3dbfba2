SPECIFICATION FairSpec
CONSTANTS
    w1 = w1
    w2 = w2
    p1 = p1
    p2 = p2
    p3 = p3
    Orchestrators = {w1}
    NoOwner = NoOwner
    Subs = {s1}
    NoSub = NoSub
    Permits = {p1}
    Holder <- MCHolder
    MaxMessages = 0
    MaxFaults = 1
PROPERTIES ActiveIsStreamed
CHECK_DEADLOCK FALSE
