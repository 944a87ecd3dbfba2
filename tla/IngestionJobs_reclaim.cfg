SPECIFICATION FairSpec
CONSTANTS
    Workers = {w1, w2}
    Jobs = {j1}
    Targets = {t1}
    Wallets = {t1}
    JobTarget <- MCJobTarget
    MaxCursor = 1
    MaxFaults = 2
CHECK_DEADLOCK FALSE
INVARIANTS CompletedJobCommitted
PROPERTIES ImplementsFencedQueue EnqueuedJobFinishes
