SPECIFICATION Spec
CONSTANTS
    Workers = {w1, w2}
    Jobs = {j1, j2}
    Targets = {t1}
    Wallets = {t1}
    JobTarget <- MCJobTarget
    MaxCursor = 2
    MaxFaults = 1
SYMMETRY MCSymmetry
CHECK_DEADLOCK FALSE
INVARIANTS CheckpointCovered SuccessIsCommitted
