SPECIFICATION Spec
CONSTANTS
    Workers = {w1, w2}
    NoWorker = NoWorker
    Jobs = {j1}
    Sinks = {}
    MaxFaults = 1
INVARIANTS ArtifactIsLastOwners
CHECK_DEADLOCK FALSE
