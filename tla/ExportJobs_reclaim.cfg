SPECIFICATION FairSpec
CONSTANTS
    Workers = {w1, w2}
    NoWorker = NoWorker
    Jobs = {j1, j2}
    Sinks = {j1}
    MaxFaults = 1
CHECK_DEADLOCK FALSE
INVARIANTS DownloadIsWhole CompletedByNewestClaim
PROPERTIES EnqueuedExportFinishes
