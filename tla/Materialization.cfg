SPECIFICATION MatSpec
CONSTANTS
    r1 = r1
    r2 = r2
    r3 = r3
    Workers = {w1, w2}
    NoWorker = NoWorker
    Runs = {r1, r2}
    IngestionRun <- MCIngestionRun
    BadScope = {}
    EmptyRuns = {r2}
    Permits = 2
    MaxFaults = 1
    GoldTasks = {x1, x2}
    GoldRuns = {r1, r2, r3}
    NoRun = NoRun
    Inputs = {1, 2, 3, 4}
    RunInputs <- MCRunInputs
    TimeOf <- MCTimeOf
    DeltaOf <- MCDeltaOf
    InLedger = {1, 2, 4}
    FillInputs = {2, 3}
    Rejected = {4}
    Legacy = {3}
    MaxGoldFaults = 1
SYMMETRY MCSymmetry
CHECK_DEADLOCK FALSE
INVARIANTS WatermarkIsCompleted CallbackMatchesRow CompletedIsWritten BalancesAddUpUnraced GoldConsistent
