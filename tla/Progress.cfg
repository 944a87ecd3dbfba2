SPECIFICATION ProgressSpec
CONSTANTS
    w1 = w1
    p1 = p1
    p2 = p2
    Orchestrators = {w1}
    NoOwner = NoOwner
    Subs = {s1}
    NoSub = NoSub
    Permits = {p1, p2}
    Holder <- MCHolder
    MaxMessages = 1
    MaxFaults = 1
    Rows = {1, 2, 3, 4, 5, 6, 7}
    RowOf <- MCRowOf
    StoredRows = {1, 2, 3, 5, 6}
    Targets = {"w", "q", "l"}
    TargetOf <- MCTargetOf
    Requests <- MCRequests
    NoTarget = "any"
    NoNet = "net"
    NoAddr = "none"
    PageSize = 2
    HardCap = 5
    MaxQueryLimit = 2
    ChannelCapacity = 1
    MaxStreamFaults = 1
    r1 = r1
    Workers = {v1, v2}
    NoWorker = NoWorker
    Runs = {r1, r2}
    IngestionRun <- MCIngestionRun
    BadScope = {r2}
    EmptyRuns = {}
    RunPermits = 1
    MaxMessage = 4
    SlotOf <- MCSlotOf
    Unreadable = {1}
    Sources = {"grpc", "cursor", "ws"}
    ChannelSize = 1
    FlushSize = 2
    MaxRetries = 1
    MaxStreams = 2
    MaxSrcFaults = 2
CHECK_DEADLOCK FALSE
INVARIANTS ExportFaithful SourceConsistent
PROPERTIES StreamsEnd ExportReturns CreatedRunFinishes
