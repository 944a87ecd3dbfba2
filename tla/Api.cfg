SPECIFICATION Spec
CONSTANTS
    k1 = k1
    k2 = k2
    t1 = t1
    t2 = t2
    a1 = a1
    a2 = a2
    Reqs = {q1, q2}
    Tenants = {t1, t2}
    Admin = Admin
    Stranger = Stranger
    LegacyKey = LegacyKey
    Keys = {k1, k2, k3}
    InitKeys <- MCInitKeys
    InitTgts <- MCInitTgts
    InitJobs <- MCInitJobs
    InitIndexed <- MCInitIndexed
    Addrs = {a1, a2}
    Allowed = {a1, a2}
    BadUrl = {a2}
    Global = Global
    Txs = {1, 2}
    TxAddrs <- MCTxAddrs
    MaxTargets = 3
    MaxJobs = 6
    MaxRequests = 2
    MaxApiFaults = 1
    Clients = {c1, c2}
    Capacity = 2
    EvictAfter = 2
    MaxBuckets = 2
    MaxNow = 4
    Traders = {"u", "v"}
    Coins = {"BTC", "ETH"}
    Fills = {1, 2, 3}
    FillOf <- MCFillOf
    Payments = {1}
    PaymentOf <- MCPaymentOf
    Second = 2
    MaxRebuilds = 2
    MaxAnFaults = 1
    LedgerIds = {1, 2, 3, 4, 5}
    LedgerOf <- MCLedgerOf
    EventIds = {1, 2, 3}
    EventOf <- MCEventOf
    SnapshotIds = {1, 2, 3, 4}
    SnapshotOf <- MCSnapshotOf
    NoParty = "nobody"
SYMMETRY MCSymmetry
CHECK_DEADLOCK FALSE
INVARIANTS TypesOK TenantSeesOwn AnsweredJobIsReadable RateIsBounded TradesAreSound ReportsAddUp
PROPERTIES TenantRowsAreOwn
