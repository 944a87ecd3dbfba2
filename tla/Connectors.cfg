SPECIFICATION ConnSpec
CONSTANTS
    Executors = {x1, x2}
    Limit = 2
    PageMax = 1
    MaxTip = 4
    MaxErrors = 1
    EvmJobs = {x1, x2}
    StartBlocks <- MCStartBlocks
    Queries <- MCQueries
    Match <- MCMatch
    BlockLimit = 2
    BlockChunk = 1
    Confirmations = 1
    MaxReorg = 1
    MaxLag = 1
    Retries = 2
    MaxBlock = 3
    MaxReorgs = 1
    MaxEvmErrors = 1
    HlJobs = {x1, x2}
    WalletKinds <- MCWalletKinds
    PageCap <- MCPageCap
    EventLimit = 2
    MaxTime = 3
    MaxTies = 2
    MaxHlErrors = 1
INVARIANTS NoHistorySkipped RowsCanonical NoBlockSkipped NoEventSkipped
PROPERTIES BackfillsDrain
