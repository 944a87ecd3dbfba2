SPECIFICATION Spec
CONSTANTS
    Procs = {p1, p2}
    Wallets = {"a"}
    Networks = {"ethereum", "base"}
    Foreign = {}
    DefaultNetwork = "ethereum"
    NoNetwork = "none"
    OnChain <- MCOnChain
    Limit = 2
    Buffer = 1
    NormLimit = 2
    MaxCommands = 3
    MaxCliFaults = 1
    Payloads <- MCPayloads
    Wallet = "w"
    Assets = {"SOL", "m", "v", "ETH", "USDC", "PURR", "BTC"}
    Tokens = {"wsol", "m", "t", "u", "v"}
    Symbol <- MCSymbol
    TableDecimals <- MCTableDecimals
    Quanta <- MCQuanta
    MaxPasses = 2
    Configs <- MCConfigs
    Families <- MCFamilies
    Serves <- MCServes
    NoUrl = "none"
    Names <- MCNames
    MaxKnown = 1
    MaxWork = 1
SYMMETRY MCSymmetry
CHECK_DEADLOCK FALSE
INVARIANTS TypesOK NetworkIsReal CheckpointIsInV1 HealedIsVisible LedgerIsNetChange SilverIsWhole DerivationsAgree ProvidersFollowConfig
