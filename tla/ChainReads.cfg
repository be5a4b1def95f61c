\* Any request beside one for the nonce, over endpoints that lag.
CONSTANTS
    e1 = e1
    e2 = e2
    r1 = r1
    r2 = r2
    Urls = {e1, e2}
    Env <- MCEnv
    NoUrl = nourl
    Bsc = bsc
    Requests = {r1, r2}
    Traffic <- MCTraffic
    Turns <- MCTurns
    Genesis <- MCGenesis
    Prices <- MCPrices
    PancakeSlippage = 10000
    None = none
    MaxBlocks = 2
SPECIFICATION Spec
INVARIANT
    NonceNeverGoesBack
    TornNeedsBlock
    MinimumHonoursSlippage
