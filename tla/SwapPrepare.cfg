\* One swap by every route, while market and wallet change twice.
CONSTANTS
    Amount = 1000000
    Eths <- MCEths
    Coins <- MCCoins
    Prices <- MCPrices
    SwapGas <- MCSwapGas
    Fees <- MCFees
    UniswapSlippage = 1000
    BscSlippage = None
    BscGas = 200000
    InUnit = 100
    OutUnit = 10
    None = None
    MaxMoves = 2
SPECIFICATION Spec
INVARIANT
    FundedUnlessSpent
    FailureHasCause
    GasSuffices
    WrapIsSpare
    ShortfallNeedsMove
