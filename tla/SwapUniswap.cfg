\* Two Uniswap plans, nonces counted with the pool.
CONSTANTS
    Plans = {p1, p2}
    Requests = {r1, r2}
    Kinds <- Uniswap
    None = None
    MaxOthers = 1
    MaxDrops = 1
    MaxCrashes = 1
SPECIFICATION FairSpec
INVARIANT
    GapNeedsDrop
PROPERTY
    AbandonedForGood
    EventuallyAnswered
