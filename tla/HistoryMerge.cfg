\* Up to three transactions, two transfers to a list.
CONSTANTS
    usdc = usdc
    ticket = ticket
    obscure = obscure
    None = None
    Contracts <- MCContracts
    Metadata <- MCMetadata
    Shapes <- MCShapes
    MaxCount = 2
    MaxTxs = 3
SPECIFICATION Spec
INVARIANT
    TypeOK
    CompleteAboveCutoff
    SpendingIsShown
    OnceNewestFirst
    SameTokenSameScale
