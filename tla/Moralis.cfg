\* Two deliveries of every shape, one crash.
CONSTANTS
    Tokens <- MCTokens
    Addresses <- MCAddresses
    Hashes <- MCHashes
    Prefix <- MCPrefix
    Payloads <- AllShapes
    NoHash <- nohash
    None <- none
    h1 = h1
    h2 = h2
    nohash = nohash
    none = none
    Deliveries = {d1, d2}
    MaxCrashes = 1
SPECIFICATION FairSpec
INVARIANT
    TypeOK
    DuplicateNeedsOverlapOrLoss
    RepeatNeedsLoss
    SilencedIsAccountedFor
PROPERTY
    Promise
    EventuallyAnnounced
