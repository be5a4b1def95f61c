\* A file of valid entries, published with no call refused.
CONSTANTS
    redisHost = redisHost
    redisPwd = redisPwd
    None = None
    Keys <- MCKeys
    Files <- Valids
    Required <- MCRequired
    Containers = {c1}
    MaxRuns = 1
SPECIFICATION Spec
INVARIANT
    EveryEntryIsPut
