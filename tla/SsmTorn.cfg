\* Two starts amid three runs of the script.
CONSTANTS
    redisHost = redisHost
    redisPwd = redisPwd
    None = None
    Keys <- MCKeys
    Files <- MCFiles
    Required <- MCRequired
    Containers = {c1, c2}
    MaxRuns = 3
SYMMETRY Symmetry
SPECIFICATION Spec
INVARIANT
    TornNeedsTwoRuns
    SecondPutNeedsInvalidFirst
