\* The process, its requests and what it depends on.
CONSTANTS
    d1 = d1
    r1 = r1
    r2 = r2
    Requests = {r1, r2}
    Devices <- MCDevices
    MaxOutages = 2
    MaxEdits = 2
    MaxKills = 1
SPECIFICATION FairServerSpec
INVARIANT
    ServerTypeOK
    VerdictWasTrue
PROPERTY
    ListensAgain
    OnlyMoralisKills
