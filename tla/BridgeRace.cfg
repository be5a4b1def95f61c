\* Three bridge requests over three endpoints, with other callers in between.
CONSTANTS
    Urls <- MCUrls
    Env <- ThreeUrls
    NoUrl = blank
    Requests = {r1, r2, r3}
    Bodies <- RaceBodies
    Symbols <- MCSymbols
    Listed <- MCListed
    NoToken <- none
    MaxCounter = 6
    u1 = u1
    u2 = u2
    u3 = u3
    blank = blank
    none = none
SYMMETRY Symmetry
SPECIFICATION Spec
INVARIANT
    Balanced
    EndpointIsItsOwn
