\* A token accepted by the DTO and not listed by the SDK.
CONSTANTS
    Urls <- MCUrls
    Env <- TwoUrls
    NoUrl = blank
    Requests = {r1, r2}
    Bodies <- MCBodies
    Symbols <- MCSymbols
    Listed <- MCListed
    NoToken <- none
    MaxCounter = 2
    u1 = u1
    u2 = u2
    u3 = u3
    blank = blank
    none = none
SPECIFICATION Spec
INVARIANT
    InvalidTokenRefused
