\* Two plans of up to three transactions on the testnet, nonces counted at "latest".
CONSTANTS
    Plans = {p1, p2}
    Requests = {r1, r2, r3}
    Kinds <- Testnet
    None = None
    MaxOthers = 1
    MaxDrops = 1
    MaxCrashes = 1
SYMMETRY Symmetry
SPECIFICATION Spec
INVARIANT
    StepsInOrder
    AnswerIsTrue
