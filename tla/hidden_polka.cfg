SPECIFICATION Spec
CONSTANTS
    v1 = v1
    v2 = v2
    v3 = v3
    forged = forged
    Turns <- TurnsV1V2
    Validators <- ThreeValidators
    Correct = {v1, v2}
    Quorums <- WeightedQuorums
    Proposer <- Rotation
    ValidContents = {v1, v2, v3}
    InvalidContents = {forged}
    SkipTimeoutCommit = FALSE
    FaultyMsgs <- HiddenPolka
    MaxHeight = 1
    MaxRound = 1
INVARIANTS Agreement LockHeld JustifiedByPolka
PROPERTY ImplementsChain
CHECK_DEADLOCK FALSE
