SPECIFICATION RestartSpec
CONSTANTS
    v1 = v1
    v2 = v2
    v3 = v3
    forged = forged
    Turns <- TurnsV1V2
    Validators <- ThreeValidators
    Correct = {v1, v2}
    Quorums <- WeightedQuorums
    Proposer <- Rotation
    ValidContents = {v1, v2, v3}
    InvalidContents = {forged}
    SkipTimeoutCommit = TRUE
    FaultyMsgs <- Silent
    MaxHeight = 2
    MaxRound = 0
    MaxRestarts = 1
INVARIANT StoreMatchesChain
CHECK_DEADLOCK FALSE
