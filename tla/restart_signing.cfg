SPECIFICATION RestartSpec
CONSTANTS
    v1 = v1
    v2 = v2
    v3 = v3
    forged = forged
    Turns <- TurnsV1V2
    Validators <- ThreeValidators
    Correct = {v1, v2}
    Quorums <- WeightedQuorums
    Proposer <- Rotation
    ValidContents = {v1, v2, v3}
    InvalidContents = {forged}
    SkipTimeoutCommit = FALSE
    FaultyMsgs <- Silent
    MaxHeight = 1
    MaxRound = 0
    MaxRestarts = 1
INVARIANT NeverDoubleSigns
CHECK_DEADLOCK FALSE
