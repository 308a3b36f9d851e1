SPECIFICATION Spec
CONSTANTS
    v1 = v1
    v2 = v2
    v3 = v3
    forged = forged
    Turns <- TurnsV1V3
    Validators <- ThreeValidators
    Correct = {v1, v2}
    Quorums <- WeightedQuorums
    Proposer <- Rotation
    ValidContents = {v1, v2, v3}
    InvalidContents = {forged}
    SkipTimeoutCommit = TRUE
    FaultyMsgs <- TwoChildren
    MaxHeight = 2
    MaxRound = 1
INVARIANTS StoreMatchesChain PanicsAtNilOnly NoEquivocation
PROPERTY StepsForward
CHECK_DEADLOCK FALSE
