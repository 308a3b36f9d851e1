SPECIFICATION Spec
CONSTANTS
    v1 = v1
    v2 = v2
    v3 = v3
    forged = forged
    Turns <- TurnsV1V3
    Validators <- ThreeValidators
    Correct = {v1, v2}
    Quorums <- WeightedQuorums
    Proposer <- Rotation
    ValidContents = {v1, v2, v3}
    InvalidContents = {forged}
    SkipTimeoutCommit = FALSE
    FaultyMsgs <- ClaimedPOL
    MaxHeight = 1
    MaxRound = 1
    RoundModulus = 16
    PatientRound = 0
INVARIANT RequestsPOLRound
CHECK_DEADLOCK FALSE
