SPECIFICATION Spec
CONSTANTS
    v1 = v1
    v2 = v2
    v3 = v3
    Validators <- ThreeValidators
    Correct = {v1, v2}
    VotingPower <- Powers
    GenesisTime = 1
    MaxTime = 3
    MaxHeight = 3
INVARIANT CorrectVotesCarryOn
CHECK_DEADLOCK FALSE
