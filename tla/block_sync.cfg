SPECIFICATION Spec
CONSTANTS
    n1 = n1
    n2 = n2
    n3 = n3
    n4 = n4
    NoPeer = NoPeer
    Nodes = {n1, n2, n3, n4}
    Correct = {n1, n2, n4}
    SkipBlockSync = {n1, n4}
    MaxHeight = 2
    MaxFails = 2
INVARIANTS TypeOK HeightIsStored AsksForWhatIsThere
PROPERTIES SyncEndsComplete SyncEnds
CHECK_DEADLOCK FALSE
