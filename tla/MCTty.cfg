CONSTANTS
    Ttys = {0, 1}
    MAX_INPUT = 4
    Keys <- TypedKeys
    Modes <- BothModes
    BufLens = {2}
    MaxWraps = 0
    MaxGiven = 4
SPECIFICATION Spec
INVARIANTS
    
    NothingLost
    ServesALine
    CopiesFit

    
