CONSTANTS
    Ttys = {0}
    MAX_INPUT = 4
    Keys <- TypedKeys
    Modes <- BothModes
    BufLens = {2}
    MaxWraps = 0
    MaxGiven = 4
SPECIFICATION FairSpec
PROPERTY LineIsServed
