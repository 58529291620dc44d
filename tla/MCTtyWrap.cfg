CONSTANTS
    Ttys = {0}
    MAX_INPUT = 4
    Keys <- AllKeys
    Modes <- BothModes
    BufLens = {2}
    MaxWraps = 1
    MaxGiven = 4
SPECIFICATION Spec
INVARIANT TypeOK
PROPERTY RefusesOnlyWhenFull
CHECK_DEADLOCK FALSE
