CONSTANTS
    Ttys = {0}
    MAX_INPUT = 4
    Keys <- TypedKeys
    Modes <- Canonical
    BufLens = {2}
    MaxWraps = 1
    MaxGiven = 4
SPECIFICATION Spec
INVARIANT NothingLost
CHECK_DEADLOCK FALSE
