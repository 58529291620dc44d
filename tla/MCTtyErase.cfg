CONSTANTS
    Ttys = {0}
    MAX_INPUT = 4
    Keys <- AllKeys
    Modes <- Canonical
    BufLens = {2}
    MaxWraps = 0
    MaxGiven = 4
SPECIFICATION Spec
INVARIANT FoundLineStays
CHECK_DEADLOCK FALSE
