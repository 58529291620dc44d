CONSTANTS
    cosecd = cosecd
    init = init
    second = second
    NoTask = NoTask
    Users <- OneUser
    Readers <- NoUsers
    Rerun = TRUE
    MaxInits = 2
    StackUnits = 4
    KernDepth = 2
SPECIFICATION FairSpec
PROPERTY ShellKeepsRunning
CHECK_DEADLOCK FALSE
