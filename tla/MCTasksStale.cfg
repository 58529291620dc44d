CONSTANTS
    cosecd = cosecd
    init = init
    second = second
    NoTask = NoTask
    Users <- OneUser
    Readers <- OneUser
    Rerun = FALSE
    MaxInits = 2
    StackUnits = 4
    KernDepth = 2
SPECIFICATION Spec
INVARIANT ReturnsPopFrames
CHECK_DEADLOCK FALSE
