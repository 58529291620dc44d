CONSTANTS
    cosecd = cosecd
    init = init
    second = second
    NoTask = NoTask
    Users <- TwoUsers
    Readers <- OneUser
    Rerun = FALSE
    MaxInits = 2
    StackUnits = 4
    KernDepth = 2
SPECIFICATION FairSpec
INVARIANTS
    TypeOK
    OneRing
    SavedContextIsLive
    
PROPERTIES
    
    NoStarvation
CHECK_DEADLOCK FALSE
