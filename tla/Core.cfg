SPECIFICATION FairSpec
CONSTANTS
    NumGroups = 2
    EventCap = 1
INVARIANTS
    TypeOK
    PanicOnlyUnjoined
PROPERTIES
    ImplementsService
    ShutdownCompletes
CHECK_DEADLOCK FALSE
