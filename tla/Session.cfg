SPECIFICATION FairSpec
CONSTANTS
    Sessions = {s1}
    Modes <- AllModes
    SemCap = 1
    ReturnCap = 1
INVARIANTS
    TypeOK
    Balanced
    SlotUsable
    JoinedOnReturn
PROPERTIES
    SessionEnds
CHECK_DEADLOCK FALSE
