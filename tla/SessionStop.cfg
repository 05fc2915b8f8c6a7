SPECIFICATION FairSpec
CONSTANTS
    Sessions = {s1}
    Modes = {"direct"}
    SemCap = 1
    ReturnCap = 1
PROPERTIES
    StopEnds
CHECK_DEADLOCK FALSE
