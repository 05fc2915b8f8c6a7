SPECIFICATION FairSpec
CONSTANTS
    Workers = {w1, w2}
INVARIANTS
    TypeOK
    ConfigSingleFlight
    RefreshOnce
PROPERTIES
    GroupStops
CHECK_DEADLOCK FALSE
