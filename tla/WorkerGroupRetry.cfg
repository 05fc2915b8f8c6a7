SPECIFICATION FairSpec
CONSTANTS
    Workers = {w1, w2}
PROPERTIES
    ConfigRetried
CHECK_DEADLOCK FALSE
