SPECIFICATION FairSpec
CONSTANTS
    d1 = d1
    d2 = d2
    turnA = turnA
    siteA = siteA
    None = None
    Daemons = {d1}
    Hosts = {turnA, siteA}
    Fleets <- SoloFleets
PROPERTY StopExits
CHECK_DEADLOCK FALSE
