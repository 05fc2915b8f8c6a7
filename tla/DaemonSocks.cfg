SPECIFICATION Spec
CONSTANTS
    d1 = d1
    d2 = d2
    turnA = turnA
    siteA = siteA
    None = None
    Daemons = {d1, d2}
    Hosts = {turnA, siteA}
    Fleets <- SocksFleets
PROPERTY SocksNoConflict
CHECK_DEADLOCK FALSE
