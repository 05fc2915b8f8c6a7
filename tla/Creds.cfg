SPECIFICATION FairSpec
CONSTANTS
    old = old
    new = new
    s1 = s1
    s2 = s2
    A = A
    B = B
    coreA = coreA
    coreB = coreB
    k0 = k0
    k1 = k1
    None = None
    Callers = {old, new}
    Sessions = {s1, s2}
    Caches = {k0, k1}
    Links = {A, B}
    Cores = {coreA, coreB}
    Setups <- MCSetups
    AttemptLimit = 3
    CaptchaLimit = 1
    MaxCacheErrors = 2
INVARIANTS TypeOK LockoutQuiet FetchNeeded NoLeftover
PROPERTIES ErrorsInvalidate CallsReturn
