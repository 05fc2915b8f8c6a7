SPECIFICATION Spec
CONSTANTS
    Goroutines = {g1, g2}
    SeqMod = 4
    TsMod = 84
    Step = 7
    StepInverse = 29
    Span = 8
    MaxEntries = 2
    Lifetime = 3
    Burst = 2
    MaxCount = 13
    InitSeqs <- MCInitSeqs
    InitTss <- MCInitTss
SYMMETRY Symmetry
INVARIANTS
    TypeOK
    NonceUnique
    AcceptedOnce
    InWindowAccepted
CHECK_DEADLOCK FALSE
