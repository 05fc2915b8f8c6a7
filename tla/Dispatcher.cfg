SPECIFICATION FairSpec
CONSTANTS
    Slots = {s1, s2}
    SendCap = 1
    PrioCap = 1
    Bufs = {b1, b2}
    Sizes <- MCSizes
    Gaps <- MCGaps
INVARIANTS
    TypeOK
    NoSendOnClosed
    RRInRange
    BufferOwnedOnce
    ChunkAffinity
PROPERTIES
    DropOnlyWhenFull
    SmallNotBehindBulk
    CancelledSlotLeaves
CHECK_DEADLOCK FALSE
