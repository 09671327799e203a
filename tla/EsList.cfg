SPECIFICATION FairSpec
CONSTANTS
    w1 = w1
    w2 = w2
    w3 = w3
    Worker = {w1, w2, w3}
    Hits = 4
    PageSize = 3
    MayFail = TRUE
INVARIANTS
    TypeOK
    EveryHitOnce
    SomeSuccess
    LastErrAgrees
    AbandonedNeedsHits
PROPERTIES
    Terminates
CHECK_DEADLOCK FALSE
