SPECIFICATION FairSpec
CONSTANTS
    r1 = r1
    r2 = r2
    Request = {r1, r2}
    Telling = {r1}
    Micro = TRUE
    MayFail = TRUE
    MaxStarts = 2
INVARIANTS
    TypeOK
    ConnReleased
    AnswersTellEffects
    CrashNeedsPast
PROPERTIES
    GraceKept
    StopsWhenAsked
CHECK_DEADLOCK FALSE
