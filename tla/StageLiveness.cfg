SPECIFICATION FairSpec
CONSTANTS
    a = a
    b = b
    c = c
    t1 = t1
    t2 = t2
    Children = {a, b}
    StageOf <- PairStageOf
    Threads = {t1, t2}
    MaxIdleRetries = 1
INVARIANT TypeOK
PROPERTY AnnouncedWhenAllClosed
CHECK_DEADLOCK FALSE
