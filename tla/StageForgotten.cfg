SPECIFICATION Spec
CONSTANTS
    a = a
    b = b
    c = c
    t1 = t1
    t2 = t2
    Children = {a, b, c}
    StageOf <- TrioStageOf
    Threads = {t1, t2}
    MaxIdleRetries = 3
INVARIANT NoStageForgotten
CHECK_DEADLOCK FALSE
