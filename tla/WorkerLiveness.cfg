SPECIFICATION FairSpec
CONSTANTS
    None = None
    w1 = w1
    w2 = w2
    h1 = h1
    h2 = h2
    MaxJobs = 2
    Workers = {w1}
    Handlers = {h1, h2}
PROPERTY CallsEnd
CHECK_DEADLOCK FALSE
