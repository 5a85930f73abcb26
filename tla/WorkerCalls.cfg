SPECIFICATION Spec
CONSTANTS
    None = None
    w1 = w1
    w2 = w2
    h1 = h1
    h2 = h2
    MaxJobs = 2
    Workers = {w1, w2}
    Handlers = {h1, h2}
INVARIANTS
    TypeOK
    RaisedIsSettled
PROPERTY Implements
SYMMETRY MCSymmetry
CHECK_DEADLOCK FALSE
