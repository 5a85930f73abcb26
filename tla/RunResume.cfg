SPECIFICATION Spec
CONSTANTS
    None = None
    Gone = Gone
    Issues = {i1}
    Agents = {coder}
    GatedAgents = {}
    PortalIssues = {i1}
    server = server
    second = second
    t1 = t1
    t2 = t2
    t3 = t3
    Procs = {server, second}
    Threads <- TrioThreads
    ProcOf <- TrioProcOf
    Duties <- TrioDuties
    MaxRuns = 3
    MAX_RESUMES = 1
    MAX_IDLE_RETRIES = 2
INVARIANTS
    ResumesBounded
    ResumedAtMostOnce
    QueuedOncePerPair
CHECK_DEADLOCK FALSE
