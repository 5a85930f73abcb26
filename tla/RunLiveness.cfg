SPECIFICATION FairSpec
CONSTANTS
    None = None
    Gone = Gone
    Issues = {i1}
    Agents = {coder}
    GatedAgents = {}
    PortalIssues = {}
    server = server
    second = second
    t1 = t1
    t2 = t2
    t3 = t3
    Procs = {server}
    Threads <- MCThreads
    ProcOf <- SingleProcOf
    Duties <- SingleDuties
    MaxRuns = 2
    MAX_RESUMES = 1
    MAX_IDLE_RETRIES = 2
PROPERTIES
    OrphanIsRecovered
    PendingStarts
    IdleIssueIsPickedUp
CHECK_DEADLOCK FALSE
