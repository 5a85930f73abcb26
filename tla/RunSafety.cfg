SPECIFICATION Spec
CONSTANTS
    None = None
    Gone = Gone
    Issues = {i1}
    Agents = {coder, gated}
    GatedAgents = {gated}
    PortalIssues = {}
    server = server
    second = second
    t1 = t1
    t2 = t2
    t3 = t3
    Procs = {server, second}
    Threads <- PairThreads
    ProcOf <- PairProcOf
    Duties <- PairDuties
    MaxRuns = 2
    MAX_RESUMES = 1
    MAX_IDLE_RETRIES = 2
INVARIANTS
    TypeOK
    OneRunningPerIssue
    ExecutionMatchesRow
    ApprovalNotBypassed
PROPERTIES
    EndedRunsStay
    RunningCancelledOnlyWithIssue
CHECK_DEADLOCK FALSE
