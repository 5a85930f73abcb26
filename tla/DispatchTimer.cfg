SPECIFICATION FairSpec
CONSTANTS
    urgent = urgent
    low = low
    coder = coder
    i1 = i1
    i2 = i2
    NoPasser = NoPasser
    Runs <- MCRuns
    Agents = {coder}
    Issues = {i1, i2}
    AgentOf <- MCAgentOf
    IssueOf <- MCIssueOf
    PriorityRank <- MCPriorityRank
    MaxRank = 1
    MaxConcurrentTasks <- MCLimits
    MaxParallel = 2
    QuotaAgents = {coder}
    Passers = {timer}
INVARIANTS
    TypeOK
    AgentWithinLimit
PROPERTIES
    NoStarvation
    SlotsComeBack
CHECK_DEADLOCK FALSE
