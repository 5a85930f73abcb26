SPECIFICATION ServicesSpec
CONSTANTS
    Focus = {"chat", "memory", "accounts", "logins", "providers", "verifier", "autopilots",
             "commands", "connections", "delegation", "routing", "board",
             "migration", "annotations"}
    one = one
    two = two
    Pair = {one, two}
    Senders = {one, two}
    MaxThreads = 2
    MaxUserMessages = 3
    MaxNotes = 1
    MaxFaults = 1
    Facts = {one, two}
    Projects = {"p"}
    MemoryClients = {one, two}
    MaxMemories = 2
    MaxMemoryOps = 3
    MaxToggles = 1
    Users = {"u", "v"}
    MaxTokens = 1
    WebRequests = {one, two}
    Admins = {"a", "b"}
    CacheTTL = 1
    MaxClock = 1
    LoginNames = {"u", "v"}
    LoginRequests = {one, two}
    MaxFailures = 2
    FailureWindow = 2
    MaxLoginClock = 4
    Agents = {"m"}
    Watched = {"m"}
    Monitor = "m"
    Runtimes = {one, two}
    NoRuntime = "null"
    MaxEdits = 1
    Assignees = {"a", "b"}
    MAX_VERIFIER_RETRIES = 2
    MaxWork = 2
    MaxOwnerActs = 2
    Triggers = {"t1", "t2"}
    Targets = {"i1"}
    Firings = {"f"}
    PageRequests = {one, two}
    MaxPilotEdits = 2
    Commands = {one, two}
    MaxWarm = 2
    Visits = {one, two}
    MaxFlows = 1
    Team = {"lead", "x", "y", "z"}
    Lead = "lead"
    InSquad = {"lead", "x", "z"}
    Gated = {"z"}
    Backed = {"lead"}
    ArchivedBackup = {"y"}
    FailedBack = {"lead"}
    MayBeCli = {"lead"}
    MaxCalls = 3
    Limit = 1
    MaxSquadEdits = 1
    NoAgentHere = "null"
    Routes = {"a", "b"}
    OwnRoute = "a"
    OwnBackup = "b"
    OwnFailback = "a"
    SameProvider = {"a", "b"}
    SameModel = {"a"}
    Unfit = {}
    PolicyModes = {"auto", "model_fixed"}
    MaxPrice = 1
    MaxSettings = 2
    PolicyOwners = {"o"}
    Nothing = Nothing
    Writers = {one, two}
    BoardProjects = {"p", "q", "f"}
    Elsewhere = {"f"}
    MaxIssues = 3
    MaxComments = 3
    MaxBoardEdits = 4
    MaxBoardFaults = 1
    Starters = {one, two}
    Nobody = "nobody"
    InitAttempts = 2
    MaxRows = 2
    MaxKills = 1
    Annotators = {one, two}
    Lessons = {one, two}
    MaxAnnotations = 4
    MaxAnnotationFaults = 1
INVARIANTS ServicesTypeOK OneTurnPerThread AuditKeepsContents
    SupersededIsReplaced RevokedIsNoticed FailuresBounded HomeKept
    TriggersHaveJobs CommandsRunOnce StateUsedOnce BudgetKept SpendCapKept
    BoardConsistent UpgradeIsSafe LessonsOnRecord
SYMMETRY Exchange
VIEW LookedAt
CHECK_DEADLOCK FALSE
