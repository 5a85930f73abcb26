SPECIFICATION LivenessSpec
CONSTANTS
    Senders = {"h1", "h2"}
    MaxThreads = 2
    MaxUserMessages = 3
    MaxNotes = 0
    MaxFaults = 1
    Agents = {"m"}
    Watched = {"m"}
    Monitor = "m"
    Runtimes = {"r1", "r2"}
    NoRuntime = "null"
    MaxEdits = 0
    Assignees = {"a", "b"}
    MAX_VERIFIER_RETRIES = 2
    MaxWork = 3
    MaxOwnerActs = 2
INVARIANT ReworkBounded
PROPERTIES MessagesAnswered ComesHome
CHECK_DEADLOCK FALSE
