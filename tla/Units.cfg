SPECIFICATION UnitsSpec
CONSTANTS
    Foci = {"breaker", "retrying", "messages", "server", "workflows", "memory", "rag", "feedback", "usage", "audit", "backup", "jobs", "windows", "chat"}
    FailureThreshold = 2
    ResetTimeout = 2
    HalfOpenMaxCalls = 2
    c1 = c1
    c2 = c2
    c3 = c3
    c4 = c4
    Calls = {c1, c2, c3, c4}
    Exceptions <- MCExceptions
    Failures <- MCFailures
    Executions = {1, 2}
    MaxAttempts = 3
    BaseWait = 1
    MaxWait = 3
    ExponentialBase = 2
    Jitter = TRUE
    Deadlines <- MCDeadlines
    MaxRetryNow = 5
    UserSays <- MCUserSays
    RawAnswers <- MCRawAnswers
    MaxMessages = 6
    ProvCalls = {1, 2}
    MaxQueue = 1
    ServerModels = {"m"}
    Unlisted = "x"
    Chunks <- MCChunks
    Reports = 2
    Drafts <- MCDrafts
    Slots = {1}
    Subjects = {"ann", "bob", "cy"}
    Admins = {"ann"}
    Granted <- MCGranted
    Gated = {"wipe"}
    MaxCostUsd = 4
    Prices = {2}
    WORKFLOW_KEEP = 2
    WORKFLOW_TTL = 1
    MaxFinished = 3
    MaxWfNow = 2
    Owners = {"ann"}
    MemKeys = {"k1", "k2", "k3"}
    MAX_ITEMS_PER_SCOPE = 2
    Retention = 2
    MaxMemNow = 4
    Sources = {"s1", "s2"}
    Texts <- MCTexts
    Size = 4
    Overlap = 1
    MAX_CHUNKS_PER_COLLECTION = 4
    Ingests = {1, 2}
    Rated = {"r1", "r2", "r3"}
    MAX_ROWS_PER_OWNER = 2
    UsageKeys = {"x", "y"}
    HOUR = 2
    DAY = 4
    USAGE_RETENTION = 3
    USAGE_MAX_ROWS = 3
    MaxUsageClock = 7
    MaxRecorded = 4
    RingSize = 2
    LogRoom = 2
    MaxAudited = 4
    MaxProcess = 2
    Stores = {"a", "b", "pem"}
    SecretFiles = {"pem"}
    MaxVersionB = 2
    NoFile = NoFile
    JobNames = {"x"}
    JobInterval = 2
    MaxJobNow = 4
    MaxStarted = 3
    MaxMade = 2
    WindowOwners = {"g1", "g2"}
    Sizes = {1, 3}
    WINDOW_TOKENS = 5
    MIN_KEEP = 2
    PROMPT_TOKENS = 1
    MaxAdded = 5
    Turns = {0, 1}
    Modes = {"chat", "native"}
    MaxAsked = 3
INVARIANT BreakerSound
INVARIANT RetrySound
INVARIANT ProvidersSound
INVARIANT WorkflowSound
INVARIANT StoresSound
INVARIANT HousekeepingSound
INVARIANT ChatSound
PROPERTY OpenWindowHolds
PROPERTY CircuitMoves
CHECK_DEADLOCK FALSE
