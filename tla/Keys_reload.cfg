SPECIFICATION Spec
CONSTANTS
    Foci = {"keys"}
    None = None
    Providers <- MCProviders
    Local <- MCLocal
    Catalogue <- MCCatalogue
    Listed <- MCListed
    Default <- MCDefault
    Profile <- MCProfile
    Tooled <- MCTooled
    Sighted <- MCSighted
    OwnCaps <- MCOwnCaps
    Cost <- MCCost
    Weights <- MCWeights
    Policies <- MCPolicies
    Workloads <- MCWorkloads
    Latencies = {0, 2}
    HistorySize = 1
    MinSamples = 1
    ColdLatency = 1
    Settings <- MCSettings
    Wheel = 6
    MaxUnusual = 2
    Absent = Absent
    Names = {"n1", "n2"}
    PolicyBodies <- MCBodies
    Known = {"p"}
    STRATEGIES = {"balanced", "fallback", "explicit"}
    MaxWrites = 2
    Vendors = {"v", "w"}
    Labels = {"m1", "m2"}
    Priced <- MCPriced
    TTLs = {0, 1}
    MaxEntries = 2
    MaxModels = 1
    MaxUnpriced = 1
    MaxAnswers = 3
    MaxTime = 2
    Items = {"j1", "j2"}
    Urgency <- MCUrgency
    QueueAgents = {"g1"}
    QueueSize = 1
    MaxRetries = 2
    Ggufs = {"g", "h"}
    Scripts <- MCScripts
    MaxLoaded = 1
    IdleTimeout = 0
    MaxObjects = 2
    MaxHour = 1
    Pulls = {1, 2}
    Chunks = 2
    MaxVersion = 2
    Missing = Missing
    KeyIds = {"k1", "k2", "k3", "k4"}
    NameOf <- MCNameOf
    Servers = {"s1", "s2"}
    EnvNames = {"a"}
    YmlNames = {"s2"}
    Callers = {1, 2}
    MaxSecret = 2
    Uses = {1, 2}
    KeyCount = 3
    Cooldown = 1
    MaxPoolTime = 2
    JobIds = {"j"}
    Pollers = {1, 2, 3}
    Datasets <- MCDatasets
    MaxRestartsT = 1
    Replicas = {"old", "new", "new2"}
    Release <- MCRelease
    Broken = {3}
    NoDown = {2}
    MaxStarts = 2
    MaxTokens = 9
    KeepRecent = 2
    NoteSize = 1
    NoteSizes = {1, 4}
    Long = 3
    Short = 1
    MaxTurns = 4
    TriggerNames = {"a", "b", "c"}
    Kind <- MCKind
    Listens <- MCListens
    Sinks = {"hook"}
    Wants <- MCWants
    MaxPerHour = 1
    Interval = 1
    Hour = 2
    FreshFor = 1
    WarnAt = 1
    Cap = 2
    MaxSpend = 2
    MaxBoots = 1
    Window = 2
    Costs = {0, 2}
    MaxTrNow = 2
INVARIANT DeletedKeysAreGone
CHECK_DEADLOCK FALSE
