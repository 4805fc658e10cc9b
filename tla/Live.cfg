SPECIFICATION LiveSpec
CONSTANTS
    None = None
    p1 = p1
    p2 = p2
    r1 = r1
    e1 = e1
    Providers = {p1, p2}
    Routes = {r1}
    Streams = {}
    Embeds = {e1}
    Droppable = {}
    ProviderErrors = {"server_error", "bad_request"}
    MaxAttempts = 2
    FailoverAttempts = 1
    Concurrent = 1
    DeadlineTicks = 1
    Hedging = TRUE
    MaxRegs = 1
    FailureThreshold = 1
    ResetTimeout = 1
    HalfOpenMaxCalls = 1
    PlainReqs = {"plain"}
    AdminReqs = {"admin"}
    Jobs = {"job", "task"}
    Shutdowns = {"s"}
    PostedModes = {"graceful", "forced"}
    Lifespan = "lifespan"
    NoShutdown = "none"
    Foci = {"routing", "shutdown"}
INVARIANT QuietClose
PROPERTY RequestsEnd
PROPERTY ExitRequested
CHECK_DEADLOCK FALSE
