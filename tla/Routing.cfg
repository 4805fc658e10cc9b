SPECIFICATION LabelledSpec
CONSTANTS
    Watched = p2
    None = None
    p1 = p1
    p2 = p2
    r1 = r1
    s1 = s1
    Providers = {p1, p2}
    Routes = {r1}
    Streams = {s1}
    Embeds = {}
    Droppable = {p1}
    ProviderErrors = {"server_error", "bad_request"}
    MaxAttempts = 2
    FailoverAttempts = 1
    Concurrent = 1
    DeadlineTicks = 1
    Hedging = TRUE
    MaxRegs = 1
    FailureThreshold = 1
    ResetTimeout = 1
    HalfOpenMaxCalls = 1
INVARIANT NothingLeaks
INVARIANT UnavailableMeansAllTried
PROPERTY AttemptsAllowed
PROPERTY BreakerRefined
