SPECIFICATION Spec
CONSTANTS
    None = None
    p1 = p1
    p2 = p2
    r1 = r1
    e1 = e1
    Providers = {p1, p2}
    Routes = {r1}
    Streams = {}
    Embeds = {e1}
    Droppable = {}
    ProviderErrors = {"server_error"}
    MaxAttempts = 2
    FailoverAttempts = 1
    Concurrent = 1
    DeadlineTicks = 1
    Hedging = FALSE
    MaxRegs = 1
    FailureThreshold = 1
    ResetTimeout = 1
    HalfOpenMaxCalls = 1
INVARIANT ProbesAccounted
