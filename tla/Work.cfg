SPECIFICATION WorkSpec
CONSTANTS
    Foci = {"harness", "tasks"}
    None = None
    r1 = r1
    t1 = t1
    Runs = {r1}
    RunTasks = {t1}
    MaxSteps = 2
    MaxCalls = 2
    MaxIssued = 3
    MaxStops = 1
    Guarded = {TRUE, FALSE}
    Controls = {"pause", "cancel", "kill"}
    Graceful = TRUE
    Planning = TRUE
    Nobody = Nobody
    a1 = a1
    w1 = w1
    w2 = w2
    d1 = d1
    d2 = d2
    NTasks = 2
    Agents = {a1}
    Priority <- MCPriority
    Workers = {w1, w2}
    Deleters = {d1, d2}
    MaxAgents = 1
    MaxQueues = 2
    MaxFinished = 1
    MaxPauses = 1
INVARIANT IdleRunsAreIdle
INVARIANT OneConversation
PROPERTY RunsKeepTheirWord
PROPERTY RunningMovesOn
PROPERTY CancelSticks
PROPERTY TasksEnd
CHECK_DEADLOCK FALSE
