SPECIFICATION HarnessSpec
CONSTANTS
    None = None
    r1 = r1
    t1 = t1
    t2 = t2
    Runs = {r1}
    RunTasks = {t1, t2}
    MaxSteps = 2
    MaxCalls = 1
    MaxIssued = 1
    MaxStops = 0
    Guarded = {TRUE, FALSE}
    Controls = {"pause", "cancel", "kill"}
    Graceful = TRUE
    Planning = FALSE
INVARIANT OneTaskPerRun
