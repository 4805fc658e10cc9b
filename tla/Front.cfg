SPECIFICATION Spec
CONSTANTS
    s1 = s1
    s2 = s2
    MaxCalls = 2
    Subjects <- MCSubjects
    Credentials <- MCCredentials
    Bodies <- MCBodies
    Model = m
    MaxTracked = 2
    DefaultCap = 1
    ModelCap = 1
    NewCap = 0
    MaxSteps = 1
    MaxWindow = 1
    q1 = q1
    q2 = q2
    x = x
    y = y
    k1 = k1
    k2 = k2
    k3 = k3
    Clients = {x, y}
    Rpm = 2
    Minute = 2
    MaxClients = 1
    MaxThrNow = 6
    Requests = {q1, q2}
    CallerOf <- MCCallerOf
    TTL = 3
    MaxItems = 2
    MaxRateKeys = 1
    RatePerMinute = 1
    MaxIssued = 3
    MaxToolNow = 4
    RemoteCalls = {k1, k2, k3}
    Offered <- MCOffered
    Allow = {"*"}
    ToolOf <- MCToolOf
    MaxProcs = 3
    n1 = n1
    n2 = n2
    a = a
    b = b
    task = task
    answer = answer
    once = once
    beat = beat
    REPLAY_WINDOW_S = 1
    MaxSeq = 2
    Initiator = n1
    Responder = n2
    Skew <- MCSkew
    MaxHellos = 2
    MaxFrames = 2
    MaxClock = 2
    Peers = {a, b}
    Envelopes = {task, answer, once, beat}
    Sender <- MCSender
    Recipient <- MCRecipient
    Mode <- MCMode
    Everybody = all
    ReplyTo <- MCReplyTo
    MaxSends = 3
    QUEUE_SIZE = 1
    MAX_ROUTING_HOPS = 2
    TTL_S = 0
    MaxLives = 2
    MaxNow = 2
    Foci = {"gateway", "throttle", "tools", "mcp", "stp", "dap"}
 
INVARIANT MinuteHeld
INVARIANT ToolCallsSound
INVARIANT ProtocolsSound
CHECK_DEADLOCK FALSE
