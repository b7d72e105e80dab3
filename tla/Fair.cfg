SPECIFICATION PartSpec
CONSTANTS
    a1 = a1
    h1 = h1
    c1 = c1
    tick = tick
    NoAuto = NoAuto
    Autos = {a1}
    Handlers = {h1}
    Ticker = tick
    MaxRecs = 2
    MaxGen = 0
    ParallelVals = {1}
    DepthVals = {1}
    Requests = {"message", "queue", "cancel", "delete"}
    Faults = {}
    ClockSteps = FALSE
    GraceExpires = FALSE
    NoCaller = NoCaller
    NumProcs = 1
    Callers = {c1}
    Limits = {{}, {1}}
    Leftovers = {"child", "escapee"}
    Shutdowns = 1
    Failing = {}
    Secrets = {"s"}
    Bots = {"a"}
    Holds <- TheHolds
    SeenLimit = 1
    MaxMsgs = 1
    MaxConns = 3
    MaxFlips = 1
    MaxFaults = 1
    Clients = {"x", "y"}
    QueueMax = 2
    MaxEvents = 4
    MaxCalls = 2
    MaxReplaced = 4
    MaxFailures = 1
    Silence = 1
    HardCap = 2
    Documents = {"big"}
    MayCancel = FALSE
CHECK_DEADLOCK FALSE
INVARIANT FeedsAreTrue
PROPERTY ExecutionsMoveOn
PROPERTY FeedsCatchUp
