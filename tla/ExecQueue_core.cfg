SPECIFICATION MCSpec
CONSTANTS
    Scenarios = {"line", "queue", "teardown"}
    NoAuto = NoAuto
    Autos = {a1}
    Handlers = {h1, h2}
    Ticker = tick
    MaxRecs = 4
    MaxGen = 0
    ParallelVals = {1}
    DepthVals = {1, 2}
    Requests = {"message", "timer", "queue", "cancel", "clear", "delete", "shutdown"}
    Faults = {}
    ClockSteps = FALSE
    GraceExpires = FALSE
CHECK_DEADLOCK FALSE
SYMMETRY HandlerSymmetry
INVARIANT TypeOK
INVARIANT QueueIsAccounted
INVARIANT SweepMissesNone
PROPERTY NothingJumpsTheQueue
PROPERTY StopsHold
PROPERTY ImplementsFiringQueue
