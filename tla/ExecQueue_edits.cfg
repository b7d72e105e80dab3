SPECIFICATION MCSpec
CONSTANTS
    Scenarios = {"edits", "faulty"}
    NoAuto = NoAuto
    Autos = {a1}
    Handlers = {h1, h2}
    Ticker = tick
    MaxRecs = 2
    MaxGen = 1
    ParallelVals = {1, 2}
    DepthVals = {1}
    Requests = {"message", "start", "queue", "retry", "cancel", "clear", "delete", "limits", "triggers", "data_path"}
    Faults = {"version", "error", "write", "launch"}
    ClockSteps = FALSE
    GraceExpires = TRUE
CHECK_DEADLOCK FALSE
SYMMETRY HandlerSymmetry
INVARIANT ExecutingHasThread
PROPERTY AdmittedWithinLimits
PROPERTY EditsReachTheQueue
