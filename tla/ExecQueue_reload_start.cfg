SPECIFICATION MCSpec
CONSTANTS
    Scenarios = {"open"}
    NoAuto = NoAuto
    Autos = {a1}
    Handlers = {h1, h2}
    Ticker = tick
    MaxRecs = 2
    MaxGen = 1
    ParallelVals = {1}
    DepthVals = {1}
    Requests = {"start", "data_path"}
    Faults = {}
    ClockSteps = FALSE
    GraceExpires = FALSE
CHECK_DEADLOCK FALSE
PROPERTY AdmittedWithinLimits
