SPECIFICATION FairSpec
CONSTANTS
    NumSteps = 2
    Retries <- RetryFirst
    Endless = {2}
    MaxPasses = 2
    Faults = {"gate", "script", "engine", "notify"}
CHECK_DEADLOCK FALSE
INVARIANT TypeOK
INVARIANT VerdictFitsSteps
INVARIANT SkippedOnlyIfAsked
INVARIANT NothingOutrunsItsSignal
PROPERTY AttemptsAreTold
PROPERTY StopsAndSkipsLand
PROPERTY ImplementsStepPass
