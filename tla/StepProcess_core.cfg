SPECIFICATION FittingSpec
CONSTANTS
    NoCaller = NoCaller
    NumProcs = 2
    Callers = {c1, c2}
    Limits = {{}, {1}}
    Leftovers = {"child", "escapee"}
    Shutdowns = 1
    Failing = {"write", "thread"}
CHECK_DEADLOCK FALSE
INVARIANT StepsEndClean
PROPERTY OnlyOwnAgents
