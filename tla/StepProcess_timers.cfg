SPECIFICATION StepSpec
CONSTANTS
    NoCaller = NoCaller
    NumProcs = 1
    Callers = {c1, c2}
    Limits = {{}}
    Leftovers = {"child", "escapee"}
    Shutdowns = 1
    Failing = {}
CHECK_DEADLOCK FALSE
INVARIANT TimerDiesWithStep
