SPECIFICATION Spec
CONSTANTS
    Editors = {"e1", "e2"}
    MaxTests = 1
    MaxPuts = 2
    MaxSettles = 2
    MaxJobs = 2
    MaxCalls = 1
    MaxDrafts = 1
    MaxTampers = 1
    Silence = 1
    HardCap = 2
    Documents = {"small", "big"}
    MayCancel = TRUE
    MaxLines = 4
    MaxBody = 2
    MaxText = 7
    MaxChunk = 3
    Overlap = 2
    RepairRounds = 2
    Pulls = {"p1", "p2"}
    Models = {"m1", "m2"}
    Layers = {"a", "b"}
    LayerSize = 1
    Deadline = 0
    Cooldown = 1
    MaxServes = 1
    Callers = {"b1", "b2", "x1"}
    ProcessOf <- TheProcess
    Fresh = 1
    MaxProbes = 2
    MaxTime = 1
CHECK_DEADLOCK FALSE
INVARIANT AuthoringTypeOK
INVARIANT DraftsSettle
INVARIANT JobsStayInTheirDraft
INVARIANT AgentsAreReleased
INVARIANT RepliesAreReadBack
PROPERTY WorkNeverGoesBack
