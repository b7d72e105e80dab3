SPECIFICATION Spec
CONSTANTS
    NumRecs = 2
    MaxCrashes = 2
    MaxWrites = 1
    Faults = {"write", "corrupt"}
    MaxContent = 3
    MaxSnaps = 2
    KeepUnnamed = 1
    MaxParallel = 1
    Automatic = {"pre-clear", "pre-restore", "pre-version"}
    MaxDeaths = 1
    MaxVersions = 3
    MaxUpsets = 2
    MaxHands = 2
    MaxSaves = 4
    MaxSwapUpsets = 3
    SecretIds <- TheSecrets
    AgentIds <- TheAgents
    Tokens <- TheTokens
    Stores <- TheStores
    Origins <- TheOrigins
    Plans <- ThePlans
    Cap = 2
    MaxTampers = 1
    Previews = {1, 2}
    Confirms = {"c", "d"}
    Slots = 1
    Ttl = 1
    MaxNow = 3
    MaxMishaps = 2
    Deadline = 6
    ReadTimeout = 2
    SizeCap = 3
    Hops = 1
    Horizon = 9
    Rows = {1, 2}
    Folders = {"p"}
    Workers = {"v", "w"}
    MaxJobs = 3
    MaxSlips = 1
    MaxChanges = 1
CHECK_DEADLOCK FALSE
INVARIANT StorageTypeOK
INVARIANT RecordsSurvive
INVARIANT MemoryIsKept
INVARIANT VersionsAreKept
INVARIANT ArchivesLandWhole
INVARIANT FetchedStaysTrue
PROPERTY RepairsSpare
