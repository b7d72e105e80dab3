SPECIFICATION Spec
CONSTANTS
    Triggers <- TheTriggers
    Groups <- TheGroups
    Zones <- TheZones
    Grace = 1
    Hold = 2
    Start = 2
    MaxEdits = 1
    MaxSteps = 2
    Autos = {"a"}
    Hour = 2
    MaxClock = 16
    MaxBack = 2
    Secrets = {"s", "t"}
    Bots = {"a", "b"}
    Holds <- TheHolds
    SeenLimit = 1
    MaxMsgs = 2
    MaxConns = 2
    MaxFlips = 1
    MaxFaults = 1
    Senders = {"x"}
    MaxAge = 1
    MaxRows = 3
    MaxHour = 2
    MaxUpsets = 2
    LaunchIds = {"l1", "l2"}
    Starters = {"a", "b"}
    LaunchMemory = 1
    MaxSends = 3
    Hi = 3
    MaxItems = 2
    Lengths <- TheLengths
    Badged <- TheBadged
    BadgeZones <- TheBadgeZones
CHECK_DEADLOCK FALSE
INVARIANT IntakeTypeOK
INVARIANT OccurrencesFireOnce
INVARIANT SweepsKeepGoing
INVARIANT MessagesFireOnce
INVARIANT ListenersStop
INVARIANT TextsMeanWhatTheySay
