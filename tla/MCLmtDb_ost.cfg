SPECIFICATION Spec
CONSTANTS
    Host <- OstHost
    Svc <- OstSvc
    Op <- MCOp
    FsName <- MCFsName
    FsOrder <- TwoFs
    SvcFs <- HomelessFs
    NamePrefix <- MCPrefix
    KnownOp <- KnowsOpen
    Metric <- OstMetrics
    Autoconf = TRUE
    Interval = 2
    MinReconnectSecs = 3
    MaxTime = 6
    LastOutage = 5
    MaxFaults = 1
    MaxCopies = 2
INVARIANTS
    TypeOK
    IdhashSound
    StampSound
    ReferencesExist
    HandlerHasHandles
    OwnDatabase
    NamesOnce
PROPERTIES
    AttemptsApart
