SPECIFICATION FairSpec
CONSTANTS
    Host <- MdtHost
    Svc <- MdtSvc
    Op <- MCOp
    FsName <- MCFsName
    FsOrder <- TwoFs
    SvcFs <- SplitFs
    NamePrefix <- MCPrefix
    KnownOp <- KnowsOpen
    Metric <- MdtMetrics
    Autoconf = TRUE
    Interval = 2
    MinReconnectSecs = 3
    MaxTime = 7
    LastOutage = 4
    MaxFaults = 1
    MaxCopies = 2
INVARIANTS
    ReferencesExist
    OpsJoinMds
    NamesOnce
PROPERTIES
    Recovers
