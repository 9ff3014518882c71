SPECIFICATION FairSpec
CONSTANTS
    Host <- MdtHost
    Svc <- MdtSvc
    Op <- MCOp
    FsName <- MCFsName
    FsOrder <- OneFs
    SvcFs <- SameFs
    NamePrefix <- MCPrefix
    KnownOp <- KnowsOpen
    Metric <- DneMetrics
    Autoconf = TRUE
    Interval = 2
    MinReconnectSecs = 3
    MaxTime = 6
    LastOutage = 3
    MaxFaults = 0
    MaxCopies = 2
PROPERTIES
    Recovers
