SPECIFICATION Spec
CONSTANTS
    oss1 = oss1
    oss2 = oss2
    t1 = t1
    t2 = t2
    t3 = t3
    None = None
    Server <- TwoServers
    Target <- TwoTargets
    Kind = "mdt"
    Fs <- OneFs
    TargetFs <- SameFs
    Mds <- NoMds
    TargetReport <- MdtReports
    OscReport <- OscReports
    StaleSecs = 1
    MaxTime = 4
    MaxEvents = 4
INVARIANTS
    OwnReadings
