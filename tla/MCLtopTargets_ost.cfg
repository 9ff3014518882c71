SPECIFICATION Spec
CONSTANTS
    oss1 = oss1
    oss2 = oss2
    t1 = t1
    t2 = t2
    t3 = t3
    None = None
    Server <- TwoServers
    Target <- ThreeTargets
    Kind = "ost"
    Fs <- TwoFs
    TargetFs <- SplitFs
    Mds <- OneMds
    TargetReport <- OstReports
    OscReport <- OscReports
    StaleSecs = 1
    MaxTime = 4
    MaxEvents = 4
SYMMETRY Symmetry
INVARIANTS
    TypeOK
    SampleOrdered
    OneServerRates
    RowsFresh
    SummaryMatches
    NonFullShown
    OwnFs
PROPERTIES
    NeverBack
