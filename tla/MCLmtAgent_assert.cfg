SPECIFICATION Spec
CONSTANTS
    Size = 64
    key_f <- hash_key_string
    NULL = NULL
    Prefix <- mds_
    SnapshotTime <- snapshot_time
    OstName <- Osts
    MdtName <- Mdts
    OscName <- Oscs
    Export <- Clients
    OstKey <- Keys
    MdtOp <- Ops
    StatsFile <- Files
    Versions <- Version
    Capacity = 10
    HeadWidth = 2
    ItemWidth = 3
    WideItemWidth = 4
    MaxChanges = 3
    MaxErrors = 1
INVARIANTS
    AssertionsHold
CHECK_DEADLOCK FALSE
