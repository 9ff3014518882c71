SPECIFICATION FairSpec
CONSTANTS
    Fs = {"lc1", "lc10"}
    Admin = {"a1", "a2"}
    Op = {"open", "packmd", "read_bytes"}
    SchemaOps <- MCSchemaOps
    AllOps <- MCAllOps
    OldOps = {"open"}
    NamePrefix <- MCNamePrefix
    EnforcesKeys = TRUE
    MaxCommands = 3
    MaxFaults = 1
INVARIANTS
    TypeOK
    HandlesUsable
    

    
CHECK_DEADLOCK FALSE
