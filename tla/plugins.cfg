\* Two names with a common beginning, four backups, one fault.
CONSTANTS
    Packages <- MCPackages
    Finds <- MCFinds
    Now = 9
    MaxBackups = 4
    MaxFaults = 1
    None = None
SPECIFICATION Spec
CHECK_DEADLOCK FALSE
INVARIANTS
    RecordAgrees
    NothingLost
    
    RollbackRestoresPrevious
