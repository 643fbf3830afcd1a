\* Two workers, two jobs for one slot, two faults, unrestricted time.
CONSTANTS
    Workers = {w1, w2}
    Producers = {}
    Tokens = {t1, t2, t3}
    NumSlots = 1
    MaxEntries = 2
    MaxVersion = 1
    ClaimAfter = 1
    Lease = 2
    RunRetention = 2
    EnqRetention = 1
    WriteVersions = {}
    HasExpiry = FALSE
    ExactTimes = {FALSE}
    RetryLimit = 1
    MaxManual = 2
    MaxFaults = 2
    MaxEffects = 2
SPECIFICATION Spec
SYMMETRY Symmetry
INVARIANTS
    LeaseRespected
    AckedIsCovered
    DuplicateEffectExplained
PROPERTY ImplementsRunLease
