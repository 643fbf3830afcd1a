\* Two workers, two jobs, one fault; runs end within their lease.
CONSTANTS
    Workers = {w1, w2}
    Producers = {}
    Tokens = {t1, t2, t3}
    NumSlots = 1
    MaxEntries = 2
    MaxVersion = 1
    ClaimAfter = 1
    Lease = 2
    RunRetention = 2
    EnqRetention = 1
    WriteVersions = {}
    HasExpiry = FALSE
    ExactTimes = {FALSE}
    RetryLimit = 0
    MaxManual = 2
    MaxFaults = 1
    MaxEffects = 2
SPECIFICATION TimelySpec
PROPERTIES
    EveryJobAcked
    EverySlotCompleted
