\* Two producer replicas, a worker and every kind of job; version 2 of the
\* definition may write.
CONSTANTS
    Workers = {w1}
    Producers = {p1, p2}
    Tokens = {t1}
    NumSlots = 1
    MaxEntries = 2
    MaxVersion = 2
    ClaimAfter = 1
    Lease = 1
    RunRetention = 2
    EnqRetention = 1
    WriteVersions = {2}
    HasExpiry = TRUE
    ExactTimes = {TRUE, FALSE}
    RetryLimit = 0
    MaxManual = 0
    MaxFaults = 1
    MaxEffects = 1
SPECIFICATION Spec
SYMMETRY Symmetry
INVARIANTS
    ExecutesReviewedOnly
    MarkerCovered
    EnqueuedOnceWhileMarked
