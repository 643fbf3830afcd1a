\* Two replicas over PostgreSQL, or one process over SQLite; two owners.
CONSTANTS
    Replicas = {p1, p2}
    Handlers = {h1, h2}
    Identities <- MCIdentities
    Keys = {k}
    Ids = {r1, r2}
    Deployments <- MCDeployments
    MaxFaults = 2
    None = None
SPECIFICATION Spec
SYMMETRY Symmetry
INVARIANTS
    AnswersAgree
    RetryDoesNotRun
    AnsweredIsStored
    ReadByOwner
