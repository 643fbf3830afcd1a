\* "repeated client request is safe": the transaction it leaves open.
CONSTANTS
    Replicas = {p1}
    Handlers = {h1, h2}
    Identities <- MCOneIdentity
    Keys = {k}
    Ids = {r1, r2, r3, r4}
    Deployments <- MCSqlite
    MaxFaults = 0
    None = None
SPECIFICATION FairSpec
PROPERTY LockReleased
