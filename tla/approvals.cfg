\* Two concurrent handlers on two records of a SQL store, one of them failing.
CONSTANTS
    Handlers = {h1, h2}
    Identities <- MCIdentities
    Ids = {i1, i2}
    Keys = {k1}
    Args = {a1}
    Tokens = {t1, t2}
    Unique = TRUE
    MaxFaults = 1
    None = None
SPECIFICATION Spec
SYMMETRY Symmetry
INVARIANTS
    IssuedTokenStands
    VerifiedGenuine
    AuditAgrees
    OneRecordPerKey
PROPERTY DecisionFinal
