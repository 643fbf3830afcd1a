\* Two requests or purges at a time, two attachments, two failures.
CONSTANTS
    Handlers = {h1, h2}
    Owners = {ann, bob}
    Ids = {i1, i2}
    MaxFaults = 2
    None = None
SPECIFICATION Spec
SYMMETRY Symmetry
INVARIANTS
    DeletedIsGone
    HalvesAgree
    DeletionAudited
    PurgeLeavesNothing
