\* Two runs in one process, two faults, any reply of the MCP server.
CONSTANTS
    Runs = {r1, r2}
    Requests <- MCRequests
    Risk <- MCRisk
    Allowlist <- MCAllowlist
    Ledger <- MCLedger
    Replies <- MCReplies
    Providers = {TRUE, FALSE}
    MaxFaults = 2
    None = None
SPECIFICATION Spec
SYMMETRY Symmetry
CHECK_DEADLOCK FALSE
INVARIANTS
    OutsideOnlyWhenAllowed
    SuccessIsOwn
    TrailExplainsAnswer
PROPERTIES
    TrailIsFinal
    ImplementsRunOutcome
