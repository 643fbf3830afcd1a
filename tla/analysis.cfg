\* Two handlers and two keys; a second has four ticks, the window two seconds.
\* The deployments say how many requests, ticks, rotations and crashes each has.
CONSTANTS
    Requests = {h1, h2}
    Kids = {"k1", "k2"}
    CacheTime = 1
    FetchTime = 1
    UriConfigured = FALSE
    MaxClock = 8
    MaxRotations = 1
    None = None
    Calls <- MCCalls
    Second = 4
    Thousandth = 2
    Window = 8
    MaxEvents = 2
    Deployments <- MCDeployments
SPECIFICATION Spec
SYMMETRY Symmetry
CHECK_DEADLOCK FALSE
INVARIANTS
    RevocationBounded
    RotationFollowed
    EgressGoverned
    RateBounded
PROPERTY RetryAfterHolds
