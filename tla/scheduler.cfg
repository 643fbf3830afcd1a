\* One schedule of nine kinds, two callers, three triggers around a change of
\* the clock.
CONSTANTS
    Minute = 2
    Horizon = 12
    Limits <- MCLimits
    Fields <- MCFields
    None = None
    Definitions <- MCDefinitions
    Times = {4, 7, 8, 11}
    Callers = {c1, c2}
    MaxCalls = 3
    MaxCancels = 1
SPECIFICATION Spec
INVARIANTS
    SlotsAreRight
    LimitKept
    OneSuccessPerSlot
PROPERTY CancelStops
