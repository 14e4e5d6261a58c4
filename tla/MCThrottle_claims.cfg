CONSTANTS
    Callers = {r1, r2, r3}
    Keys = {k1, k2}
    Interval = 2
    Wait = 1
    MaxClock = 4
    None = None
SYMMETRY Symmetry
SPECIFICATION Spec
CHECK_DEADLOCK FALSE
INVARIANT
    LastSeenIsRecent
PROPERTY
    DeniedOnlyAfterGrant
