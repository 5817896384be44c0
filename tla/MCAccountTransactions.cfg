SPECIFICATION Spec
CONSTANTS
    o1 = o1
    o2 = o2
    None = None
    Ops <- MCOps
    MaxFaults = 1
    MaxCrashes = 1
    MaxEdits = 1
    MaxForeign = 1
SYMMETRY MCSymmetry
CHECK_DEADLOCK FALSE
INVARIANTS
    StoresAgree
    OncePerOperation
    FreeClaimIsQuiet
    LiveSessionIsCurrent
