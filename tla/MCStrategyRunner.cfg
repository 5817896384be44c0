SPECIFICATION Spec
CONSTANTS
    c1 = c1
    c2 = c2
    Callers <- MCCallers
SYMMETRY MCSymmetry
INVARIANTS
    OneLifecycleActs
    OwnershipIsExact
