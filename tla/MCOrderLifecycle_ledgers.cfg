SPECIFICATION Spec
CONSTANTS
    w1 = w1
    w2 = w2
    i1 = i1
    None = None
    Writes <- MCTwo
    Intent <- MCAlike
    LedgersFail = {FALSE, TRUE}
    LedgerFaults <- MCFaults
    Emergencies <- MCOneEmergency
    ProofMayLapse <- MCWorking
    MaxGenerations = 2
    MaxSnapshots <- MCSnapshots
    MaxCrashes = 1
SYMMETRY MCSymmetryTwo
CHECK_DEADLOCK FALSE
INVARIANTS
    OnlyPredatedIsDenied
    OneAttemptPerOrder
    SettledStaysClear
    FailedMeansNotEntered
    CriticalIsResolvable
    OneWritingGeneration
PROPERTIES
    UnknownBlocksWrites
