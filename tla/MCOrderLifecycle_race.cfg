SPECIFICATION Spec
CONSTANTS
    w1 = w1
    w2 = w2
    i1 = i1
    None = None
    Writes <- MCTwo
    Intent <- MCAlike
    LedgersFail = {FALSE}
    LedgerFaults <- MCFaults
    Emergencies <- MCOneEmergency
    ProofMayLapse <- MCNever
    MaxGenerations = 1
    MaxSnapshots <- MCSnapshots
    MaxCrashes = 0
CHECK_DEADLOCK FALSE
INVARIANTS
    NotAppliedMeansAbsent
