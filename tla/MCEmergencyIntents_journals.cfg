SPECIFICATION Spec
CONSTANTS
    p = p
    q = q
    Scopes <- MCScopes
    Sources <- MCSources
    JournalFaults = {FALSE, TRUE}
    UsedIds <- MCUsedIds
    QuietReads = 2
    MaxLag = 1
    ReadAttempts = 3
    MaxId <- MCIds
    MaxCrashes <- MCCrashes
SYMMETRY MCSymmetry
INVARIANTS
    AtMostOneExit
    OutstandingExitsCovered
    CompleteMeansQuiet
    DurableExitsLatched
