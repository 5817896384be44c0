SPECIFICATION FairSpec
CONSTANTS
    s1 = s1
    s2 = s2
    Selectors = {s1, s2}
    Unscoped = unscoped
    Activations = {a1, a2}
    Writers = {}
    Leased = FALSE
    JournalFaults = {FALSE}
    ReplaceScopes <- MCReplaceOnly
    Overrides <- MCNoReset
    TargetSets <- MCOverlapping
    MaxSequence <- MCSequences
    MaxCrashes = 0
INVARIANTS
    ExclusiveSweep
PROPERTIES
    ActivationReturns
CHECK_DEADLOCK FALSE
