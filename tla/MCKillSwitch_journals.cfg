SPECIFICATION Spec
CONSTANTS
    s1 = s1
    s2 = s2
    Selectors = {s1, s2}
    Unscoped = unscoped
    Activations = {a1, a2}
    Writers = {w1}
    Leased = TRUE
    JournalFaults = {FALSE, TRUE}
    ReplaceScopes <- MCReplaceOnly
    Overrides <- MCAnyReset
    TargetSets <- MCTargetSets
    MaxSequence <- MCSequences
    MaxCrashes = 1
SYMMETRY MCThreads
INVARIANTS
    CompleteMeansFlat
    DurableEpisodeLatches
    NoNormalWriteDuringSweep
    BoundEpisodeStaysCurrent
    DurableResetScope
PROPERTIES
    ResetLeavesFlat
    ImplementsLatch
