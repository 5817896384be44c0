SPECIFICATION Spec
CONSTANTS
    a = a
    b = b
    c1 = c1
    c2 = c2
    w1 = w1
    NoAccount = NoAccount
    Guarded = a
    Selectors <- MCTwo
    Checks <- MCChecks
    Writers <- MCWriters
    JournalFaults = {FALSE, TRUE}
    Busied <- MCBusied
    MaxDay = 3
    MaxStamp <- MCStamps
    MaxCrashes = 1
SYMMETRY MCSymmetry
INVARIANTS
    ExclusiveFlatten
    EpisodeLatches
    UnsettledKeepsEpisode
    DurableReopens
PROPERTIES
    DurableLatchesForTheDay
    ImplementsLatch
