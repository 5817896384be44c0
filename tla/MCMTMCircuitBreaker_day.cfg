SPECIFICATION Spec
CONSTANTS
    a = a
    b = b
    c1 = c1
    c2 = c2
    w1 = w1
    NoAccount = NoAccount
    Guarded = a
    Selectors <- MCTwo
    Checks <- MCChecks
    Writers <- MCWriters
    JournalFaults = {TRUE}
    Busied <- MCBusied
    MaxDay = 2
    MaxStamp <- MCStamps
    MaxCrashes = 0
SYMMETRY MCSymmetry
PROPERTIES
    LatchesForTheDay
