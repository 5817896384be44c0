\* Two symbols, two intents, two sessions and a crash.
SPECIFICATION Spec
CONSTANTS
    s1 = s1
    s2 = s2
    Symbols <- MCSymbols
    MaxIntents = 2
    MaxSessions = 2
    MaxCrashes = 1
CHECK_DEADLOCK FALSE
INVARIANTS
    OutcomesAreTrue
    OneEntryPerSymbol
PROPERTIES
    SquaredOffMeansExited
    DispatchesResolve
    StopsEnd
