SPECIFICATION Spec
CONSTANTS
    Tables = 2
    Manifests = 4
    MaxGeneration = 1
    MaxOthers = 1
    MaxCrashes = 2
INVARIANTS ManifestsLast HalfMigratedHasJournal
PROPERTIES OnlyConcurrentUpdatesLost
CHECK_DEADLOCK FALSE
