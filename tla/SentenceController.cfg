SPECIFICATION FairSpec
CONSTANTS
    LastBatch = 2
    MaxAttempts = 2
    MaxRetried = 1
    MaxCommit = 2
INVARIANTS RunningIsReal OnlySalvagedRowsForeign HubManifestBacked
PROPERTIES ResultKept RunEnds
CHECK_DEADLOCK FALSE
