SPECIFICATION FairSpec
CONSTANTS
    Regions = {1, 2}
    MaxLeft = 1
INVARIANTS CleanRunPublishes OnlyExposedUnnoticed
PROPERTIES RunEnds
CHECK_DEADLOCK FALSE
