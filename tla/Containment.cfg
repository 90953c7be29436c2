SPECIFICATION Spec
CONSTANTS
    Parent = "p"
    Children <- MCChildren
    Keys = {1, 2}
    MaxEdits = 1
    MaxRuns = 3
    MaxKills = 1
INVARIANTS
    OnlyCutShortStale
    CleanRunRetires
PROPERTY
    RemovalLossless
CHECK_DEADLOCK FALSE
