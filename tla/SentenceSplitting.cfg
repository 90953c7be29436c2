SPECIFICATION Spec
CONSTANTS
    Tables <- MCTables
    Sections <- MCSections
    Supported = {"en"}
    Pieces <- MCPieces
    LocalSizes = {1, 2}
    JobSize = 1
    MaxStems = 1
    JobVersion = "s1"
    Replaced = {"a"}
    MaxEdits = 1
    MaxRuns = 2
    MaxJobs = 1
    MaxKills = 1
INVARIANT OnlyMixedSkippedWrong
CHECK_DEADLOCK FALSE
