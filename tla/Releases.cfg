SPECIFICATION Spec
CONSTANTS
    Rows <- MCRows
    MaxRows = 2
    MaxFiles = 100
    EditedVersions = {"v1", "v2"}
    EditKinds = {"rewrite", "add", "drop"}
    StatsVersions = {"v2"}
    MaxEdits = 1
    MaxRuns = 2
    MaxFaults = 2
INVARIANTS ManifestNamesItsBytes OnlyOrphansRepeatRows OnlyOrphansUnlisted
CHECK_DEADLOCK FALSE
