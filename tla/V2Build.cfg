SPECIFICATION Spec
CONSTANTS
    ShardSeq <- MCShardSeq
    CanonicalOf <- MCNoLegacy
    Groups = 2
    MaxVersion = 2
    InitialV1 <- MCInitialV1
    Titles = {"Alps", "Bern", "Cork"}
    TitleAt <- MCTitleAt
    RegionSeq <- MCRegionSeq
    PbfRows <- MCPbfRows
    V1Polygons <- MCV1Polygons
    Pages = {"Alps", "Cork"}
    BatchSize = 2
    ForceModes = {FALSE}
    MaxRuns = 2
INVARIANTS CompleteIndexExact  OnlyEarlyAnswersInexact PublishedReconciled CompleteRunCovers
