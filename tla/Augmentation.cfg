CONSTANTS
    RegionSeq <- MCRegionSeq
    OldLayout = {"a"}
    Tags <- MCTags
    Articles <- MCArticles
    Voyages <- MCVoyages
    ForceModes = {FALSE, TRUE}
    MaxRuns = 2
SPECIFICATION Spec
INVARIANT OnlyHalfWrittenInconsistent
PROPERTY OnlyCheckedArticlesHeld
CHECK_DEADLOCK FALSE
