SPECIFICATION FairSpec
CONSTANTS
    Regions = {a}
    NoRegion = none
    MaxPending = 1
    Attempts = 2
    MaxSequence = 2
    MaxVersion = 2
    MaxMalformed = 1
INVARIANTS SequenceNamesOneJob EnvelopeHasSnapshot DrainedMeansDelivered JobsInOrder
PROPERTIES OnlyReportedJobsRegress ImplementsOutbox BlockingCallsReturn
CHECK_DEADLOCK FALSE
