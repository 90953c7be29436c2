SPECIFICATION Spec
CONSTANTS
    Shared = 1
    Tables = 2
    MaxGeneration = 1
    MaxOthers = 1
    MaxCrashes = 2
INVARIANTS NoTornRepair ReceiptMeansHealthy
CHECK_DEADLOCK FALSE
