SPECIFICATION Spec
CONSTANTS
    Stems = {a, b}
    Migratable = {b}
    MaxJobs = 2
INVARIANTS OnlyOvertakenUnrecorded OnlyRegionsNotGivenUnpublished
CHECK_DEADLOCK FALSE
