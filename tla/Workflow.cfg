SPECIFICATION FairSpec
CONSTANTS
    MaxDocs = 3
    PerBatch = 1
    Batching = TRUE
    MaxAttempts = 2
    MaxRetryUnits = 1
    MaxRepair = 1
    Scenarios <- MCScenarios
INVARIANTS OnlyVerifiedContent CheckpointConsistent UpstreamFirst
PROPERTIES CompletedUnitsSurvive ExecutionEnds
CHECK_DEADLOCK FALSE
