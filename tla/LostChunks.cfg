CONSTANTS
    Runs <- MCRuns
    Chunks <- MCChunks
    Scenarios <- LocalScenarios
SPECIFICATION Spec
CHECK_DEADLOCK FALSE
INVARIANT
    NothingPartial
