CONSTANTS
    Executions <- MCExecutions
    Scenarios <- MCScenarios
    Versions <- MCVersions
    Chapters <- MCChapters
    Official <- MCOfficial
    Noticed <- MCNoticed
    Flawed <- MCFlawed
SPECIFICATION Spec
CHECK_DEADLOCK FALSE
INVARIANTS
    OutputIsGated
    LedgerAgrees
    PackOfOneSource
PROPERTY
    PipelineEnds
