SPECIFICATION Spec
CONSTANTS
    r0 = r0
    r1 = r1
    r2 = r2
    prd = prd
    keep = keep
    Runs = {r0, r1, r2}
    Scenarios <- MCScenarios
    Names = {"a", "b", "c", "d", "e"}
    Options = {prd, keep}
    Documents = {prd}
    Plan <- MCPlan
    CacheSize = 1
    MaxAttempts = 2
INVARIANTS HoldsItsFile StateIsComplete
PROPERTIES AnswersStay RunsEnd
CHECK_DEADLOCK FALSE
