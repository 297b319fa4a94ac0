SPECIFICATION Spec
CONSTANTS
    r1 = r1
    r2 = r2
    Runs = {r1, r2}
    Projects = {"p1"}
    Types = {"prd", "plan"}
    Scenarios <- MCScenarios
    Organizer = Organizer
    MaxSpaces = 4
    MaxFaults = 2
INVARIANTS PublishedIsPlaced CopiesAreRecorded ReusedWhenAlone
PROPERTIES PublishesOnlyWhole PublishEnds
CHECK_DEADLOCK FALSE
