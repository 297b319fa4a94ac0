SPECIFICATION FairSpec
CONSTANTS
    Hosts = {h1, h2}
    Slots = {s1, s2}
    Jobs = {j1, j2}
    Dirs = {d1, d2}
    PipelineStatuses = {"completed"}
    Reruns = TRUE
    MaxDepth = 1
    MaxFaults = 1
    NoJob = NoJob
    NoDir = NoDir
INVARIANTS FreshOutput OneGeneratorPerDir AnswerIsOwn
PROPERTIES Delivers CallsReturn
CHECK_DEADLOCK FALSE
