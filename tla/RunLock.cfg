SPECIFICATION FairLockSpec
CONSTANTS
    Runs = {r1, r2}
    Workers = {w1, w2}
    Units = {u1}
    Inputs = {i1, i2}
    Strategies = {"checkpointed", "single_pass"}
    Faults = {"throw", "overrun", "write_error"}
    MaxCrashes = 2
    NoRun = NoRun
    NoInput = NoInput
INVARIANT OwnerIsInLockFile
PROPERTY AbandonedLockIsReclaimed
