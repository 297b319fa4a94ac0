CONSTANTS
    r1 = r1
    r2 = r2
    Runs <- MCRuns
    Meetings <- MCMeetings
    Answers <- MCAnswers
    Children <- MCChildren
    Minutes <- MCMinutes
    Words <- MCWords
    Payloads <- MCPayloads
    Earlier <- MCEarlier
    Accidents = 1
    Suspends = 1
    Shown = 2
SPECIFICATION MemorySpec
SYMMETRY Symmetry
CHECK_DEADLOCK FALSE
INVARIANTS
    EntriesAreGrounded
    LedgerIsOneMemory
