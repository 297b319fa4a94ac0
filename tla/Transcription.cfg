CONSTANTS
    Runs <- MCRuns
    Chunks <- MCChunks
    Scenarios <- MCScenarios
SPECIFICATION Spec
CHECK_DEADLOCK FALSE
INVARIANTS
    OwnAudio
    OneRecognition
PROPERTY
    TranscriptionEnds
