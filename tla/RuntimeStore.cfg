CONSTANTS
    r1 = r1
    r2 = r2
    fx = fx
    fileA = fileA
    fileB = fileB
    fileF = fileF
    fileX = fileX
    good = good
    fake = fake
    torn = torn
    text = text
    None = None
    Runs = {r1, r2, fx}
    Fixtures = {fx}
    Paths = {fileA, fileB, fileF, fileX}
    Keys = {1}
    Contents = {good, fake, torn, text}
    Scenarios <- MCScenarios
SPECIFICATION Spec
CHECK_DEADLOCK FALSE
INVARIANTS
    PinnedSurvives
    ReusedIsGenuine
    AttachmentsAreKept
    QuotaIsNotOverdone
