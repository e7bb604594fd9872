SPECIFICATION Spec
CONSTANTS
    j1 = j1  j2 = j2
    Jobs = {j1, j2}
    Codes = {"zero"}
    MaxFinished = 1
    MaxRestarts = 1
    Unreachable = TRUE

CHECK_DEADLOCK FALSE
INVARIANTS TypeOK FinishedIsDead EarlyCancelIsReported
PROPERTIES PollerIsAnswered
