\* Two workers, one of which dies and cannot be started again.
CONSTANTS
    Count = 2
    RestartDelay = 2
    StartMaxAttempts = 2
    MaxDeaths = 2
SPECIFICATION Spec
CHECK_DEADLOCK FALSE
INVARIANT NoWorkerLeft
