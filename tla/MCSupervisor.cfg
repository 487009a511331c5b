\* Three workers; two attempts to connect; three faults, failed starts included.
CONSTANTS
    Count = 3
    RestartDelay = 3
    StartMaxAttempts = 2
    MaxDeaths = 3
SPECIFICATION FairSpec
CHECK_DEADLOCK FALSE
INVARIANTS
    TypeOK
    RestartsAreForTheDead
    ExitLeavesNoWorker
PROPERTIES
    WorkersComeBack
    StopsEnd
