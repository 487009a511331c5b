\* Two jobs that do not fit together when both files are large, three calls.
CONSTANTS
    Jobs = {j1, j2}
    Calls = {c1, c2, c3}
    StorageLimit = 5
    MaxFileSize = 3
    MinObjectSize = 2
    Sizes = {1, 2, 3}
    MaxPosts = 2
SPECIFICATION Spec
SYMMETRY Symmetry
CHECK_DEADLOCK FALSE
INVARIANTS
    TypeOK
    QuotaRespected
    RowsArePaid
    PublishedOnce
    PublishedAfterQueued
    ConfirmedFilesStay
    IInv
PROPERTY ImplementsLedger
