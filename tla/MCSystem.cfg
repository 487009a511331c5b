\* Two jobs in one partition; the first is confirmed twice.
CONSTANTS
    j1 = j1
    j2 = j2
    c1 = c1
    c2 = c2
    c3 = c3
    Jobs = {j1, j2}
    Calls = {c1, c2, c3}
    StorageLimit = 3
    MaxFileSize = 3
    MinObjectSize = 1
    Sizes = {1, 2}
    MaxPosts = 2
    Partitions = {1}
    PartitionOf <- SamePartition
    Selectable <- OnlyDenoise
    MaxFailures = 1
SPECIFICATION MCSpec
ACTION_CONSTRAINT Client
CHECK_DEADLOCK FALSE
INVARIANTS
    ResultsHaveTheirRow
    WorkIsPaid
PROPERTIES
    ImplementsPipeline
    AllCallsEnd
    OnlyOrphansBlock
