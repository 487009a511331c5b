\* Two jobs that share the separate stage, on different partitions; two
\* faults, takeovers of the result consumer included.
CONSTANTS
    j1 = j1
    j2 = j2
    Jobs = {j1, j2}
    Partitions = {1, 2}
    PartitionOf <- TwoPartitions
    Selectable <- TwoSelections
    MaxFaults = 2
SPECIFICATION TakeoverSpec
CHECK_DEADLOCK FALSE
INVARIANTS
    TypeOK
    NoResultRefused
    InputsReady
    ResultsAreBacked
    DoneIsBacked
    MessagesFollowResults
    OffsetsAreSafe
    RowIsConsistent
PROPERTY NothingIsUndone
