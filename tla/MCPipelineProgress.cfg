\* A job with any of the eleven selections and a job that shares its separate
\* stage, in the same partition of every topic; one fault anywhere.
CONSTANTS
    j1 = j1
    j2 = j2
    Jobs = {j1, j2}
    Partitions = {1}
    PartitionOf <- OnePartition
    Selectable <- AnyAndSeparate
    MaxFaults = 1
SPECIFICATION FairSpec
CHECK_DEADLOCK FALSE
PROPERTY ImplementsProgress
