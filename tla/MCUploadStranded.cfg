\* One job, two calls, with fairness: the answer fails after the commit.
CONSTANTS
    Jobs = {j1}
    Calls = {c1, c2}
    StorageLimit = 3
    MaxFileSize = 3
    MinObjectSize = 2
    Sizes = {2, 3}
    MaxPosts = 2
SPECIFICATION FairSpec
CHECK_DEADLOCK FALSE
PROPERTY QueuedIsPublished
