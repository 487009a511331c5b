\* One job, two calls: one call deletes the row the other has confirmed.
CONSTANTS
    Jobs = {j1}
    Calls = {c1, c2}
    StorageLimit = 3
    MaxFileSize = 3
    MinObjectSize = 2
    Sizes = {2, 3}
    MaxPosts = 2
SPECIFICATION Spec
CHECK_DEADLOCK FALSE
INVARIANT MessageHasJob
