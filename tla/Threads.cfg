SPECIFICATION ThreadSpec
CONSTANTS
    Nil = Nil
    MaxThreads = 3
    BumpLimit = 3
    PostLimit = 3
    MaxPosts = 4
    MaxSelected = 2
    MaxReported = 1
INVARIANTS ThreadsLinked PostsLinked Sorted PinnedFirst NewThreadStays
PROPERTY PrunesOldest
CHECK_DEADLOCK FALSE
