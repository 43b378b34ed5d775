SPECIFICATION FillSpec
CONSTANTS
    Cores <- ManyCores
    Threads = {t1}
    HomeRange = {0}
    DefaultBuckets = 64
    MinRunway = 32
    MaxBuckets = 128
    MaxObjects = 1000
    Removals = FALSE
INVARIANT EmptyBucketKept
CHECK_DEADLOCK FALSE
