SPECIFICATION Spec
CONSTANTS
    Objects = {o1, o2, o3}
    Threads = {t1, t2}
    s1 = s1
    s2 = s2
    s3 = s3
    TagSets <- MCTagSets
    Large <- MCLarge
    Hash <- MCHash
    Nodes = {n1, n2, n3}
    NoNode = NoNode
    NoTags = NoTags
    InitialBuckets = 1
    MaxBuckets = 4
    MigrateSteps = 1
    BatchSteps = 2
INVARIANTS
    TypeOK
    OneSetPerTags
    ReleaseFindsSet
    RefsExact
    NothingLeaked
    MigrationHasWorker
SYMMETRY Symmetry
