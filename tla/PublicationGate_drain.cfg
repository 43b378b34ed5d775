SPECIFICATION FairSpec
CONSTANTS
    Objects = {o1}
    Keys = {k1, k2}
    Tags <- AllTags
    MaxSeq = 1
    HistoryCap = 1
INVARIANT HistoryIntact
PROPERTY HistoryDrains
