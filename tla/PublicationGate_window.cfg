SPECIFICATION Spec
CONSTANTS
    Objects = {o1}
    Keys = {k1, k2}
    Tags <- AllTags
    MaxSeq = 2
    HistoryCap = 1
SYMMETRY Symmetry
INVARIANT NoPermanentLoss
