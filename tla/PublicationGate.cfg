SPECIFICATION Spec
CONSTANTS
    Objects = {o1, o2}
    Keys = {k1}
    Tags <- AllTags
    MaxSeq = 2
    HistoryCap = 0
SYMMETRY Symmetry
INVARIANTS TypeOK NoLostInvalidation
