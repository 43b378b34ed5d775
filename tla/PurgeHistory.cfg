SPECIFICATION Spec
CONSTANTS
    Keys = {k1, k2}
    Tags = {k1, k2}
    MaxSeq = 3
    HistoryCap = 1
SYMMETRY Symmetry
INVARIANTS TypeOK AnswerCoversReturned NoOverKill
