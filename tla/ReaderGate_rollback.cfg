SPECIFICATION Spec
CONSTANTS
    Readers = {r1, r2}
    Tables = {t1, t2, t3}
    NoTable = NoTable
    CheckpointMayFail = TRUE
SYMMETRY Symmetry
INVARIANT NoUseAfterFree
