SPECIFICATION FairSpec
CONSTANTS
    Readers = {r1, r2}
    Tables = {t1, t2}
    NoTable = NoTable
    CheckpointMayFail = TRUE
INVARIANTS TypeOK NoLeakNoLoss
PROPERTY RetireCompletes
