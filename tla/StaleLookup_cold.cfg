SPECIFICATION Spec
CONSTANTS
    Callers = {c1, c2}
    Misses = {c2}
    MaxPurges = 2
    SweepRuns = TRUE
INVARIANT RecordsNeverFreed
CHECK_DEADLOCK FALSE
