SPECIFICATION FairSpec
CONSTANTS
    Callers = {c1, c2}
    Misses = {c2}
    MaxPurges = 2
    SweepRuns = TRUE
INVARIANTS TypeOK HitsRefuseStale PurgesTakeEffect RecordsAlive
PROPERTY HardPurgeKills
CHECK_DEADLOCK FALSE
