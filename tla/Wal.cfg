SPECIFICATION Spec
CONSTANTS
    Tags = {a, b}
    MaxSeq = 2
    SegmentMaxBytes = 4
    HistoryCap = 1
    MaxGeneration = 3
INVARIANTS TypeOK NeverRefuses LogBounded
PROPERTY PurgesAreDurable
