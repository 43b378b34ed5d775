SPECIFICATION FairSpec
CONSTANTS
    Objects = {o1, o2, o3, o4, o5}
    Capacity = 4
INVARIANTS TypeOK Consistent ClosedIsEmpty
PROPERTIES SweepsMissNothing SweepsEnd
