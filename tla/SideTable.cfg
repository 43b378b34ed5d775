SPECIFICATION SideSpec
CONSTANTS
    Cores = {o1, o2, o3, o4}
    Threads = {t1}
    HomeRange = {0, 1}
    DefaultBuckets = 2
    MinRunway = 1
    MaxBuckets = 8
    MaxObjects = 3
    Removals = TRUE
SYMMETRY ObjectsSymmetry
INVARIANTS SideTypeOK LookupsExact
