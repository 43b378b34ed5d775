SPECIFICATION Spec
CONSTANTS
    VCLs = {v1, v2}
    Volatile <- VolatileSettings
    Persistent <- PersistentSettings
    Programs <- Declarations
    Indexes = {i1, i2, i3, i4}
    Objects = {o1}
    NoVcl = NoVcl
INVARIANTS TypeOK IndexesOwned SweptIffWarm PurgesReach DeparturesHeard ProviderHeld
