\* Two drivers, of one cluster or of two, and a DNS sync that is repeated.
SPECIFICATION Spec
CONSTANTS
    Driver = {d1, d2}
    Sync = {s1}
    Cluster = {cicd, apps}
    Tokens = Tokens
    Nobody = Nobody
    Faults = 1
SYMMETRY Symmetry
INVARIANTS
    TypeOK
    OwnerHasTunnel
    DriverTunnelsAccounted
    SyncTunnelsAccounted
    PlanIsCurrent
CHECK_DEADLOCK FALSE
