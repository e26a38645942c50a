\* Two runs for two VMs; one new lease, one fault, and an address the
\* SDN has not leased.
SPECIFICATION FairSpec
CONSTANTS
    Sync = {"s1", "s2"}
    Target <- TwoTargets
    Addr <- ThreeAddresses
    Other <- PodAddress
    Zone <- DefaultZone
    None = None
    Changes = 1
    Faults = 1
INVARIANTS
    TypeOK
    NeverForeign
    OkMeansSynced
PROPERTIES
    Converges
CHECK_DEADLOCK FALSE
