\* A run, repeated, with the VMs changing under it: three changes let a VMID
\* pass from one node to the other and have an address, between two calls.
SPECIFICATION FairSpec
CONSTANTS
    Node = {"cp", "w"}
    Vmid = {111, 112}
    Addr = {"a1", "a2"}
    Other = {"cni"}
    Declared <- DeclaredInOrder
    Writer = {"run1"}
    NoVm = NoVm
    Blank = Blank
    Missing = Missing
    Torn = Torn
    Changes = 3
    Faults = 1
PROPERTIES
    EventuallyAddressed
INVARIANTS
    TypeOK
    OwnAddress
    OwnVmid
CHECK_DEADLOCK FALSE
