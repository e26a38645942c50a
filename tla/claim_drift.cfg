\* A node's address changes after it has been recorded.
SPECIFICATION FairSpec
CONSTANTS
    Node = {"cp", "w"}
    Vmid = {111, 112}
    Addr = {"a1", "a2"}
    Other = {}
    Declared <- DeclaredInOrder
    Writer = {"run1"}
    NoVm = NoVm
    Blank = Blank
    Missing = Missing
    Torn = Torn
    Changes = 2
    Faults = 0
PROPERTIES
    AddressReconciled
CHECK_DEADLOCK FALSE
