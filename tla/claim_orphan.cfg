\* Does every call that is over, and was not killed, leave no ssh behind?
SPECIFICATION Spec
CONSTANTS
    puller = puller
    run = run
    Call = {puller, run}
    Detaching = {puller}
    Port = {"p1", "p2"}
    LocalPort <- FixedAndFree
    AnyPort = "any"
INVARIANTS
    NoOrphanSsh
CHECK_DEADLOCK FALSE
