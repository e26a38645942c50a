\* A puller on a fixed port and a run on a free one, at the same time.
SPECIFICATION FairSpec
CONSTANTS
    puller = puller
    run = run
    Call = {puller, run}
    Detaching = {puller}
    Port = {"p1", "p2"}
    LocalPort <- FixedAndFree
    AnyPort = "any"
INVARIANTS
    TypeOK
    LeaksAccounted
    ReadyIsMine
PROPERTIES
    StuckOnlyOnStderr
CHECK_DEADLOCK FALSE
