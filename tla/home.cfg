\* A run for each of two clusters, repeated; an operator with a context.
SPECIFICATION Spec
CONSTANTS
    Merger = {"p1", "p2"}
    ClusterOf <- TwoClusters
    Context = {"work"}
    Missing = Missing
    Garbled = Garbled
    NoEntries = NoEntries
    Time = 5
    Faults = 1
INVARIANTS
    TypeOK
    NothingLost
    BackupKept
CHECK_DEADLOCK FALSE
