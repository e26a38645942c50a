\* One cluster, one run at a time; a failed call, a kill, a rebuild or a new worker.
SPECIFICATION Spec
CONSTANTS
    p1 = p1
    p2 = p2
    apps = apps
    cicd = cicd
    Cluster = {apps}
    Apps = {apps}
    Proc = {p1}
    ClusterOf <- OneRun
    Port = {q1, q2, q3}
    Addr = {a1, a2}
    Request <- OperatorRequests
    Empty = Empty
    Garbled = Garbled
    Missing = Missing
    Blank = Blank
    NoPort = NoPort
    NoConfig = NoConfig
    NoContext = NoContext
    Killed = Killed
    GaveUp = GaveUp
    MaxFaults = 1
    MaxCrashes = 1
    MaxResets = 1
SYMMETRY Symmetry
INVARIANTS
    TypeOK
    LedgerSound
    ExternalnameSound
    CsiSmokeSound
    OkRunIsRecorded
    TunnelsOwned
    KubeconfigFollowsTunnel
PROPERTIES
    ImplementsCheckpoint
