\* Two overlapping runs of one cluster; a failed call, a kill.
SPECIFICATION Spec
CONSTANTS
    p1 = p1
    p2 = p2
    apps = apps
    cicd = cicd
    Cluster = {apps}
    Apps = {apps}
    Proc = {p1, p2}
    ClusterOf <- SameCluster
    Port = {q1, q2, q3}
    Addr = {a1}
    Request <- BuildPhases
    Empty = Empty
    Garbled = Garbled
    Missing = Missing
    Blank = Blank
    NoPort = NoPort
    NoConfig = NoConfig
    NoContext = NoContext
    Killed = Killed
    GaveUp = GaveUp
    MaxFaults = 1
    MaxCrashes = 1
    MaxResets = 0
SYMMETRY Symmetry
INVARIANTS
    LedgerSound
