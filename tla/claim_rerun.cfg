\* Reruns after a kill in the middle of a save.
SPECIFICATION FairSpec
CONSTANTS
    p1 = p1
    p2 = p2
    apps = apps
    cicd = cicd
    Cluster = {apps}
    Apps = {apps}
    Proc = {p1}
    ClusterOf <- OneRun
    Port = {q1, q2}
    Addr = {a1}
    Request <- AllPhases
    Empty = Empty
    Garbled = Garbled
    Missing = Missing
    Blank = Blank
    NoPort = NoPort
    NoConfig = NoConfig
    NoContext = NoContext
    Killed = Killed
    GaveUp = GaveUp
    MaxFaults = 0
    MaxCrashes = 1
    MaxResets = 0
PROPERTIES
    RerunsRepairTheLedger
