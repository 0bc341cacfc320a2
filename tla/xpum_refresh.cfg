CONSTANTS
    n1 = n1
    n2 = n2
    d1 = d1
    Nodes <- TwoNodes
    Devices <- OneDevice
    Unstable <- OneNode
    maxConcurrentXpumRestarts = 1
    maxXpumRestartAttempts = 1
    MayHappen = {"device", "mode", "pod", "lag"}
    MayFail = {"list", "write", "crash"}
    MaxFailures = 1
    MaxChanges = 2
SPECIFICATION FairSpec
INVARIANTS
    TypeOK
PROPERTIES
    DeletesThePodItRead
    MonitoredOrGivenUp
    RebindIsActedOn
CHECK_DEADLOCK FALSE
