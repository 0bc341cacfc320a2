CONSTANTS
    q1 = q1
    q2 = q2
    w1 = w1
    Policies <- FourPolicies
    Queues <- TwoQueues
    Workloads <- OneWorkload
    Capacities <- NoneOneOrThree
    OpenShift = TRUE
    CRDs = {"nfd", "prometheus", "kueue"}
    MayFail = {"list", "write", "dp", "xpum", "dra", "draDelete", "misc", "kmm", "quiet", "crash"}
    MaxFailures = 1
    MaxEdits = 1
    MaxClaims = 1
SPECIFICATION FairSpec
INVARIANTS
    TypeOK
    NothingWithoutFinalizer
    CleanMeansDeployed
PROPERTIES
    DriversOutliveClaims
    DeletionCompletes
    SpecIsReached
CHECK_DEADLOCK FALSE
