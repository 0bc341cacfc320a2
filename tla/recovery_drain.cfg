SPECIFICATION FairSpec

CONSTANTS
    Plans = {"p1"}
    Nodes = {"n1"}
    Devices = {"d1", "d2"}
    NodeOf <- OneNode
    PlanOf <- OnePlan
    Approvals = {1}
    Grant <- GroupAndOne
    DefaultResetType = "sbr"
    InitialDrain = {"p1"}
    InitialFirmware = {"p1"}
    MaxStatusEvents = 2
    SkipImageVerification = FALSE
    OpenShift = FALSE
    MayHappen = {"workload", "eviction", "drain", "deletion"}
    MayFail = {"delete", "finalizer"}
    MayTaint <- Wedged
    MaxFaults <- Once
    MaxFailures = 1
    MaxEdits = 1
    MaxAttempts = 1

INVARIANTS
    ResetsRunOnDrainedNodes
    DeletionLeavesNothing
    
PROPERTIES
    RecoveriesAreNotCutShort
    DrainEnds
    BlockedResumes
    DeletionCompletes
CHECK_DEADLOCK FALSE
