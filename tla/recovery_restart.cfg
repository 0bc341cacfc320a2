SPECIFICATION FairSpec

CONSTANTS
    Plans = {"p1"}
    Nodes = {"n1"}
    Devices = {"d1"}
    NodeOf <- OneNode
    PlanOf <- OnePlan
    Approvals = {1}
    Grant <- GroupAndOne
    DefaultResetType = "sbr"
    InitialDrain = {"p1"}
    InitialFirmware = {"p1"}
    MaxStatusEvents = 2
    SkipImageVerification = FALSE
    OpenShift = TRUE
    MayHappen = {"heal", "overdue", "withdraw", "jobs"}
    MayFail = {"status", "spec", "create", "delete", "untaint", "image", "drain",
               "read", "slices", "labels", "openshift", "finalizer", "crash"}
    MayTaint <- Wedged
    MaxFaults <- Once
    MaxFailures = 2
    MaxEdits = 1
    MaxAttempts = 1

PROPERTIES
    TaintIsReleased
    VerdictIsReached
