SPECIFICATION FairSpec

CONSTANTS
    Plans = {"p1"}
    Nodes = {"n1"}
    Devices = {"d1", "d2"}
    NodeOf <- OneNode
    PlanOf <- OnePlan
    Approvals = {1}
    Grant <- Overriding
    DefaultResetType = "sbr"
    InitialDrain = {"p1"}
    InitialFirmware = {"p1"}
    MaxStatusEvents = 2
    SkipImageVerification = FALSE
    OpenShift = FALSE
    MayHappen = {}
    MayFail = {}
    MayTaint <- Wedged
    MaxFaults <- Once
    MaxFailures = 0
    MaxEdits = 0
    MaxAttempts = 1

PROPERTIES
    BlockedResumes
