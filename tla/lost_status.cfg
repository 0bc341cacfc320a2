SPECIFICATION FairSpec

CONSTANTS
    Plans = {"p1"}
    Nodes = {"n1"}
    Devices = {"d1"}
    NodeOf <- OneNode
    PlanOf <- OnePlan
    Approvals = {1}
    Grant <- GroupAndOne
    DefaultResetType = "sbr"
    InitialDrain = {"p1"}
    InitialFirmware = {"p1"}
    MaxStatusEvents = 2
    SkipImageVerification = FALSE
    OpenShift = FALSE
    MayHappen = {}
    MayFail = {"status"}
    MayTaint <- Wedged
    MaxFaults <- Once
    MaxFailures = 1
    MaxEdits = 0
    MaxAttempts = 1

PROPERTIES
    LostStatusIsRewritten
