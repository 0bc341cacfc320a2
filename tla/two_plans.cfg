SPECIFICATION Spec

CONSTANTS
    Plans = {"p1", "p2"}
    Nodes = {"n1"}
    Devices = {"d1", "d2"}
    NodeOf <- OneNode
    PlanOf <- PlanEach
    Approvals = {1, 2}
    Grant <- Standing
    DefaultResetType = "sbr"
    InitialDrain = {"p1"}
    InitialFirmware = {"p1"}
    MaxStatusEvents = 2
    SkipImageVerification = FALSE
    OpenShift = FALSE
    MayHappen = {}
    MayFail = {}
    MayTaint <- Wedged
    MaxFaults <- Once
    MaxFailures = 0
    MaxEdits = 0
    MaxAttempts = 1

INVARIANTS
    OneRecoveryPerNode
