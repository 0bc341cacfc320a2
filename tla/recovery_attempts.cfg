SPECIFICATION Spec

CONSTANTS
    Plans = {"p1"}
    Nodes = {"n1"}
    Devices = {"d1", "d2"}
    NodeOf <- OneNode
    PlanOf <- OnePlan
    Approvals = {1, 2}
    Grant <- OneAndGroup
    DefaultResetType = "sbr"
    InitialDrain = {"p1"}
    InitialFirmware = {}
    MaxStatusEvents = 2
    SkipImageVerification = FALSE
    OpenShift = FALSE
    MayHappen = {"heal", "firmware"}
    MayFail = {}
    MayTaint <- SecondWedged
    MaxFaults <- FirstTwice
    MaxFailures = 0
    MaxEdits = 1
    MaxAttempts = 3

INVARIANTS
    OneRecoveryPerNode
    NoAutomaticRetries
    JobsAreTheEventsOwn
    BlockedKeepsApproval
PROPERTIES
    ImplementsLifecycle
