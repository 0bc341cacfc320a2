SPECIFICATION Spec

CONSTANTS
    Plans = {"p1"}
    Nodes = {"n1"}
    Devices = {"d1", "d2"}
    NodeOf <- OneNode
    PlanOf <- OnePlan
    Approvals = {1, 2}
    Grant <- GroupAndOne
    DefaultResetType = "sbr"
    InitialDrain = {"p1"}
    InitialFirmware = {"p1"}
    MaxStatusEvents = 2
    SkipImageVerification = FALSE
    OpenShift = FALSE
    MayHappen = {}
    MayFail = {"status", "spec", "create", "untaint", "image", "drain",
               "read", "labels", "crash"}
    MayTaint <- SecondWedged
    MaxFaults <- FirstTwice
    MaxFailures = 2
    MaxEdits = 0
    MaxAttempts = 1

INVARIANTS
    TypeOK
    OneOwnerPerNode
    JobsAreApproved
PROPERTIES
    FailedIsTerminal
