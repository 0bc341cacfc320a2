CONSTANTS
    u1 = u1
    n1 = n1
    n2 = n2
    Updates <- OneUpdate
    Nodes <- TwoNodes
    NodeSelector <- AllNodes
    UpdateTaint <- OwnKeys
    Methods = {"direct", "canary"}
    MayHappen = {"hold", "spec", "delete", "ready"}
    MayFail = {"verify", "taint", "list", "evict", "create", "logs", "untaint", "write", "deleteJob", "crash"}
    MaxFailures = 1
    MaxEdits = 1
SPECIFICATION FairSpec
INVARIANTS
    TypeOK
    FlashingIsUndisturbed
    FlashesWhatWasVerified
    CompletedMeansUpdated
PROPERTIES
    ImplementsRollout
    DeletionCompletes
    UpdatingEnds
CHECK_DEADLOCK FALSE
