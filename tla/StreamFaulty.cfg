SPECIFICATION Spec
CONSTANTS
    Chunks = 3
    Total = 3
    Window = 2
    Credit = 1
    BacklogChunks = 2
    BacklogBytes = 0
    FinAckMaxRetries = 1
    Signed = FALSE
    HasVerifyKey = TRUE
    MaxLose = 1
    MaxDup = 1
    MaxDelay = 1
    Faults = {"senderAbort", "receiverAbort", "senderClose", "receiverClose", "sink"}
INVARIANTS
    OkMeansDelivered
    ReceivedMeansWhole
PROPERTY ImplementsTransfer
CHECK_DEADLOCK FALSE
