SPECIFICATION FairSpec
CONSTANTS
    Chunks = 6
    Total = 6
    Window = 3
    Credit = 2
    BacklogChunks = 0
    BacklogBytes = 0
    FinAckMaxRetries = 2
    Signed = TRUE
    HasVerifyKey = TRUE
    MaxLose = 0
    MaxDup = 0
    MaxDelay = 0
    Faults = {"senderClose"}
PROPERTY ClosedSenderSettles
CHECK_DEADLOCK FALSE
