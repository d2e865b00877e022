SPECIFICATION FairSpec
CONSTANTS
    Servers = {"broker", "sequenced"}
    Senders = {"A"}
    BacklogMax = 1
    MaxQ = 1
    MaxSend = 2
    MaxFlaps = 1
    MaxAgain = 1
INVARIANTS
    TypeOK
    NoGap
    InOrderOnce
    NothingLost
    OpenMeansRouted
    AckedIsHandled
PROPERTY AllDelivered
CHECK_DEADLOCK FALSE
