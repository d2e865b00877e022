SPECIFICATION Spec
CONSTANTS
    Servers = {"broker"}
    Senders = {"A"}
    BacklogMax = 2
    MaxQ = 2
    MaxSend = 2
    MaxFlaps = 1
    MaxAgain = 0
PROPERTY SendsAreKept
CHECK_DEADLOCK FALSE
