SPECIFICATION FairSpec
CONSTANTS
    Policy = "ws_async"
    MaxLose = 0
    MaxDup = 2
    Faults = {"reject", "appClose", "wrongPeer"}
INVARIANTS
    SasAgrees
    HonestPeerNotBlamed
PROPERTIES
    BothReachSas
CHECK_DEADLOCK FALSE
