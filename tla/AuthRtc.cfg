SPECIFICATION FairSpec
CONSTANTS
    Policy = "rtc"
    MaxLose = 1
    MaxDup = 0
    Faults = {"reject", "appClose", "linkDown", "lateLink"}
INVARIANTS
    TypeOK
    DoneMeansBothAccepted
PROPERTIES
    ReadyIsFinal
    EverySideSettles
CHECK_DEADLOCK FALSE
