SPECIFICATION FairSpec
CONSTANTS
    Modes = {"trickle", "whole"}
    Announced = {"open", "connecting"}
    Checks = {"I"}
    MaxCand = 1
    MaxFaults = 1
INVARIANTS
    TypeOK
    DeferredUntilDescribed
    EndIsLast
    SendLiveMeansUp
PROPERTIES
    ClosedIsFinal
    BothUp
    EverySideSettles
CHECK_DEADLOCK FALSE
