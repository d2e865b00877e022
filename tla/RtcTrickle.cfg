SPECIFICATION Spec
CONSTANTS
    Modes = {"trickle"}
    Announced = {"open"}
    Checks = {"I", "R"}
    MaxCand = 1
    MaxFaults = 0
INVARIANT NothingLeftDeferred
CHECK_DEADLOCK FALSE
