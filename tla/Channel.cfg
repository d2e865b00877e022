SPECIFICATION FairSpec
CONSTANTS
    Surfaces = {"wrapped", "dc"}
    LowThreshold = 1
    MaxSent = 2
    MaxPcChanges = 2
CHECK_DEADLOCK FALSE
INVARIANTS TypeOK ToldIsCurrent NothingToldAfterClose
PROPERTIES FlushedMeansSent CallsSettle
