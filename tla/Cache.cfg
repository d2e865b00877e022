SPECIFICATION FairSpec
CONSTANTS
    ChunkBytes = 2
    TagBytes = 1
    Retries = 1
    MaxFaults = 2
    Sources = {"bytes", "stream"}
    Sizes = {0, 4, 5}
    MaxChunks = 3
    Parallels = {1, 2}
    Sinks = {"sync", "async"}
CHECK_DEADLOCK FALSE
INVARIANTS TypeOK CommittedIsWhole SinkInOrder VerifiedIsWhole FailuresHaveCauses
PROPERTIES PoolSettles
