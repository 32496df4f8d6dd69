SPECIFICATION FairSpec
CONSTANTS
    QueueSize = 2
    MaxAttempts = 3
    EventKinds = {"shown", "hidden"}
    MaxSeq = 4
INVARIANTS
    WatchContinuous
    EndIsHonest
PROPERTIES
    WatchEnds
CHECK_DEADLOCK FALSE
