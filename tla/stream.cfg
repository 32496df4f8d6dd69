SPECIFICATION FairSpec
CONSTANTS
    QueueSize = 2
    MergeLimit = 2
    EventKinds = {"text", "other", "hidden", "bad"}
    MaxSeq = 4
    MaxOpens = 2
INVARIANTS
    CursorIsDelivered
    PendingExact
PROPERTIES
    ErrorThenEof
    WaitersWoken
CHECK_DEADLOCK FALSE
