SPECIFICATION Spec
CONSTANTS
    QueueSize = 2
    MergeLimit = 2
    EventKinds = {"text", "other"}
    MaxSeq = 4
    MaxOpens = 1
INVARIANT TextInOrder
CHECK_DEADLOCK FALSE
