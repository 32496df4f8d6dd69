SPECIFICATION FairSpec
CONSTANTS
    Threads = {t1, t2}
    TurnIds = {A}
    Kinds = {"preview"}
    MaxEvents = 1
    HardCap = 1
    MaxSeq = 2
    MaxSubs = 2
    MaxExits = 1
INVARIANTS
    ResumeContiguous
    NoLostDelivery
    QueueNeverStranded
    DeliveredInOrder
PROPERTIES
    CloseReachesObservers
CHECK_DEADLOCK FALSE
