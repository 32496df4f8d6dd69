SPECIFICATION Spec
CONSTANTS
    Threads = {t1}
    TurnIds = {A, B}
    Kinds = {"preview", "lossless", "other"}
    MaxEvents = 2
    HardCap = 3
    MaxSeq = 6
    MaxSubs = 0
    MaxExits = 0
INVARIANTS
    GapExact
    IntactExact
CHECK_DEADLOCK FALSE
