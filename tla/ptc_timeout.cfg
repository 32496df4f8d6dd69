SPECIFICATION FairSpec
CONSTANTS
    Runs = {r1, r2}
    Calls = {c1, c2}
    MaxCalls = 2
    MaxParallel = 1
    PoolWorkers = 1
    PoolPending = 1
    MaxAdrift = 0
CHECK_DEADLOCK FALSE
PROPERTIES RunsEnd
