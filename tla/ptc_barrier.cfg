SPECIFICATION Spec
CONSTANTS
    Runs = {r1, r2}
    Calls = {c1, c2, c3}
    MaxCalls = 2
    MaxParallel = 2
    PoolWorkers = 1
    PoolPending = 1
    MaxAdrift = 1
SYMMETRY Symmetry
VIEW LiveCalls
CHECK_DEADLOCK FALSE
INVARIANTS
    Exclusive
    TicketsOwned
    NoLostWakeup
    OutcomeHonest
PROPERTIES
    NoLateStart
    FairInOrder
