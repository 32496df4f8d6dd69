SPECIFICATION Spec
CONSTANTS
    Refs = {r1, r2}
    Permits = 1
    MaxSubmits = 2
    MaxCloses = 2
    MaxAbandons = 1
INVARIANTS
    HoldingsAccounted
    OneRuntimePerThread
    CloseLeavesNothing
    DeleteIsExclusive
SYMMETRY RefSymmetry
VIEW LiveFrames
CHECK_DEADLOCK FALSE
