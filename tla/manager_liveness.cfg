SPECIFICATION FairSpec
CONSTANTS
    Refs = {r1, r2}
    Permits = 1
    MaxSubmits = 2
    MaxCloses = 1
    MaxAbandons = 1
PROPERTIES
    SubmitsEnd
    ClosesEnd
CHECK_DEADLOCK FALSE
