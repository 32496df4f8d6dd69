SPECIFICATION FairSpec
CONSTANTS
    Agents = {a1, a2}
    Followups = TRUE
    MaxTurns = 2
    MaxClaims = 2
    MaxAbandon = 1
INVARIANTS
    OneLiveTurn
    GuidanceFenced
    ClosedIsQuietUnlessAbandoned
    ResumedOnce
PROPERTIES
    TurnsSettle
    CloseCompletes
CHECK_DEADLOCK FALSE
