SPECIFICATION FairSpec
CONSTANTS
    Sessions = {s1, s2}
    Sources = {s1}
    MaxScopes = 1
    MaxRequests = 1
    MaxDeliveries = 4
    MaxMessages = 4
    MaxPending = 2
    Workers = 1
    MaxCrashes = 1
    MaxPauses = 1
    MaxBreaks = 1
    MaxStops = 1
INVARIANTS
    NoRunaway
    RequestBacked
    ReplyHasRoom
PROPERTIES
    RequestsMoveOn
CHECK_DEADLOCK FALSE
