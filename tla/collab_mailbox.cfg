SPECIFICATION Spec
CONSTANTS
    Sessions = {s1, s2}
    Sources = {s1}
    MaxScopes = 1
    MaxRequests = 2
    MaxDeliveries = 3
    MaxMessages = 3
    MaxPending = 2
    Workers = 1
    MaxCrashes = 1
    MaxPauses = 1
    MaxBreaks = 1
    MaxStops = 1
INVARIANTS
    OwnerAttended
PROPERTIES
    ReplyNotLost
    ImplementsMailbox
CHECK_DEADLOCK FALSE
