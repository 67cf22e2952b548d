CONSTANTS
    p1 = p1
    p2 = p2
    v1 = v1
    NoEvent = NoEvent
    Card <- TwoCards
    Session <- TwoSessions
    Event <- OneEvent
    Capacity = 2
    Named <- FirstNamed
    Kinds = {"entry"}
    MaxRequests = 2
    Faults = TRUE
SPECIFICATION WaitingSpec
PROPERTIES RequestsEnd
CHECK_DEADLOCK FALSE
