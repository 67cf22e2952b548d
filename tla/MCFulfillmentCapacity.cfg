CONSTANTS
    p1 = p1
    p2 = p2
    v1 = v1
    NoEvent = NoEvent
    Card <- TwoCards
    Session <- TwoSessions
    Event <- OneEvent
    Capacity = 1
    Named <- FirstNamed
    Kinds = {"entry"}
    MaxRequests = 3
    Faults = FALSE
SPECIFICATION Spec
INVARIANT CapacityRespected
