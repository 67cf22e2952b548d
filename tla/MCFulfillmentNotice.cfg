CONSTANTS
    p1 = p1
    p2 = p2
    v1 = v1
    NoEvent = NoEvent
    Card <- OneCard
    Session <- TwoSessions
    Event <- OneEvent
    Capacity = 1
    Named <- FirstNamed
    Kinds = {"none"}
    MaxRequests = 2
    Faults = FALSE
SPECIFICATION Spec
INVARIANT NoticedOnce
