CONSTANTS
    p1 = p1
    p2 = p2
    v1 = v1
    NoEvent = NoEvent
    Card <- OneCard
    Session <- OneSession
    Event <- OneEvent
    Capacity = 1
    Named <- FirstNamed
    Kinds = {"virtual"}
    MaxRequests = 1
    Faults = FALSE
SPECIFICATION Spec
PROPERTY ExtraReceiptKept
