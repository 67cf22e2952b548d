CONSTANTS
    Lead = {l1, l2}
    Runner = {w1}
    Desk = {d1}
    Cap = 1
    Inactive = 1
    Recontact = 2
    Windows = {1, 2}
    EventDay = 1
    Overlap = FALSE
    Faults = {"refuse", "answer", "job"}
    Told = {"sent", "read", "failed"}
    None = None
    MaxDay = 1
    MaxEvents = 2
SPECIFICATION FairSpec
CHECK_DEADLOCK FALSE
INVARIANTS ContactedOnce CapRespected OptOutHonoured StatusIsFurthest
PROPERTIES RemindedInTheEnd

