CONSTANTS
    m1 = m1
    m2 = m2
    m3 = m3
    w1 = w1
    w2 = w2
    k1 = k1
    k2 = k2
    None = None
    Conv <- TwoConv
    Message <- TwoMessages
    OptOut <- OneOptOut
    Webhook <- OneWebhook
    Worker <- OneWorker
    Slow = TRUE
    MaxDeliveries = 2
    MaxCrashes = 1
    Acts <- AllActs
    Faults <- AllFaults
SYMMETRY Symmetry
SPECIFICATION Spec
CHECK_DEADLOCK FALSE
INVARIANTS MarkCoversRows
PROPERTIES ImplementsInbox
