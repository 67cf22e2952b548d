CONSTANTS
    m1 = m1
    m2 = m2
    m3 = m3
    w1 = w1
    w2 = w2
    k1 = k1
    k2 = k2
    None = None
    Conv <- TwoConv
    Message <- TwoMessages
    OptOut <- NoOptOut
    Webhook <- TwoWebhooks
    Worker <- OneWorker
    Slow = FALSE
    MaxDeliveries = 1
    MaxCrashes = 0
    Acts <- NoActs
    Faults <- NoFaults
SYMMETRY Symmetry
SPECIFICATION Spec
CHECK_DEADLOCK FALSE
INVARIANTS OneOpenConversation
