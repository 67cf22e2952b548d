CONSTANTS
    c1 = c1
    c2 = c2
    p1 = p1
    p2 = p2
    i1 = i1
    i2 = i2
    t1 = t1
    w1 = w1
    w2 = w2
    None = None
    Null = Null
    Placeholder = Placeholder
    Today = 100
    Card <- MCCard
    Selling <- MCSelling
    Photo <- MCPhoto
    Image <- MCImage
    Transfer <- MCTransfer
    Sends <- MCSends
    Shows <- MCShows
    Unopenable <- NoImage
    Reading <- MCReading
    Worker <- OneWorker
    Slow = TRUE
    MaxQueue = 1
    MaxActs = 1
    Overlap = FALSE
    Targets <- MCTargets
SPECIFICATION FairSpec
CHECK_DEADLOCK FALSE
INVARIANTS OneVerdict AvisosAreShown
PROPERTIES UsedTransferIsRed PersonDecides PhotoLookedAt
