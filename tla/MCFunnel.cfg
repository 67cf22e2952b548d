CONSTANTS
    Conv = {1, 2}
    Service = {s1}
    None = None
    Tools <- MCTools
    Typed = {"null", "named"}
    Overlap = FALSE
    Acts = {"takeover", "drag", "edit", "open", "drop", "services", "contact"}
    Faults = {"turn", "crash"}
    Dragged = {"Nuevo", "Pago validado", "Entregado", "Cerrado", "Perdido"}
    MaxFaults = 1
    MaxInbound = 2
    MaxActs = 2
SPECIFICATION FairSpec
CHECK_DEADLOCK FALSE
INVARIANTS ClosedAsItsCard
PROPERTIES ForwardOnly RightTray SilencedReachesPeople
