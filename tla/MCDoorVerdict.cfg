CONSTANTS
    e1 = e1
    v1 = v1
    v2 = v2
    d1 = d1
    d2 = d2
    d3 = d3
    NoEvent = NoEvent
    Entry <- MCEntry
    Event <- MCEvent
    Device <- MCDevice
SYMMETRY Symmetry
SPECIFICATION Spec
INVARIANT UsedVerdictMeansUsed
