CONSTANTS
    Person = {p1, p2, p3}
    First = {p1, p2}
    Tenant = {t1, t2}
    Link = {l1}
    Request = {r1, r2}
    Overlap = FALSE
    Flag = {TRUE}
    MaxActs = 4
    Service = {s1}
    Category = {c1, c2}
    Asset = {a1, a2}
    Event = {v1}
    Form = {f1, f2}
    Image = {i1, i2, i3}
    External = External
    ServiceLink = {k1, k2, k3, k4}
    None = None
    MaxLinks = 2
    MaxEdits = 4
    MaxOrden = 1
    MaxTouches = 6
    MaxSaves = 5
    MaxOpps = 2
    MaxTime = 5
SPECIFICATION OfficeSpec
CHECK_DEADLOCK FALSE
SYMMETRY Perms
INVARIANTS OperatorRemains SnapshotIsCurrent MaterialsServed LinksWithinReach OneImage BadgeIsRight
PROPERTIES RemovalIsLocal
