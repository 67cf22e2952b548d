CONSTANTS
    Null = Null
    Placeholder = Placeholder
    Nothing = Nothing
    Today = 100
    Service = {"s1"}
    None = None
SPECIFICATION Spec
INVARIANTS AmountsReadAsWritten OnlyTheOwnerMatches DoubtGoesToHuman PaidIsServedOrFlagged
