SPECIFICATION FairSpec
CONSTANTS
    c1 = c1
    c2 = c2
    c3 = c3
    c4 = c4
    dispute1 = dispute1
    oldyear = oldyear
    newyear = newyear
    mango = mango
    durian = durian
    Requests = {c1, c2, c3, c4, dispute1}
    KindOf <- MCKindOf
    YearOf <- MCYearOf
    PrefixOf <- MCPrefixOf
    Seeded <- MCSeeded
    Pool = 2
    MaxFaults = 1
    Nobody = Nobody
CHECK_DEADLOCK FALSE
INVARIANTS TypeOK NumbersAreConsecutive
PROPERTIES RequestsEndOrStarve
