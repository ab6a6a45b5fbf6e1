SPECIFICATION FairSpec
CONSTANTS
    a = a
    b = b
    c = c
    Roles = {a, b, c}
    Requests = {r1, r2}
    Pairs <- MostPairs
INVARIANTS TypeOK GatheredAreInherited
PROPERTIES LoneLinksMakeNoCycle WalksEnd
