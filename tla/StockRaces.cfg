SPECIFICATION Spec
CONSTANTS
    Requests = {r1, r2}
    Levels = {l1, l2}
    Sites = {s1}
    Quantities <- UnitQuantities
    Adjustments <- SmallAdjustments
    MaxQuantity = 2
    Blank = Blank
SYMMETRY RaceSymmetry
INVARIANTS TypeOK NonNegative OneLevelPerSite
PROPERTIES NoStockVanishes FreshCommitIsAtomic ReservationKeepsOnHand
