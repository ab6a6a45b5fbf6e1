SPECIFICATION Spec
CONSTANTS
    Requests = {r1}
    Levels = {l1, l2}
    Sites = {s1, s2}
    Quantities <- UnitQuantities
    Adjustments <- SmallAdjustments
    MaxQuantity = 2
    Blank = Blank
PROPERTIES Ledger
