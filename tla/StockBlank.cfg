SPECIFICATION Spec
CONSTANTS
    Requests = {r1}
    Levels = {l1}
    Sites = {s1}
    Quantities <- UnitQuantities
    Adjustments <- SmallAdjustments
    MaxQuantity = 2
    Blank = Blank
INVARIANTS QuantitiesAreNumbers
