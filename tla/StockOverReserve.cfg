SPECIFICATION AccountSpec
CONSTANTS
    Requests = {r1, r2}
    Levels = {l1}
    Sites = {s1}
    Quantities <- SmallQuantities
    Adjustments <- SmallAdjustments
    MaxQuantity = 2
    Blank = Blank
PROPERTIES ReserveWithinAvailable
