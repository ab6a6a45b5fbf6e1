SPECIFICATION InventorySpec
CONSTANTS
    Units = {u1}
    Codes = {c1}
    Clerks = {r1}
    Levels = {l1}
    Sites = {s1}
    SiteOf <- OneSite
    Quantities <- UnitQuantities
    Adjustments <- UnitAdjustments
    MaxQuantity = 2
    Blank = Blank
PROPERTIES CreationIsCounted
