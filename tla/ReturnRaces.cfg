SPECIFICATION Spec
CONSTANTS
    Txns = {t1}
    Returns = {i1, i2}
    Lines = {l1, l2}
    Units = {u1}
    Statuses = {"INITIATED", "IN_INSPECTION", "CANCELLED"}
    Fees = {1}
    Requests = {r1, r2}
SYMMETRY ReturnSymmetry
INVARIANTS TypeOK
PROPERTIES SecondReturnNeedsRace ClosedStaysClosed StoredTotalsAreCurrent
