SPECIFICATION Spec
CONSTANTS
    Txns = {t1}
    Returns = {i1}
    Lines = {l1}
    Units = {u1}
    Statuses = {"INITIATED", "IN_INSPECTION", "CANCELLED"}
    Fees = {0, 1}
    Requests = {r1}
INVARIANTS FeesAreTotalled
