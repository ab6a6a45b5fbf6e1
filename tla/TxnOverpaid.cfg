SPECIFICATION SmoothSpec
CONSTANTS
    Txns = {t1}
    LineIds = {n1}
    Requests = {r1, r2}
    Openings <- PendingOpening
    Edits <- NoEdits
    LineInputs <- ProductLine
    Discounted = {}
    Amounts = {2}
PROPERTIES PaymentWithinBalance
