SPECIFICATION SmoothSpec
CONSTANTS
    Txns = {t1}
    LineIds = {n1}
    Requests = {r1}
    Openings <- PendingOpening
    Edits <- NoEdits
    LineInputs <- ProductLine
    Discounted = {1}
    Amounts = {2}
INVARIANTS TotalsMatchLines
