SPECIFICATION SmoothSpec
CONSTANTS
    Txns = {t1}
    LineIds = {n1}
    Requests = {r1}
    Openings <- PendingOpening
    Edits <- SettleEdits
    LineInputs <- ProductLine
    Discounted = {}
    Amounts = {2}
PROPERTIES RefundedIsFinal
