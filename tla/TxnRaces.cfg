SPECIFICATION Spec
CONSTANTS
    Txns = {t1}
    LineIds = {n1, n2}
    Requests = {r1, r2}
    Openings <- PendingOpening
    Edits <- SettleEdits
    LineInputs <- ProductLine
    Discounted = {1}
    Amounts = {2}
SYMMETRY TxnSymmetry
INVARIANTS TypeOK PaidNonNegative
PROPERTIES PaymentsSpareTotals ClosedBooksStay TotalsStayTrue
