SPECIFICATION Spec
CONSTANTS
    Txns = {t1}
    LineIds = {n1, n2}
    Requests = {r1}
    Openings <- AnyOpening
    Edits <- StatusEdits
    LineInputs <- EveryKind
    Discounted = {1}
    Amounts = {1, 2}
INVARIANTS BooksBalance NeverOutOfPocket
PROPERTIES CancelledIsFinal PaymentWithinBalance
