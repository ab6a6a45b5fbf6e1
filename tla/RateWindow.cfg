SPECIFICATION FairSpec
CONSTANTS
    Requests = {q1, q2, q3}
    Limit = 2
    Window = 3
    Redis = {TRUE, FALSE}
    MayStop = TRUE
INVARIANTS TypeOK WindowBound
PROPERTY RefusedGetsIn
