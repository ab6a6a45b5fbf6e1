SPECIFICATION Spec
CONSTANTS
    Requests = {q1}
    Limit = 2
    Window = 2
    Redis = {TRUE}
    MayStop = FALSE
PROPERTY RefusedOnlyAtLimit
