SPECIFICATION SteadySpec
CONSTANTS
    x = x
    y = y
    Ids = {c1, c2, c3}
    Names <- McNames
    None = None
    MaxPath = 3
    Like <- OrdinaryNames
INVARIANT FlagsAreRight
CHECK_DEADLOCK FALSE
