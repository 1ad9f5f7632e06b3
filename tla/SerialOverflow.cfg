SPECIFICATION Spec
CONSTANTS
    a = a
    b = b
    g = g
    h = h
    m = m
    Main = m
    Jobs <- OneJob
    Channels <- OneChannel
    Capacities <- ZeroOrOne
    SelectShapes <- OneShapes
    StackSupported = FALSE
    MaxOps = 5
    IntMax = 1
INVARIANT SelectNeverPanics
CHECK_DEADLOCK FALSE
