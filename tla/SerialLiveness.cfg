SPECIFICATION FairSpec
CONSTANTS
    a = a
    b = b
    g = g
    h = h
    m = m
    Main = m
    Jobs <- TwoJobs
    Channels <- OneChannel
    Capacities <- ZeroOrOne
    SelectShapes <- NoShapes
    StackSupported = TRUE
    MaxOps = 4
    IntMax = 1000
PROPERTY EventuallyRuns
CHECK_DEADLOCK FALSE
