SPECIFICATION Spec
CONSTANTS
    a = a
    b = b
    g = g
    h = h
    m = m
    Main = m
    Jobs <- TwoJobs
    Channels <- TwoChannels
    Capacities <- Unbuffered
    SelectShapes <- BothShapes
    StackSupported = TRUE
    MaxOps = 5
    IntMax = 1000
CONSTRAINT SetUpFirst
SYMMETRY JobSymmetry
INVARIANTS
    Registered
    NoLostWakeup
    OutcomeAgrees
CHECK_DEADLOCK FALSE
