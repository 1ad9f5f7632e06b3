SPECIFICATION Spec
CONSTANTS
    a = a
    b = b
    g = g
    h = h
    m = m
    Main = m
    Jobs <- TwoJobs
    Channels <- OneChannel
    Capacities <- ZeroOrOne
    SelectShapes <- OneShapes
    StackSupported = FALSE
    MaxOps = 5
    IntMax = 1
SYMMETRY JobSymmetry
INVARIANTS
    TypeOK
    NoLostWakeup
    NoMissedRendezvous
    Conservation
    ServedInOrder
PROPERTY ImplementsGoChannel
CHECK_DEADLOCK FALSE
