SPECIFICATION Spec
CONSTANTS
    Values = {v0, v1, v2}
    Zero = v0
    Capacities = {0, 1, 2, 3, 4}
PROPERTY ImplementsFifo
CHECK_DEADLOCK FALSE
