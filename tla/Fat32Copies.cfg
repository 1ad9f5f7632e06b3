SPECIFICATION Spec
CONSTANTS
    Clusters = 5
    PerSector = 4
    Copies = 2
    Slots = 2
    Top = {"a", "d"}
    Dirs = {"d"}
    Sub = {"b"}
    Sizes = {0, 1, 2}
    Devices = {FALSE}
    MaxOps = 2
    MaxFaults = 1
    MaxCrashes = 0
INVARIANT PartialFailurePoisons
CHECK_DEADLOCK FALSE
