SPECIFICATION MCSpec
CONSTANTS
    Clusters = 5
    PerSector = 4
    Copies = 2
    Slots = 2
    Top = {"a", "d"}
    Dirs = {"d"}
    Sub = {"b"}
    Sizes = {0, 1, 2}
    Devices = {TRUE, FALSE}
    MaxOps = 3
    MaxFaults = 1
    MaxCrashes = 1
    MaxBufferedOps = 2
    GuardClusters = 4
CONSTRAINT Scope
INVARIANTS SoundChains NothingLeaks RefusesOnlyLoops
PROPERTIES KeepsOldOrNew WalkEnds
CHECK_DEADLOCK FALSE
