SPECIFICATION Spec
CONSTANTS
    Roots = {r, s}
    Sizes = {1, 3}
    Granule = 4
    Limit = 9
    Overhead = 1
    Initial = 4
    Arena = 12
    MaxStores = 2
INVARIANTS NoDanglingPointer SegmentsTiled WithinBudget
PROPERTY ReclaimsGarbage
