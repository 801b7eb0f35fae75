CONSTANTS
    Keys = {k1, k2, k3, k4}
    Limits = {0, 2, 3}
    MaxTTL = 1
    Never = Never
SPECIFICATION Spec
SYMMETRY KeySymmetry
INVARIANTS
    ListMatchesMap
    RecencyOrder
    KeepsRecentlyUsed
    WithinLargestLimit
