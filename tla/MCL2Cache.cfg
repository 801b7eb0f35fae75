CONSTANTS
    Clients = {c1, c2}
    Keys = {k1, k2}
    Values = {v1, v2}
    NoValue = NoValue
    Garbled = Garbled
    Limits = {0, 1, 2}
    Faulty = TRUE
SPECIFICATION Spec
SYMMETRY L2Symmetry
INVARIANTS
    CapacityUndisturbed
    EvictionOrder
    ClearRemovesExisting
PROPERTIES
    ImplementsLossyStore
