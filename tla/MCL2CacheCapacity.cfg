CONSTANTS
    Clients = {c1, c2}
    Keys = {k1, k2}
    Values = {v1}
    NoValue = NoValue
    Garbled = Garbled
    Limits = {1}
    Faulty = FALSE
SPECIFICATION Spec
SYMMETRY L2Symmetry
INVARIANTS
    WithinCapacity
