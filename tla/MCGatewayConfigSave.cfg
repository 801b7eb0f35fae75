CONSTANTS
    Gateways = {g1}
    Requests = {r1, r2}
    Savers = {s1}
    Configs = {a, b, bad}
    ValidConfigs = {a, b}
    DefaultConfig = a
    MaxVersion = 2
SPECIFICATION Spec
SYMMETRY ActorSymmetry
INVARIANTS
    SaveClearsCaches
